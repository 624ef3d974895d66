---------------------------- MODULE RxRingProofs ----------------------------
(***************************************************************************)
(* Proofs about RxRing for every ring size, pool and packet limit.          *)
(*                                                                          *)
(* The inductive invariant adds to the properties of RxRing what the task   *)
(* knows at each of its steps (Locals), where the descriptor points         *)
(* (Descriptor) and how far the tokens may run ahead of the packets         *)
(* (Tokens).                                                                *)
(***************************************************************************)
EXTENDS RxRing, FiniteSetTheorems, TLAPS

USE NAssumption, NoPbufAssumption, BoundAssumption, EmptyFramesAssumption

\* The locals of the task hold a pbuf exactly where the code uses them, and a
\* packet found waiting stays there until the task takes it.
Locals ==
  /\ pc = "swap" => nextPkt \in Pbuf /\ lwipRxCount > 0
  /\ pc # "swap" => nextPkt = NoPbuf
  /\ pc = "deliver" => p \in Pbuf
  /\ pc # "deliver" => p = NoPbuf

Descriptor ==
  /\ dma \in {"run", "done"} => desc = lwipRxPbuf[lwipRxIndexIsr]
  /\ dma = "done" => payload[desc] = arrived /\ arrived > 0

Tokens == rx_semaphore <= lwipRxCount + (IF pc \in {"input", "swap"} THEN 0 ELSE 1)

TypeInv == TypeOK /\ Locals
IInv == TypeInv /\ IndicesAgree /\ Descriptor /\ OneOwner /\ Tokens

-----------------------------------------------------------------------------
(* Type correctness. *)

LEMMA TypeInit == Init => TypeInv
BY DEF Init, TypeInv, TypeOK, Locals, Slot

LEMMA TypeNext == TypeInv /\ [Next]_vars => TypeInv'
<1> SUFFICES ASSUME TypeInv, [Next]_vars PROVE TypeInv'
  OBVIOUS
<1> USE DEF TypeInv, TypeOK, Locals, Slot, ringVars, dmaVars, taskVars, stackVars
<1>1. CASE FrameReceived
  BY <1>1 DEF FrameReceived
<1>2. CASE RxIsrError
  BY <1>2 DEF RxIsrError, StartRead
<1>3. CASE RxIsrFull
  BY <1>3 DEF RxIsrFull, StartRead
<1>4. CASE RxIsrKeep
  BY <1>4 DEF RxIsrKeep, StartRead, NextSlot, RingFull
<1>5. CASE StartTask
  BY <1>5 DEF StartTask
<1>6. CASE SemTaken
  BY <1>6 DEF SemTaken
<1>7. CASE SemTimeout
  BY <1>7 DEF SemTimeout
<1>8. CASE InputNothing
  BY <1>8 DEF InputNothing
<1>9. CASE InputAlloc
  BY <1>9 DEF InputAlloc
<1>10. CASE InputSwap
  BY <1>10 DEF InputSwap, NextSlot
<1>11. CASE DeliverPost
  BY <1>11 DEF DeliverPost
<1>12. CASE DeliverFailed
  BY <1>12 DEF DeliverFailed
<1>13. CASE DeliverUnknown
  BY <1>13 DEF DeliverUnknown
<1>14. CASE InputReturn
  BY <1>14 DEF InputReturn
<1>15. CASE CheckDone
  BY <1>15 DEF CheckDone
<1>16. CASE ResetDma
  BY <1>16 DEF ResetDma
<1>17. CASE Rearm
  BY <1>17 DEF Rearm, MacInitReturns, StartRead
<1>18. CASE TcpipFetch
  BY <1>18 DEF TcpipFetch
<1>19. CASE TcpipDone
  BY <1>19 DEF TcpipDone
<1>20. CASE Release
  BY <1>20 DEF Release
<1>21. CASE RearmFails
  BY <1>21 DEF RearmFails, MacInitReturns
<1>22. CASE UNCHANGED vars
  BY <1>22 DEF vars
<1> QED
  BY <1>1, <1>2, <1>3, <1>4, <1>5, <1>6, <1>7, <1>8, <1>9, <1>10, <1>11, <1>12,
     <1>13, <1>14, <1>15, <1>16, <1>17, <1>18, <1>19, <1>20, <1>21, <1>22
     DEF Next, RxIsr, InputTask

\* Every variable keeps its type and the ring its bounds: indices inside the ring,
\* never a packet taken from an empty ring, never a NULL posted or stored.
THEOREM TypeCorrect == Spec => []TypeOK
<1>1. Spec => []TypeInv
  BY TypeInit, TypeNext, PTL DEF Spec
<1> QED
  BY <1>1, PTL DEF TypeInv

-----------------------------------------------------------------------------
(* The ring and the descriptor. *)

\* The two indices and the counter stay those of one ring.
LEMMA IndicesNext == ASSUME TypeInv, IndicesAgree, [Next]_vars PROVE IndicesAgree'
<1> USE DEF TypeInv, TypeOK, Locals, Slot, ringVars, dmaVars, taskVars, stackVars, IndicesAgree, WaitingSlot
<1>1. CASE FrameReceived
  BY <1>1 DEF FrameReceived
<1>2. CASE RxIsrError
  BY <1>2 DEF RxIsrError
<1>3. CASE RxIsrFull
  BY <1>3 DEF RxIsrFull
<1>4. CASE RxIsrKeep
  BY <1>4 DEF RxIsrKeep, NextSlot, RingFull
<1>5. CASE StartTask
  BY <1>5 DEF StartTask
<1>6. CASE SemTaken
  BY <1>6 DEF SemTaken
<1>7. CASE SemTimeout
  BY <1>7 DEF SemTimeout
<1>8. CASE InputNothing
  BY <1>8 DEF InputNothing
<1>9. CASE InputAlloc
  BY <1>9 DEF InputAlloc
<1>10. CASE InputSwap
  BY <1>10 DEF InputSwap, NextSlot
<1>11. CASE DeliverPost
  BY <1>11 DEF DeliverPost
<1>12. CASE DeliverFailed
  BY <1>12 DEF DeliverFailed
<1>13. CASE DeliverUnknown
  BY <1>13 DEF DeliverUnknown
<1>14. CASE InputReturn
  BY <1>14 DEF InputReturn
<1>15. CASE CheckDone
  BY <1>15 DEF CheckDone
<1>16. CASE ResetDma
  BY <1>16 DEF ResetDma
<1>17. CASE Rearm
  BY <1>17 DEF Rearm, MacInitReturns
<1>18. CASE TcpipFetch
  BY <1>18 DEF TcpipFetch
<1>19. CASE TcpipDone
  BY <1>19 DEF TcpipDone
<1>20. CASE Release
  BY <1>20 DEF Release
<1>21. CASE RearmFails
  BY <1>21 DEF RearmFails, MacInitReturns
<1>22. CASE UNCHANGED vars
  BY <1>22 DEF vars
<1> QED
  BY <1>1, <1>2, <1>3, <1>4, <1>5, <1>6, <1>7, <1>8, <1>9, <1>10, <1>11, <1>12, <1>13, <1>14, <1>15, <1>16, <1>17, <1>18, <1>19, <1>20, <1>21, <1>22
     DEF Next, RxIsr, InputTask

\* The descriptor stays on the handler's slot.
LEMMA DescriptorNext == ASSUME TypeInv, IndicesAgree, Descriptor, [Next]_vars PROVE Descriptor'
<1> USE DEF TypeInv, TypeOK, Locals, Slot, ringVars, dmaVars, taskVars, stackVars, IndicesAgree, WaitingSlot, Descriptor
<1>1. CASE FrameReceived
  BY <1>1 DEF FrameReceived
<1>2. CASE RxIsrError
  BY <1>2 DEF RxIsrError, StartRead
<1>3. CASE RxIsrFull
  BY <1>3 DEF RxIsrFull, StartRead
<1>4. CASE RxIsrKeep
  BY <1>4 DEF RxIsrKeep, StartRead, NextSlot, RingFull
<1>5. CASE StartTask
  BY <1>5 DEF StartTask
<1>6. CASE SemTaken
  BY <1>6 DEF SemTaken
<1>7. CASE SemTimeout
  BY <1>7 DEF SemTimeout
<1>8. CASE InputNothing
  BY <1>8 DEF InputNothing
<1>9. CASE InputAlloc
  BY <1>9 DEF InputAlloc
<1>10. CASE InputSwap
  BY <1>10 DEF InputSwap, NextSlot
<1>11. CASE DeliverPost
  BY <1>11 DEF DeliverPost
<1>12. CASE DeliverFailed
  BY <1>12 DEF DeliverFailed
<1>13. CASE DeliverUnknown
  BY <1>13 DEF DeliverUnknown
<1>14. CASE InputReturn
  BY <1>14 DEF InputReturn
<1>15. CASE CheckDone
  BY <1>15 DEF CheckDone
<1>16. CASE ResetDma
  BY <1>16 DEF ResetDma
<1>17. CASE Rearm
  BY <1>17 DEF Rearm, MacInitReturns, StartRead
<1>18. CASE TcpipFetch
  BY <1>18 DEF TcpipFetch
<1>19. CASE TcpipDone
  BY <1>19 DEF TcpipDone
<1>20. CASE Release
  BY <1>20 DEF Release
<1>21. CASE RearmFails
  BY <1>21 DEF RearmFails, MacInitReturns
<1>22. CASE UNCHANGED vars
  BY <1>22 DEF vars
<1> QED
  BY <1>1, <1>2, <1>3, <1>4, <1>5, <1>6, <1>7, <1>8, <1>9, <1>10, <1>11, <1>12, <1>13, <1>14, <1>15, <1>16, <1>17, <1>18, <1>19, <1>20, <1>21, <1>22
     DEF Next, RxIsr, InputTask

\* The tokens stay at most one ahead of the packets.
LEMMA TokensNext == ASSUME TypeInv, Tokens, [Next]_vars PROVE Tokens'
<1> USE DEF TypeInv, TypeOK, Locals, Slot, ringVars, dmaVars, taskVars, stackVars, Tokens
<1>1. CASE FrameReceived
  BY <1>1 DEF FrameReceived
<1>2. CASE RxIsrError
  BY <1>2 DEF RxIsrError
<1>3. CASE RxIsrFull
  BY <1>3 DEF RxIsrFull
<1>4. CASE RxIsrKeep
  BY <1>4 DEF RxIsrKeep, NextSlot, RingFull
<1>5. CASE StartTask
  BY <1>5 DEF StartTask
<1>6. CASE SemTaken
  BY <1>6 DEF SemTaken
<1>7. CASE SemTimeout
  BY <1>7 DEF SemTimeout
<1>8. CASE InputNothing
  BY <1>8 DEF InputNothing
<1>9. CASE InputAlloc
  BY <1>9 DEF InputAlloc
<1>10. CASE InputSwap
  BY <1>10 DEF InputSwap, NextSlot
<1>11. CASE DeliverPost
  BY <1>11 DEF DeliverPost
<1>12. CASE DeliverFailed
  BY <1>12 DEF DeliverFailed
<1>13. CASE DeliverUnknown
  BY <1>13 DEF DeliverUnknown
<1>14. CASE InputReturn
  BY <1>14 DEF InputReturn
<1>15. CASE CheckDone
  BY <1>15 DEF CheckDone
<1>16. CASE ResetDma
  BY <1>16 DEF ResetDma
<1>17. CASE Rearm
  BY <1>17 DEF Rearm, MacInitReturns
<1>18. CASE TcpipFetch
  BY <1>18 DEF TcpipFetch
<1>19. CASE TcpipDone
  BY <1>19 DEF TcpipDone
<1>20. CASE Release
  BY <1>20 DEF Release
<1>21. CASE RearmFails
  BY <1>21 DEF RearmFails, MacInitReturns
<1>22. CASE UNCHANGED vars
  BY <1>22 DEF vars
<1> QED
  BY <1>1, <1>2, <1>3, <1>4, <1>5, <1>6, <1>7, <1>8, <1>9, <1>10, <1>11, <1>12, <1>13, <1>14, <1>15, <1>16, <1>17, <1>18, <1>19, <1>20, <1>21, <1>22
     DEF Next, RxIsr, InputTask

-----------------------------------------------------------------------------
(* Ownership of the pbufs. *)

places == <<lwipRxPbuf, pool, held, mbox, inp, p, nextPkt>>

\* Most steps move no pbuf.
LEMMA PlacesStill ==
  ASSUME \/ FrameReceived \/ RxIsr \/ StartTask \/ SemTaken \/ SemTimeout
         \/ InputNothing \/ InputReturn \/ CheckDone \/ ResetDma \/ Rearm
         \/ RearmFails
         \/ UNCHANGED vars
  PROVE  UNCHANGED places
BY DEF FrameReceived, RxIsr, RxIsrError, RxIsrFull, RxIsrKeep, StartTask, SemTaken, SemTimeout,
       InputNothing, InputReturn, CheckDone, ResetDma, Rearm, RearmFails, MacInitReturns,
       places, vars, ringVars, dmaVars, taskVars, stackVars

LEMMA PlacesTyped ==
  ASSUME TypeOK
  PROVE  /\ InRing \subseteq Pbuf /\ InMbox \subseteq Pbuf
         /\ \A k \in 1 .. Len(mbox) : mbox[k] \in InMbox
<1>1. lwipRxPbuf \in [Slot -> Pbuf] /\ mbox \in Seq(Pbuf)
  BY DEF TypeOK
<1>2. \A k \in 1 .. Len(mbox) : mbox[k] \in Pbuf
  BY <1>1
<1> QED
  BY <1>1, <1>2 DEF InRing, InMbox

\* The mailbox grows by the pbuf posted and shrinks by the one fetched.
LEMMA MboxPost ==
  ASSUME mbox \in Seq(Pbuf), NEW b \in Pbuf, mbox' = Append(mbox, b)
  PROVE  /\ InMbox' = InMbox \union {b}
         /\ (\A k, l \in 1 .. Len(mbox) : mbox[k] = mbox[l] => k = l) /\ b \notin InMbox
            => \A k, l \in 1 .. Len(mbox') : mbox'[k] = mbox'[l] => k = l
<1>1. Len(mbox') = Len(mbox) + 1 /\ mbox'[Len(mbox) + 1] = b
  OBVIOUS
<1>2. \A k \in 1 .. Len(mbox) : mbox'[k] = mbox[k]
  OBVIOUS
<1>3. 1 .. Len(mbox') = (1 .. Len(mbox)) \union {Len(mbox) + 1}
  BY <1>1
<1>4. InMbox' = InMbox \union {b}
  BY <1>1, <1>2, <1>3 DEF InMbox
<1>5. ASSUME \A k, l \in 1 .. Len(mbox) : mbox[k] = mbox[l] => k = l, b \notin InMbox,
             NEW k \in 1 .. Len(mbox'), NEW l \in 1 .. Len(mbox'), mbox'[k] = mbox'[l]
      PROVE  k = l
  <2>1. \A m \in 1 .. Len(mbox) : mbox'[m] # b
    BY <1>2, <1>5 DEF InMbox
  <2>2. CASE k = Len(mbox) + 1 \/ l = Len(mbox) + 1
    BY <1>1, <1>3, <1>5, <2>1, <2>2
  <2>3. CASE k \in 1 .. Len(mbox) /\ l \in 1 .. Len(mbox)
    BY <1>2, <1>5, <2>3
  <2> QED
    BY <1>3, <2>2, <2>3
<1> QED
  BY <1>4, <1>5

LEMMA MboxFetch ==
  ASSUME mbox \in Seq(Pbuf), mbox # <<>>, mbox' = Tail(mbox),
         \A k, l \in 1 .. Len(mbox) : mbox[k] = mbox[l] => k = l
  PROVE  /\ Head(mbox) \in Pbuf
         /\ InMbox = InMbox' \union {Head(mbox)}
         /\ Head(mbox) \notin InMbox'
         /\ \A k, l \in 1 .. Len(mbox') : mbox'[k] = mbox'[l] => k = l
<1>1. /\ Len(mbox) \in Nat /\ Len(mbox) > 0 /\ Head(mbox) = mbox[1]
      /\ Len(mbox') = Len(mbox) - 1
      /\ \A k \in 1 .. Len(mbox') : mbox'[k] = mbox[k + 1]
  OBVIOUS
<1>2. \A k \in 2 .. Len(mbox) : k - 1 \in 1 .. Len(mbox') /\ mbox[k] = mbox'[k - 1]
  BY <1>1
<1>3. ASSUME NEW b \in InMbox, b # Head(mbox) PROVE b \in InMbox'
  <2>1. PICK k \in 1 .. Len(mbox) : b = mbox[k]
    BY <1>3 DEF InMbox
  <2>2. k \in 2 .. Len(mbox)
    BY <1>1, <1>3, <2>1
  <2>3. k - 1 \in 1 .. Len(mbox') /\ b = mbox'[k - 1]
    BY <1>2, <2>1, <2>2
  <2> QED
    BY <2>3 DEF InMbox
<1>4. ASSUME NEW b \in InMbox' PROVE b \in InMbox /\ b # Head(mbox)
  <2>1. PICK k \in 1 .. Len(mbox') : b = mbox'[k]
    BY <1>4 DEF InMbox
  <2>2. k + 1 \in 1 .. Len(mbox) /\ k + 1 # 1 /\ 1 \in 1 .. Len(mbox)
    BY <1>1, <2>1
  <2>3. b = mbox[k + 1]
    BY <1>1, <2>1
  <2> QED
    BY <1>1, <2>2, <2>3 DEF InMbox
<1>5. Head(mbox) \in Pbuf /\ Head(mbox) \in InMbox
  BY <1>1 DEF InMbox
<1>6. InMbox = InMbox' \union {Head(mbox)}
  BY <1>3, <1>4, <1>5
<1>7. Head(mbox) \notin InMbox'
  BY <1>4
<1>8. \A k, l \in 1 .. Len(mbox') : mbox'[k] = mbox'[l] => k = l
  BY <1>1
<1> QED
  BY <1>5, <1>6, <1>7, <1>8

\* Each step moves a pbuf from one place to one other.
LEMMA OneOwnerNext == ASSUME TypeInv, OneOwner, [Next]_vars PROVE OneOwner'
<1> USE DEF TypeInv, TypeOK, Locals, Slot, ringVars, dmaVars, taskVars, stackVars
<1>1. CASE UNCHANGED places
  <2>1. InRing' = InRing /\ InMbox' = InMbox /\ InHand' = InHand
    BY <1>1 DEF places, InRing, InMbox, InHand
  <2> QED
    BY <1>1, <2>1 DEF places, OneOwner
<1>2. CASE InputAlloc
  <2>1. PICK b \in pool : nextPkt' = b /\ pool' = pool \ {b}
    BY <1>2 DEF InputAlloc
  <2>2. InRing' = InRing /\ InMbox' = InMbox /\ InHand' \subseteq InHand \union {b}
    BY <1>2, <2>1 DEF InputAlloc, InRing, InMbox, InHand
  <2> QED
    BY <1>2, <2>1, <2>2 DEF InputAlloc, OneOwner, InHand
<1>3. CASE InputSwap
  <2>1. InRing \subseteq Pbuf /\ lwipRxPbuf[lwipRxIndex] \in InRing /\ nextPkt \in Pbuf
    BY <1>3 DEF InputSwap, InRing
  <2>2. InRing' \subseteq (InRing \ {lwipRxPbuf[lwipRxIndex]}) \union {nextPkt}
    BY <1>3 DEF InputSwap, InRing, OneOwner
  <2>3. InMbox' = InMbox /\ InHand' \subseteq {inp, lwipRxPbuf[lwipRxIndex], NoPbuf}
    BY <1>3 DEF InputSwap, InMbox, InHand
  <2>4. \A i, j \in Slot : lwipRxPbuf'[i] = lwipRxPbuf'[j] => i = j
    <3>1. \A i \in Slot : lwipRxPbuf[i] # nextPkt
      <4>1. \A i \in Slot : lwipRxPbuf[i] \in InRing
        BY DEF InRing
      <4>2. nextPkt \in InHand /\ \A b \in InRing : b \notin InHand
        BY DEF InHand, OneOwner
      <4> QED
        BY <4>1, <4>2
    <3>2. lwipRxPbuf' = [lwipRxPbuf EXCEPT ![lwipRxIndex] = nextPkt]
      BY <1>3 DEF InputSwap
    <3> QED
      BY <3>1, <3>2 DEF OneOwner
  <2> QED
    BY <1>3, <2>1, <2>2, <2>3, <2>4 DEF InputSwap, OneOwner, InHand
<1>4. CASE DeliverPost
  <2>1. p \in Pbuf /\ nextPkt = NoPbuf /\ InRing' = InRing /\ InHand' = {inp, NoPbuf}
    BY <1>4 DEF DeliverPost, InRing, InHand
  <2>2. InMbox' = InMbox \union {p}
    BY <1>4, <2>1, MboxPost DEF DeliverPost
  <2>3. \A k, l \in 1 .. Len(mbox') : mbox'[k] = mbox'[l] => k = l
    <3>1. p \notin InMbox
      BY <2>1 DEF OneOwner, InHand
    <3>2. mbox \in Seq(Pbuf) /\ mbox' = Append(mbox, p)
      BY <1>4 DEF DeliverPost
    <3> QED
      BY <2>1, <3>1, <3>2, MboxPost DEF OneOwner
  <2> QED
    BY <1>4, <2>1, <2>2, <2>3 DEF DeliverPost, OneOwner, InHand
<1>5. CASE DeliverFailed
  <2>1. InRing' = InRing /\ InMbox' = InMbox /\ InHand' \subseteq InHand \union {NoPbuf}
    BY <1>5 DEF DeliverFailed, InRing, InMbox, InHand
  <2>2. InRing \subseteq Pbuf /\ InMbox \subseteq Pbuf
    BY PlacesTyped
  <2> QED
    BY <1>5, <2>1, <2>2 DEF DeliverFailed, OneOwner, InHand
<1>6. CASE DeliverUnknown
  <2>1. p \in Pbuf /\ nextPkt = NoPbuf
    BY <1>6 DEF DeliverUnknown
  <2>2. InRing' = InRing /\ InMbox' = InMbox /\ InHand' = {inp, NoPbuf}
    BY <1>6, <2>1 DEF DeliverUnknown, InRing, InMbox, InHand
  <2>3. InRing \subseteq Pbuf /\ InMbox \subseteq Pbuf
    BY PlacesTyped
  <2> QED
    BY <1>6, <2>1, <2>2, <2>3 DEF DeliverUnknown, OneOwner, InHand
<1>7. CASE TcpipFetch
  <2>1. inp' = Head(mbox) /\ InRing' = InRing /\ InHand' \subseteq InHand \union {inp'}
    BY <1>7 DEF TcpipFetch, InRing, InHand
  <2>2. /\ Head(mbox) \in Pbuf
        /\ InMbox = InMbox' \union {Head(mbox)}
        /\ Head(mbox) \notin InMbox'
        /\ \A k, l \in 1 .. Len(mbox') : mbox'[k] = mbox'[l] => k = l
    BY <1>7, MboxFetch DEF TcpipFetch, OneOwner
  <2> QED
    BY <1>7, <2>1, <2>2 DEF TcpipFetch, OneOwner, InHand
<1>8. CASE TcpipDone
  <2>1. InRing' = InRing /\ InMbox' = InMbox /\ InHand' = {NoPbuf, p, nextPkt}
    BY <1>8 DEF TcpipDone, InRing, InMbox, InHand
  <2>2. InRing \subseteq Pbuf /\ InMbox \subseteq Pbuf /\ inp \in Pbuf
    BY <1>8, PlacesTyped DEF TcpipDone
  <2> QED
    BY <1>8, <2>1, <2>2 DEF TcpipDone, OneOwner, InHand
<1>9. CASE Release
  <2>1. InRing' = InRing /\ InMbox' = InMbox /\ InHand' = InHand
    BY <1>9 DEF Release, InRing, InMbox, InHand
  <2> QED
    BY <1>9, <2>1 DEF Release, OneOwner
<1> QED
  BY <1>1, <1>2, <1>3, <1>4, <1>5, <1>6, <1>7, <1>8, <1>9, PlacesStill
     DEF Next, InputTask

-----------------------------------------------------------------------------
(* The invariant and what follows from it. *)

LEMMA IInvInit == Init => IInv
<1> SUFFICES ASSUME Init PROVE IInv
  OBVIOUS
<1>1. TypeInv
  BY TypeInit
<1>2. IndicesAgree /\ Descriptor /\ Tokens
  BY DEF Init, IndicesAgree, WaitingSlot, Descriptor, Tokens
<1>3. InMbox = {} /\ InHand = {NoPbuf} /\ InRing \subseteq Pbuf /\ pool = Pbuf \ InRing
  BY DEF Init, InMbox, InHand, InRing
<1>4. OneOwner
  BY <1>3 DEF Init, OneOwner
<1> QED
  BY <1>1, <1>2, <1>4 DEF IInv

THEOREM Inductive == Spec => []IInv
<1>1. IInv /\ [Next]_vars => IInv'
  BY TypeNext, IndicesNext, DescriptorNext, TokensNext, OneOwnerNext DEF IInv
<1> QED
  BY IInvInit, <1>1, PTL DEF Spec

\* The handler's index is always the task's index plus the packets waiting, and
\* the slot it points to is never one of theirs.
THEOREM RingIsOne == Spec => []IndicesAgree
<1>1. IInv => IndicesAgree
  BY DEF IInv
<1> QED
  BY Inductive, <1>1, PTL

LEMMA HandlersSlotFree ==
  ASSUME TypeInv, IndicesAgree
  PROVE  \A k \in 1 .. lwipRxCount :
           WaitingSlot(k) \in Slot /\ WaitingSlot(k) # lwipRxIndexIsr
BY DEF TypeInv, TypeOK, IndicesAgree, WaitingSlot, Slot

LEMMA DescNotWaiting ==
  ASSUME IInv, dma \in {"run", "done"}
  PROVE  \A k \in 1 .. lwipRxCount : desc # lwipRxPbuf[WaitingSlot(k)]
<1>1. desc = lwipRxPbuf[lwipRxIndexIsr] /\ lwipRxIndexIsr \in Slot
  BY DEF IInv, Descriptor, TypeInv, TypeOK
<1> QED
  BY <1>1, HandlersSlotFree DEF IInv, OneOwner

\* While the engine runs, the pbuf it may write to belongs to the ring's free
\* slot alone: no packet, free pbuf or pbuf of another thread is overwritten.
THEOREM DmaIsPrivate == Spec => []DmaPrivate
<1>1. IInv => DmaPrivate
  <2> SUFFICES ASSUME IInv, dma \in {"run", "done"} PROVE DmaPrivate
    BY DEF DmaPrivate
  <2>1. desc \in InRing
    BY DEF IInv, Descriptor, TypeInv, TypeOK, InRing
  <2> QED
    BY <2>1, DescNotWaiting DEF IInv, OneOwner, DmaPrivate
<1> QED
  BY Inductive, <1>1, PTL

\* No pbuf is ever in two places at once.
THEOREM PbufsHaveOneOwner == Spec => []OneOwner
<1>1. IInv => OneOwner
  BY DEF IInv
<1> QED
  BY Inductive, <1>1, PTL

\* The semaphore is never full when the handler gives it.
THEOREM TokensAreNeverLost == Spec => []NoTokenLost
<1>1. IInv => NoTokenLost
  BY DEF IInv, NoTokenLost, Tokens, TypeInv, TypeOK, RingFull, Slot
<1> QED
  BY Inductive, <1>1, PTL

-----------------------------------------------------------------------------
(* The ring implements the bounded queue of RxFifo. *)

LEMMA WaitingTyped ==
  ASSUME TypeOK
  PROVE  /\ Waiting \in Seq(0 .. MaxFrames)
         /\ Len(Waiting) = lwipRxCount
         /\ \A k \in 1 .. lwipRxCount : Waiting[k] = payload[lwipRxPbuf[WaitingSlot(k)]]
<1>1. /\ lwipRxCount \in Nat
      /\ \A k \in 1 .. lwipRxCount :
            payload[lwipRxPbuf[WaitingSlot(k)]] \in 0 .. MaxFrames
  BY DEF TypeOK, WaitingSlot, Slot
<1> QED
  BY <1>1 DEF Waiting

LEMMA SlotBound ==
  \A i, c \in 0 .. N - 1 : \A k \in 1 .. c :
    (IF i + k - 1 >= N THEN i + k - 1 - N ELSE i + k - 1) \in 0 .. N - 1
OBVIOUS

LEMMA WaitingTypedNext ==
  ASSUME TypeOK'
  PROVE  /\ Waiting' \in Seq(0 .. MaxFrames)
         /\ Len(Waiting') = lwipRxCount'
<1>1. lwipRxCount' \in 0 .. N - 1 /\ lwipRxIndex' \in 0 .. N - 1
  BY DEF TypeOK, Slot
<1>2. \A k \in 1 .. lwipRxCount' : WaitingSlot(k)' \in 0 .. N - 1
  BY <1>1, SlotBound DEF WaitingSlot
<1>3. \A k \in 1 .. lwipRxCount' : payload'[lwipRxPbuf'[WaitingSlot(k)']] \in 0 .. MaxFrames
  BY <1>2 DEF TypeOK, Slot
<1>4. lwipRxCount' \in Nat
  BY <1>1
<1> QED
  BY <1>3, <1>4 DEF Waiting

LEMMA SeqExt ==
  ASSUME NEW S, NEW s \in Seq(S), NEW t \in Seq(S), Len(s) = Len(t),
         \A k \in 1 .. Len(s) : s[k] = t[k]
  PROVE  s = t
OBVIOUS

\* A step that moves neither the ring nor the frames in its waiting slots is a
\* stutter of the queue.
LEMMA WaitingSame ==
  ASSUME TypeOK, lwipRxCount' = lwipRxCount,
         \A k \in 1 .. lwipRxCount :
           payload'[lwipRxPbuf'[WaitingSlot(k)']] = payload[lwipRxPbuf[WaitingSlot(k)]]
  PROVE  Waiting' = Waiting
BY DEF Waiting

LEMMA KeepStep ==
  ASSUME IInv, TypeOK', RxIsrKeep
  PROVE  Fifo!Keep
<1> USE DEF IInv, TypeInv
<1>1. lwipRxCount' = lwipRxCount + 1 /\ lwipRxCount + 1 < N /\ lwipRxCount \in Nat
  BY DEF RxIsrKeep, RingFull, TypeOK, Slot
<1>2. lwipRxIndex' = lwipRxIndex /\ lwipRxPbuf' = lwipRxPbuf /\ payload' = payload
      /\ arrived' = arrived /\ dma' = "run" /\ dma = "done"
  BY DEF RxIsrKeep, StartRead
<1>3. \A k \in 1 .. lwipRxCount + 1 :
        Waiting'[k] = payload[lwipRxPbuf[WaitingSlot(k)]]
  BY <1>1, <1>2, WaitingTyped DEF WaitingSlot, Waiting
<1>4. Waiting'[lwipRxCount + 1] = arrived
  BY <1>1, <1>2, <1>3 DEF IndicesAgree, Descriptor
<1>5. /\ Waiting \in Seq(0 .. MaxFrames) /\ Len(Waiting) = lwipRxCount
      /\ Waiting' \in Seq(0 .. MaxFrames) /\ Len(Waiting') = lwipRxCount'
  BY WaitingTyped, WaitingTypedNext
<1>6. arrived \in 0 .. MaxFrames /\ \A k \in 1 .. lwipRxCount : Waiting'[k] = Waiting[k]
  <2>1. \A k \in 1 .. lwipRxCount : Waiting[k] = payload[lwipRxPbuf[WaitingSlot(k)]]
    BY WaitingTyped
  <2>2. \A k \in 1 .. lwipRxCount : k \in 1 .. lwipRxCount + 1
    BY <1>1
  <2> QED
    BY <1>3, <2>1, <2>2 DEF TypeOK
<1>7. /\ Append(Waiting, arrived) \in Seq(0 .. MaxFrames)
      /\ Len(Append(Waiting, arrived)) = lwipRxCount + 1
      /\ \A k \in 1 .. lwipRxCount : Append(Waiting, arrived)[k] = Waiting[k]
      /\ Append(Waiting, arrived)[lwipRxCount + 1] = arrived
  BY <1>1, <1>5, <1>6
<1>8. Waiting' = Append(Waiting, arrived)
  <2>1. Len(Waiting') = lwipRxCount + 1
    BY <1>1, <1>5
  <2>2. \A k \in 1 .. lwipRxCount + 1 : Waiting'[k] = Append(Waiting, arrived)[k]
    BY <1>1, <1>4, <1>6, <1>7
  <2> QED
    BY <1>5, <1>7, <2>1, <2>2, SeqExt
<1> QED
  BY <1>1, <1>2, <1>5, <1>8 DEF Fifo!Keep

LEMMA TakeStep ==
  ASSUME IInv, TypeOK', InputSwap
  PROVE  Fifo!Take
<1> USE DEF IInv, TypeInv
<1>1. lwipRxCount' = lwipRxCount - 1 /\ lwipRxCount \in 1 .. N - 1
  BY DEF InputSwap, TypeOK, Locals, Slot
<1>2. /\ arrived' = arrived /\ dma' = dma /\ payload' = payload
      /\ lwipRxIndex \in Slot /\ lwipRxIndex' = NextSlot(lwipRxIndex)
      /\ \A i \in Slot : i # lwipRxIndex => lwipRxPbuf'[i] = lwipRxPbuf[i]
  BY DEF InputSwap, TypeOK, dmaVars
<1>3. \A k \in 1 .. lwipRxCount - 1 :
        /\ WaitingSlot(k)' = WaitingSlot(k + 1)
        /\ WaitingSlot(k + 1) \in Slot
        /\ WaitingSlot(k + 1) # lwipRxIndex
  BY <1>1, <1>2 DEF WaitingSlot, NextSlot, Slot
<1>4. \A k \in 1 .. lwipRxCount - 1 : Waiting'[k] = Waiting[k + 1]
  BY <1>1, <1>2, <1>3 DEF Waiting
<1>5. /\ Waiting \in Seq(0 .. MaxFrames) /\ Len(Waiting) = lwipRxCount
      /\ Waiting' \in Seq(0 .. MaxFrames) /\ Len(Waiting') = lwipRxCount'
  BY <1>1, WaitingTyped, WaitingTypedNext
<1>6. /\ Waiting # <<>> /\ Len(Tail(Waiting)) = lwipRxCount - 1
      /\ Tail(Waiting) \in Seq(0 .. MaxFrames)
      /\ \A k \in 1 .. lwipRxCount - 1 : Tail(Waiting)[k] = Waiting[k + 1]
  BY <1>1, <1>5
<1>7. Waiting' = Tail(Waiting)
  <2>1. Len(Waiting') = lwipRxCount - 1
    BY <1>1, <1>5
  <2>2. \A k \in 1 .. lwipRxCount - 1 : Waiting'[k] = Tail(Waiting)[k]
    BY <1>4, <1>6
  <2> QED
    BY <1>5, <1>6, <2>1, <2>2, SeqExt
<1> QED
  BY <1>2, <1>6, <1>7 DEF Fifo!Take

LEMMA OfferStep ==
  ASSUME IInv, FrameReceived
  PROVE  Fifo!Offer
<1>1. Waiting' = Waiting
  <2>1. dma \in {"run", "done"} /\ TypeOK
    BY DEF FrameReceived, IInv, TypeInv
  <2>2. \A k \in 1 .. lwipRxCount : WaitingSlot(k) \in Slot
    BY HandlersSlotFree DEF IInv
  <2>3. \A k \in 1 .. lwipRxCount :
          payload'[lwipRxPbuf'[WaitingSlot(k)']] = payload[lwipRxPbuf[WaitingSlot(k)]]
    BY <2>1, <2>2, DescNotWaiting DEF FrameReceived, ringVars, TypeOK, WaitingSlot
  <2> QED
    BY <2>1, <2>3, WaitingSame DEF FrameReceived, ringVars
<1> QED
  BY <1>1 DEF FrameReceived, Fifo!Offer

\* The steps of the handler and of tse_mac_init that drop a frame, and those that
\* touch neither the ring nor the engine.
LEMMA QuietStep ==
  ASSUME TypeOK, UNCHANGED <<ringVars, payload, arrived>>
  PROVE  Waiting' = Waiting
BY DEF Waiting, WaitingSlot, ringVars

LEMMA FifoInit == Init => Fifo!Init
<1> SUFFICES ASSUME Init PROVE Fifo!Init
  OBVIOUS
<1>1. TypeOK /\ lwipRxCount = 0
  BY TypeInit DEF Init, TypeInv
<1>2. Waiting = <<>>
  BY <1>1, WaitingTyped
<1> QED
  BY <1>2 DEF Init, Fifo!Init

LEMMA FifoStep == IInv /\ TypeOK' /\ [Next]_vars => [Fifo!Next]_(Fifo!vars)
<1> SUFFICES ASSUME IInv, TypeOK', [Next]_vars PROVE [Fifo!Next]_(Fifo!vars)
  OBVIOUS
<1> USE DEF IInv, TypeInv
<1>1. CASE FrameReceived
  BY <1>1, OfferStep DEF Fifo!Next
<1>2. CASE RxIsrKeep
  BY <1>2, KeepStep DEF Fifo!Next
<1>3. CASE InputSwap
  BY <1>3, TakeStep DEF Fifo!Next
<1>4. CASE RxIsrError \/ RxIsrFull
  <2>1. Waiting' = Waiting
    BY <1>4, QuietStep DEF RxIsrError, RxIsrFull
  <2> QED
    BY <1>4, <2>1 DEF RxIsrError, RxIsrFull, StartRead, Fifo!Next, Fifo!Lose
<1>5. CASE ResetDma
  <2>1. Waiting' = Waiting
    BY <1>5, QuietStep DEF ResetDma
  <2> QED
    BY <1>5, <2>1 DEF ResetDma, Fifo!Next, Fifo!Lose, Fifo!vars
<1>6. CASE Rearm \/ RearmFails
  <2>1. Waiting' = Waiting
    BY <1>6, QuietStep DEF Rearm, RearmFails, MacInitReturns
  <2>2. arrived' = arrived /\ dma # "done" /\ dma' # "done"
    BY <1>6 DEF Rearm, RearmFails, MacInitReturns, StartRead
  <2> QED
    BY <2>1, <2>2 DEF Fifo!vars
<1>7. CASE UNCHANGED <<ringVars, dmaVars>>
  <2>1. Waiting' = Waiting
    BY <1>7, QuietStep DEF dmaVars
  <2> QED
    BY <1>7, <2>1 DEF Fifo!vars, dmaVars
<1>8. ASSUME \/ StartTask \/ SemTaken \/ SemTimeout \/ InputNothing \/ InputAlloc
             \/ DeliverPost \/ DeliverFailed \/ DeliverUnknown \/ InputReturn
             \/ CheckDone \/ TcpipFetch \/ TcpipDone \/ Release \/ UNCHANGED vars
      PROVE UNCHANGED <<ringVars, dmaVars>>
  BY <1>8 DEF StartTask, SemTaken, SemTimeout, InputNothing, InputAlloc, DeliverPost,
     DeliverFailed, DeliverUnknown, InputReturn, CheckDone, TcpipFetch, TcpipDone, Release, vars
<1> QED
  BY <1>1, <1>2, <1>3, <1>4, <1>5, <1>6, <1>7, <1>8 DEF Next, RxIsr, InputTask

\* Whatever the ring size, the pool and the interleaving of the handler with the
\* task: frames are kept at most N - 1 at a time, and taken once, in order and intact.
THEOREM RingImplementsFifo == Spec => ImplementsFifo
<1>1. IInv => TypeOK
  BY DEF IInv, TypeInv
<1> QED
  BY Inductive, FifoInit, FifoStep, <1>1, PTL DEF Spec, ImplementsFifo, Fifo!Spec

-----------------------------------------------------------------------------
(* Where a pbuf can be lost. *)

\* Every step puts each pbuf it takes into another place, but for a refused packet and
\* one of length 0.
LEMMA KnownLeakNext ==
  ASSUME IInv, [Next]_vars
  PROVE  \A b \in Owned \ Owned' :
           \/ pc = "deliver" /\ b = p /\ InpktUsed >= InpktMax
           \/ pc = "swap" /\ b = lwipRxPbuf[lwipRxIndex] /\ EmptyFrames
<1> USE DEF Owned, InHand
<1>1. TypeOK /\ OneOwner /\ Locals BY DEF IInv, TypeInv
<1>2. CASE UNCHANGED places
  BY <1>2 DEF places, InRing, InMbox, Slot
<1>3. CASE InputAlloc
  <2>1. PICK b \in pool : nextPkt' = b /\ pool' = pool \ {b}
    BY <1>3 DEF InputAlloc
  <2>2. /\ nextPkt = NoPbuf
        /\ UNCHANGED <<lwipRxPbuf, held, mbox, inp, p>>
    BY <1>1, <1>3 DEF InputAlloc, Locals, ringVars, stackVars
  <2>3. InRing' = InRing /\ InMbox' = InMbox BY <2>2 DEF InRing, InMbox
  <2>4. pool \subseteq pool' \union {nextPkt'} /\ nextPkt' # NoPbuf
    BY <1>1, <2>1, NoPbufAssumption DEF TypeOK
  <2>5. Owned \subseteq Owned' BY <2>2, <2>3, <2>4
  <2> QED BY <2>5
<1>4. CASE InputSwap
  <2>1. /\ lwipRxPbuf \in [Slot -> Pbuf] /\ lwipRxIndex \in Slot /\ pc = "swap"
        /\ p' = lwipRxPbuf[lwipRxIndex] \/ EmptyFrames
        /\ p = NoPbuf
        /\ lwipRxPbuf' = [lwipRxPbuf EXCEPT ![lwipRxIndex] = nextPkt]
        /\ UNCHANGED <<pool, held, mbox, inp>>
    BY <1>1, <1>4 DEF InputSwap, TypeOK, Locals, stackVars
  <2>2. ASSUME NEW b \in InRing PROVE b \in InRing' \/ b = lwipRxPbuf[lwipRxIndex]
    <3>1. PICK i \in Slot : b = lwipRxPbuf[i] BY <2>2 DEF InRing
    <3>2. CASE i = lwipRxIndex BY <2>1, <3>1, <3>2
    <3>3. CASE i # lwipRxIndex
      <4>1. b = lwipRxPbuf'[i] BY <2>1, <3>1, <3>3
      <4> QED BY <4>1, <3>1 DEF InRing, Slot
    <3> QED BY <3>2, <3>3
  <2>3. nextPkt \in InRing' BY <2>1 DEF InRing, Slot
  <2>4. InMbox' = InMbox BY <2>1 DEF InMbox
  <2>5. lwipRxPbuf[lwipRxIndex] # NoPbuf BY <2>1, NoPbufAssumption
  <2>6. ASSUME NEW b \in Owned \ Owned' PROVE b = lwipRxPbuf[lwipRxIndex]
    BY <2>1, <2>2, <2>3, <2>4, <2>6
  <2>7. p' # lwipRxPbuf[lwipRxIndex] \/ lwipRxPbuf[lwipRxIndex] \in Owned'
    BY <2>5
  <2> QED BY <2>1, <2>6, <2>7
<1>5. CASE DeliverPost
  <2>1. /\ mbox \in Seq(Pbuf) /\ p \in Pbuf /\ mbox' = Append(mbox, p)
        /\ UNCHANGED <<lwipRxPbuf, pool, held, inp, nextPkt>>
    BY <1>1, <1>5 DEF DeliverPost, TypeOK, Locals, ringVars
  <2>2. InMbox' = InMbox \union {p} BY <2>1, MboxPost
  <2>3. InRing' = InRing BY <2>1 DEF InRing, Slot
  <2> QED BY <2>1, <2>2, <2>3
<1>6. CASE DeliverFailed
  BY <1>6 DEF DeliverFailed, InRing, InMbox, ringVars, stackVars, Slot
<1>7. CASE DeliverUnknown
  BY <1>1, <1>7 DEF DeliverUnknown, InRing, InMbox, ringVars, stackVars, Slot
<1>8. CASE TcpipFetch
  <2>1. /\ mbox \in Seq(Pbuf) /\ mbox # <<>> /\ mbox' = Tail(mbox) /\ inp' = Head(mbox)
        /\ inp = NoPbuf /\ UNCHANGED <<lwipRxPbuf, pool, held, p, nextPkt>>
    BY <1>1, <1>8 DEF TcpipFetch, TypeOK, ringVars, taskVars
  <2>2. InMbox = InMbox' \union {inp'} /\ inp' \in Pbuf
    BY <1>1, <2>1, MboxFetch DEF OneOwner
  <2>3. InRing' = InRing BY <2>1 DEF InRing, Slot
  <2> QED BY <2>1, <2>2, <2>3, NoPbufAssumption
<1>9. CASE TcpipDone
  BY <1>1, <1>9 DEF TcpipDone, InRing, InMbox, ringVars, taskVars, Slot
<1>10. CASE Release
  BY <1>1, <1>10 DEF Release, InRing, InMbox, ringVars, taskVars, Slot
<1> QED
  BY <1>2, <1>3, <1>4, <1>5, <1>6, <1>7, <1>8, <1>9, <1>10, PlacesStill
     DEF Next, RxIsr, InputTask

\* For any ring, any pool and any number of messages, a pbuf is lost by the two lines
\* OnlyKnownLeaks names and by no other step of the handler, the tasks or a MAC restart.
THEOREM LeaksAreKnown == Spec => OnlyKnownLeaks
<1>1. IInv /\ [Next]_vars =>
        [\A b \in Owned \ Owned' :
           \/ pc = "deliver" /\ b = p /\ InpktUsed >= InpktMax
           \/ pc = "swap" /\ b = lwipRxPbuf[lwipRxIndex] /\ EmptyFrames]_vars
  BY KnownLeakNext
<1> QED
  BY Inductive, <1>1, PTL DEF Spec, OnlyKnownLeaks

-----------------------------------------------------------------------------
(* No frame overtakes another on its way to the stack. *)

Hands == Frames({inp})
Boxed == Frames(InMbox)
Taken == Frames({p})
Kept  == {Waiting[k] : k \in 1 .. lwipRxCount}

Before(F, G) == \A f \in F, g \in G : f < g

\* The stages one by one.
Ordered ==
  /\ Before(Hands, Boxed) /\ Before(Hands, Taken) /\ Before(Hands, Kept)
  /\ Before(Boxed, Taken) /\ Before(Boxed, Kept) /\ Before(Taken, Kept)

BoxFrames == [k \in 1 .. Len(mbox) |-> payload[mbox[k]]]

\* The newest frame is later than all that are on their way, so that it may join them
\* at the end; until the handler has judged it, it is not one of them.
Fresh ==
  \A f \in Hands \cup Boxed \cup Taken \cup Kept :
    f \in 1 .. arrived /\ (dma = "done" => f < arrived)

OrderInv == Increasing(Waiting) /\ Increasing(BoxFrames) /\ Ordered /\ Fresh

LEMMA StagePairs ==
  \A i, j \in 1 .. 4 : i < j =>
    \/ i = 1 /\ j = 2
    \/ i = 1 /\ j = 3
    \/ i = 1 /\ j = 4
    \/ i = 2 /\ j = 3
    \/ i = 2 /\ j = 4
    \/ i = 3 /\ j = 4
OBVIOUS

\* FramesInOrder, stage by stage.
LEMMA StagesAre == OrderInv => FramesInOrder
<1> SUFFICES ASSUME OrderInv PROVE FramesInOrder
  OBVIOUS
<1>1. Stage = <<Hands, Boxed, Taken, Kept>>
  BY DEF Stage, Hands, Boxed, Taken, Kept
<1>2. Increasing([k \in 1 .. Len(mbox) |-> payload[mbox[k]]])
  BY DEF OrderInv, BoxFrames
<1>3. ASSUME NEW i \in 1 .. 4, NEW j \in 1 .. 4, i < j,
             NEW f \in Stage[i], NEW g \in Stage[j]
      PROVE  f < g
  <2> DEFINE A == Hands  B == Boxed  C == Taken  D == Kept
  <2> HIDE DEF A, B, C, D
  <2>1. Before(A, B) /\ Before(A, C) /\ Before(A, D) /\ Before(B, C) /\ Before(B, D)
        /\ Before(C, D)
    BY DEF A, B, C, D, OrderInv, Ordered
  <2>2. Stage = <<A, B, C, D>>
    BY <1>1 DEF A, B, C, D
  <2>3. \/ i = 1 /\ j = 2
        \/ i = 1 /\ j = 3
        \/ i = 1 /\ j = 4
        \/ i = 2 /\ j = 3
        \/ i = 2 /\ j = 4
        \/ i = 3 /\ j = 4
    BY <1>3, StagePairs
  <2>4. /\ Stage[1] = A /\ Stage[2] = B /\ Stage[3] = C /\ Stage[4] = D
    BY <2>2
  <2> QED
    BY <1>3, <2>1, <2>3, <2>4 DEF Before
<1>4. DOMAIN Stage = 1 .. 4
  BY <1>1
<1> QED
  BY <1>2, <1>3, <1>4 DEF FramesInOrder, OrderInv

LEMMA OrderInit == Init => OrderInv
<1> SUFFICES ASSUME Init PROVE OrderInv
  OBVIOUS
<1>1. TypeOK
  BY TypeInit DEF TypeInv
<1>2. Waiting \in Seq(0 .. MaxFrames) /\ Len(Waiting) = 0
  BY <1>1, WaitingTyped DEF Init
<1>3. Hands = {} /\ Boxed = {} /\ Taken = {} /\ Kept = {}
  BY DEF Init, Hands, Boxed, Taken, Kept, Frames, InMbox
<1>4. Increasing(Waiting)
  BY <1>2 DEF Increasing
<1>5. Increasing(BoxFrames)
  BY DEF Increasing, BoxFrames, Init
<1>6. Ordered /\ Fresh
  BY <1>3 DEF Ordered, Before, Fresh
<1> QED
  BY <1>4, <1>5, <1>6 DEF OrderInv

\* The kept frames are what the sequence of them holds.
LEMMA KeptAre ==
  ASSUME TypeOK
  PROVE  Kept = {Waiting[k] : k \in 1 .. Len(Waiting)} /\ Len(Waiting) = lwipRxCount
BY WaitingTyped DEF Kept

LEMMA KeptAreNext ==
  ASSUME TypeOK'
  PROVE  Kept' = {Waiting'[k] : k \in 1 .. Len(Waiting')}
BY WaitingTypedNext DEF Kept

\* A frame appended to an increasing sequence, larger than all in it.
LEMMA AppendIncreasing ==
  ASSUME NEW S, NEW s \in Seq(S), NEW f \in S, S \subseteq Nat, Increasing(s),
         \A k \in 1 .. Len(s) : s[k] < f
  PROVE  Increasing(Append(s, f))
<1>1. /\ Len(Append(s, f)) = Len(s) + 1 /\ Len(s) \in Nat
      /\ \A k \in 1 .. Len(s) : Append(s, f)[k] = s[k]
      /\ Append(s, f)[Len(s) + 1] = f
  OBVIOUS
<1>2. ASSUME NEW k \in 1 .. Len(s) + 1, NEW l \in 1 .. Len(s) + 1, k < l
      PROVE  Append(s, f)[k] < Append(s, f)[l]
  <2>1. k \in 1 .. Len(s)
    BY <1>1, <1>2
  <2>2. CASE l = Len(s) + 1
    BY <1>1, <2>1, <2>2
  <2>3. CASE l \in 1 .. Len(s)
    BY <1>1, <1>2, <2>1, <2>3 DEF Increasing
  <2> QED
    BY <1>1, <2>2, <2>3
<1>3. \A k \in 1 .. Len(s) + 1 : k \in 1 .. Len(s) \/ k = Len(s) + 1
  BY <1>1
<1> QED
  BY <1>1, <1>2, <1>3 DEF Increasing

\* The first of an increasing sequence is taken away: it is before the rest.
LEMMA TailIncreasing ==
  ASSUME NEW S, NEW s \in Seq(S), s # <<>>, Increasing(s)
  PROVE  /\ Increasing(Tail(s)) /\ Head(s) = s[1] /\ 1 \in 1 .. Len(s)
         /\ \A k \in 1 .. Len(Tail(s)) : /\ s[1] < Tail(s)[k]
                                         /\ k + 1 \in 1 .. Len(s) /\ Tail(s)[k] = s[k + 1]
<1>1. /\ Len(s) \in Nat /\ Len(s) > 0 /\ Head(s) = s[1] /\ Len(Tail(s)) = Len(s) - 1
      /\ \A k \in 1 .. Len(Tail(s)) : Tail(s)[k] = s[k + 1]
  OBVIOUS
<1>2. \A k \in 1 .. Len(Tail(s)) : k + 1 \in 1 .. Len(s) /\ 1 < k + 1
  BY <1>1
<1>3. ASSUME NEW k \in 1 .. Len(Tail(s)), NEW l \in 1 .. Len(Tail(s)), k < l
      PROVE  Tail(s)[k] < Tail(s)[l]
  <2>1. k + 1 < l + 1
    BY <1>1, <1>3
  <2> QED
    BY <1>1, <1>2, <2>1 DEF Increasing
<1> QED
  BY <1>1, <1>2, <1>3 DEF Increasing

\* Where a packet is written out or read, the pbuf of the stage is one of the pool.
LEMMA StagePbufs ==
  ASSUME IInv
  PROVE  /\ dma \in {"run", "done"} => /\ desc \notin InMbox \cup {inp, p}
                           /\ \A k \in 1 .. lwipRxCount : desc # lwipRxPbuf[WaitingSlot(k)]
         /\ InMbox \subseteq Pbuf /\ inp \in Pbuf \cup {NoPbuf} /\ p \in Pbuf \cup {NoPbuf}
<1>1. TypeOK /\ OneOwner /\ Descriptor
  BY DEF IInv, TypeInv
<1>2. dma \in {"run", "done"} => desc \in InRing
  BY <1>1 DEF Descriptor, TypeOK, InRing
<1>3. dma \in {"run", "done"} => desc \notin InMbox \cup {inp, p}
  BY <1>1, <1>2 DEF OneOwner, InHand
<1> QED
  BY <1>1, <1>3, PlacesTyped, DescNotWaiting DEF TypeOK

\* The engine writes a frame: none on its way is touched.
LEMMA OrderReceived ==
  ASSUME IInv, OrderInv, FrameReceived
  PROVE  OrderInv'
<1>1. Waiting' = Waiting
  BY OfferStep DEF Fifo!Offer
<1>2. /\ dma = "run" /\ dma' = "done" /\ arrived \in Nat /\ arrived' = arrived + 1
      /\ payload' = [payload EXCEPT ![desc] = arrived + 1]
      /\ payload \in [Pbuf -> 0 .. MaxFrames]
      /\ UNCHANGED <<lwipRxCount, mbox, inp, p>>
  BY DEF FrameReceived, IInv, TypeInv, TypeOK, ringVars, taskVars, stackVars
<1>3. \A b \in InMbox \cup ({inp, p} \ {NoPbuf}) : payload'[b] = payload[b]
  BY <1>2, StagePbufs
<1>4. Hands' = Hands /\ Taken' = Taken
  BY <1>2, <1>3 DEF Hands, Taken, Frames
<1>5. InMbox' = InMbox
  BY <1>2 DEF InMbox
<1>6. Boxed' = Boxed
  BY <1>3, <1>5 DEF Boxed, Frames
<1>7. Kept' = Kept
  BY <1>1, <1>2 DEF Kept
<1>8. BoxFrames' = BoxFrames
  <2>1. \A k \in 1 .. Len(mbox) : mbox[k] \in InMbox
    BY PlacesTyped DEF IInv, TypeInv
  <2> QED
    BY <1>2, <1>3, <2>1 DEF BoxFrames
<1>9. Fresh'
  <2> SUFFICES ASSUME NEW f \in Hands \cup Boxed \cup Taken \cup Kept
               PROVE  f \in 1 .. arrived' /\ f < arrived'
    BY <1>4, <1>6, <1>7 DEF Fresh
  <2>1. f \in 1 .. arrived
    BY DEF OrderInv, Fresh
  <2> QED
    BY <1>2, <2>1
<1> QED
  BY <1>1, <1>4, <1>6, <1>7, <1>8, <1>9 DEF OrderInv, Ordered, Before, Increasing

\* The handler keeps the newest frame.
LEMMA OrderKept ==
  ASSUME IInv, TypeOK', OrderInv, RxIsrKeep
  PROVE  OrderInv'
<1>1. Waiting' = Append(Waiting, arrived) /\ dma = "done"
  BY KeepStep DEF Fifo!Keep
<1>2. /\ dma' = "run" /\ arrived' = arrived /\ arrived \in 0 .. MaxFrames /\ arrived > 0
      /\ UNCHANGED <<payload, mbox, inp, p>>
  BY <1>1 DEF RxIsrKeep, StartRead, IInv, TypeInv, TypeOK, Descriptor, taskVars, stackVars
<1>3. Hands' = Hands /\ Taken' = Taken /\ Boxed' = Boxed /\ BoxFrames' = BoxFrames
  BY <1>2 DEF Hands, Taken, Boxed, Frames, InMbox, BoxFrames
<1>4. \A f \in Hands \cup Boxed \cup Taken \cup Kept : f \in 1 .. arrived /\ f < arrived
  BY <1>1 DEF OrderInv, Fresh
<1>5. /\ Waiting \in Seq(0 .. MaxFrames) /\ Kept = {Waiting[k] : k \in 1 .. Len(Waiting)}
      /\ Kept' = {Waiting'[k] : k \in 1 .. Len(Waiting')}
  BY KeptAre, KeptAreNext, WaitingTyped DEF IInv, TypeInv
<1>6. /\ Increasing(Waiting')
      /\ \A k \in 1 .. Len(Waiting') :
           Waiting'[k] = arrived \/ \E l \in 1 .. Len(Waiting) : Waiting'[k] = Waiting[l]
  <2>1. \A k \in 1 .. Len(Waiting) : Waiting[k] < arrived
    BY <1>4, <1>5
  <2>2. 0 .. MaxFrames \subseteq Nat
    OBVIOUS
  <2> DEFINE S == 0 .. MaxFrames
  <2> HIDE DEF S
  <2>3. Waiting \in Seq(S) /\ arrived \in S /\ S \subseteq Nat /\ Increasing(Waiting)
    BY <1>2, <1>5, <2>2 DEF S, OrderInv
  <2>4. PICK s \in Seq(S) : s = Waiting
    BY <2>3
  <2>5. PICK f \in S : f = arrived
    BY <2>3
  <2>6. /\ Increasing(Append(s, f))
        /\ \A k \in 1 .. Len(Append(s, f)) :
             Append(s, f)[k] = f \/ \E l \in 1 .. Len(s) : Append(s, f)[k] = s[l]
    <3>1. S \subseteq Nat /\ Increasing(s) /\ \A k \in 1 .. Len(s) : s[k] < f
      BY <2>1, <2>3, <2>4, <2>5
    <3>2. Increasing(Append(s, f))
      BY ONLY <3>1, AppendIncreasing, s \in Seq(S), f \in S
    <3>3. \A k \in 1 .. Len(Append(s, f)) :
            Append(s, f)[k] = f \/ \E l \in 1 .. Len(s) : Append(s, f)[k] = s[l]
      <4>1. /\ Len(Append(s, f)) = Len(s) + 1 /\ Len(s) \in Nat
            /\ \A k \in 1 .. Len(s) : Append(s, f)[k] = s[k]
            /\ Append(s, f)[Len(s) + 1] = f
        BY ONLY s \in Seq(S), f \in S
      <4> QED
        BY ONLY <4>1
    <3> QED
      BY ONLY <3>2, <3>3
  <2>7. Waiting' = Append(s, f)
    BY <1>1, <2>4, <2>5
  <2>8. Increasing(Waiting')
    BY ONLY <2>6, <2>7
  <2>9. \A k \in 1 .. Len(Waiting') :
          Waiting'[k] = arrived \/ \E l \in 1 .. Len(Waiting) : Waiting'[k] = Waiting[l]
    BY ONLY <2>4, <2>5, <2>6, <2>7
  <2> QED
    BY ONLY <2>8, <2>9
<1>7. \A f \in Kept' : f \in Kept \/ f = arrived
  BY <1>5, <1>6
<1>8. Ordered'
  BY <1>3, <1>4, <1>7 DEF OrderInv, Ordered, Before
<1>9. Fresh'
  BY <1>2, <1>3, <1>4, <1>7 DEF Fresh
<1> QED
  BY <1>3, <1>6, <1>8, <1>9 DEF OrderInv, Increasing

\* The input task takes the oldest packet of the ring.
LEMMA OrderSwapped ==
  ASSUME IInv, TypeOK', OrderInv, InputSwap
  PROVE  OrderInv'
<1>1. Waiting # <<>> /\ Waiting' = Tail(Waiting)
  BY TakeStep DEF Fifo!Take
<1>2. /\ p = NoPbuf /\ lwipRxCount > 0 /\ lwipRxCount \in Nat
      /\ p' = lwipRxPbuf[lwipRxIndex] \/ p' = NoPbuf
      /\ lwipRxIndex \in 0 .. N - 1
      /\ UNCHANGED <<dma, arrived, payload, mbox, inp>>
  BY DEF InputSwap, IInv, TypeInv, TypeOK, Locals, Slot, dmaVars, stackVars
<1>3. Hands' = Hands /\ Boxed' = Boxed /\ BoxFrames' = BoxFrames /\ Taken = {}
  BY <1>2 DEF Hands, Taken, Boxed, Frames, InMbox, BoxFrames
<1>4. /\ Waiting \in Seq(0 .. MaxFrames) /\ Kept = {Waiting[k] : k \in 1 .. Len(Waiting)}
      /\ Kept' = {Waiting'[k] : k \in 1 .. Len(Waiting')}
  BY KeptAre, KeptAreNext, WaitingTyped DEF IInv, TypeInv
<1>5. payload[lwipRxPbuf[lwipRxIndex]] = Waiting[1]
  <2>1. WaitingSlot(1) = lwipRxIndex
    BY <1>2 DEF WaitingSlot
  <2>2. 1 \in 1 .. lwipRxCount
    BY <1>2
  <2> QED
    BY <1>2, <2>1, <2>2, WaitingTyped DEF IInv, TypeInv
<1>6. Taken' \subseteq {Waiting[1]}
  BY <1>2, <1>5 DEF Taken, Frames
<1>7. /\ Increasing(Waiting') /\ 1 \in 1 .. Len(Waiting)
      /\ \A k \in 1 .. Len(Waiting') :
           /\ Waiting[1] < Waiting'[k]
           /\ k + 1 \in 1 .. Len(Waiting) /\ Waiting'[k] = Waiting[k + 1]
  BY <1>1, <1>4, TailIncreasing DEF OrderInv
<1>8. Waiting[1] \in Kept /\ \A f \in Kept' : f \in Kept /\ Waiting[1] < f
  BY <1>4, <1>7
<1>9. Ordered'
  BY <1>3, <1>6, <1>8 DEF OrderInv, Ordered, Before
<1>10. Fresh'
  BY <1>2, <1>3, <1>6, <1>8 DEF OrderInv, Fresh
<1> QED
  BY <1>3, <1>7, <1>9, <1>10 DEF OrderInv, Increasing

\* Stages that lose frames, or stay, keep their order.
LEMMA OrderLess ==
  ASSUME OrderInv, Waiting' = Waiting, BoxFrames' = BoxFrames, Kept' = Kept,
         Boxed' = Boxed, Hands' \subseteq Hands, Taken' \subseteq Taken,
         arrived' = arrived, dma' = "done" => dma = "done"
  PROVE  OrderInv'
<1>1. Ordered'
  BY DEF OrderInv, Ordered, Before
<1>2. Fresh'
  BY DEF OrderInv, Fresh
<1> QED
  BY <1>1, <1>2 DEF OrderInv, Increasing

\* The task posts its packet behind those in the mailbox.
LEMMA OrderPosted ==
  ASSUME IInv, OrderInv, DeliverPost
  PROVE  OrderInv'
<1>1. /\ p \in Pbuf /\ p' = NoPbuf /\ mbox' = Append(mbox, p) /\ mbox \in Seq(Pbuf)
      /\ payload \in [Pbuf -> 0 .. MaxFrames]
      /\ UNCHANGED <<ringVars, dma, arrived, payload, inp>>
  BY DEF DeliverPost, IInv, TypeInv, TypeOK, Locals, dmaVars
<1>2. Waiting' = Waiting /\ Kept' = Kept
  BY <1>1, QuietStep DEF IInv, TypeInv, Kept, ringVars
<1>3. InMbox' = InMbox \cup {p}
  BY <1>1, MboxPost
<1>4. Hands' = Hands /\ Taken' = {} /\ Taken = {payload[p]} /\ Boxed' = Boxed \cup {payload[p]}
  BY <1>1, <1>3, NoPbufAssumption DEF Hands, Taken, Boxed, Frames
<1>5. Increasing(BoxFrames')
  <2>1. /\ BoxFrames \in Seq(0 .. MaxFrames) /\ Len(BoxFrames) = Len(mbox)
        /\ \A k \in 1 .. Len(mbox) : BoxFrames[k] = payload[mbox[k]]
    BY <1>1 DEF BoxFrames
  <2>2. \A k \in 1 .. Len(mbox) : mbox[k] \in InMbox /\ mbox[k] # NoPbuf
    BY <1>1, PlacesTyped, NoPbufAssumption DEF IInv, TypeInv
  <2>3. \A k \in 1 .. Len(BoxFrames) : BoxFrames[k] < payload[p]
    BY <1>4, <2>1, <2>2 DEF OrderInv, Ordered, Before, Boxed, Frames
  <2>4. BoxFrames' = Append(BoxFrames, payload[p])
    <3>1. /\ Len(mbox') = Len(mbox) + 1 /\ Len(mbox) \in Nat
          /\ \A k \in 1 .. Len(mbox) : mbox'[k] = mbox[k]
          /\ mbox'[Len(mbox) + 1] = p
      BY <1>1
    <3>2. /\ Append(BoxFrames, payload[p]) \in Seq(0 .. MaxFrames)
          /\ Len(Append(BoxFrames, payload[p])) = Len(mbox) + 1
          /\ \A k \in 1 .. Len(mbox) : Append(BoxFrames, payload[p])[k] = payload[mbox[k]]
          /\ Append(BoxFrames, payload[p])[Len(mbox) + 1] = payload[p]
      BY <1>1, <2>1, <3>1
    <3>3. \A k \in 1 .. Len(mbox) + 1 : k \in 1 .. Len(mbox) \/ k = Len(mbox) + 1
      BY <3>1
    <3>4. \A k \in 1 .. Len(mbox') : mbox'[k] \in Pbuf
      BY <1>1
    <3>5. /\ BoxFrames' \in Seq(0 .. MaxFrames) /\ Len(BoxFrames') = Len(mbox) + 1
          /\ \A k \in 1 .. Len(mbox) + 1 : BoxFrames'[k] = payload[mbox'[k]]
      BY <1>1, <3>1, <3>4 DEF BoxFrames
    <3>6. \A k \in 1 .. Len(mbox) + 1 : BoxFrames'[k] = Append(BoxFrames, payload[p])[k]
      BY ONLY <3>1, <3>2, <3>3, <3>5
    <3> QED
      BY <3>2, <3>5, <3>6, SeqExt
  <2> DEFINE S == 0 .. MaxFrames
  <2>5. payload[p] \in S /\ S \subseteq Nat
    BY <1>1
  <2> HIDE DEF S
  <2>6. PICK s \in Seq(S) : s = BoxFrames
    BY <2>1 DEF S
  <2>7. PICK f \in S : f = payload[p]
    BY <2>5
  <2>8. Increasing(Append(s, f))
    BY <2>3, <2>5, <2>6, <2>7, AppendIncreasing DEF OrderInv
  <2> QED
    BY <2>4, <2>6, <2>7, <2>8
<1>6. Ordered'
  BY <1>2, <1>4 DEF OrderInv, Ordered, Before
<1>7. Fresh'
  BY <1>1, <1>2, <1>4 DEF OrderInv, Fresh
<1> QED
  BY <1>2, <1>5, <1>6, <1>7 DEF OrderInv, Increasing

\* The tcpip thread fetches the first packet of the mailbox.
LEMMA OrderFetched ==
  ASSUME IInv, OrderInv, TcpipFetch
  PROVE  OrderInv'
<1>1. /\ mbox \in Seq(Pbuf) /\ mbox # <<>> /\ mbox' = Tail(mbox) /\ inp' = Head(mbox)
      /\ inp = NoPbuf /\ payload \in [Pbuf -> 0 .. MaxFrames]
      /\ UNCHANGED <<ringVars, dma, arrived, payload, p>>
  BY DEF TcpipFetch, IInv, TypeInv, TypeOK, dmaVars, taskVars
<1>2. Waiting' = Waiting /\ Kept' = Kept
  BY <1>1, QuietStep DEF IInv, TypeInv, Kept, ringVars
<1>3. /\ Head(mbox) \in Pbuf /\ InMbox = InMbox' \cup {Head(mbox)}
  BY <1>1, MboxFetch DEF IInv, OneOwner
<1>4. /\ Taken' = Taken /\ Hands = {} /\ Hands' = {payload[Head(mbox)]}
      /\ Boxed' \subseteq Boxed /\ payload[Head(mbox)] \in Boxed
  BY <1>1, <1>3, NoPbufAssumption DEF Hands, Taken, Boxed, Frames
<1>5. /\ Len(mbox) \in Nat /\ Len(mbox) > 0 /\ Head(mbox) = mbox[1]
      /\ Len(mbox') = Len(mbox) - 1 /\ Len(mbox') \in Nat
      /\ \A k \in 1 .. Len(mbox') : mbox'[k] = mbox[k + 1] /\ k + 1 \in 1 .. Len(mbox)
  BY <1>1
<1>6. \A k, l \in 1 .. Len(mbox) : k < l => payload[mbox[k]] < payload[mbox[l]]
  BY <1>5 DEF OrderInv, Increasing, BoxFrames
<1>7. Increasing(BoxFrames')
  <2>1. /\ Len(BoxFrames') = Len(mbox')
        /\ \A k \in 1 .. Len(mbox') : BoxFrames'[k] = payload[mbox[k + 1]]
    BY <1>1, <1>5 DEF BoxFrames
  <2>2. ASSUME NEW k \in 1 .. Len(mbox'), NEW l \in 1 .. Len(mbox'), k < l
        PROVE  BoxFrames'[k] < BoxFrames'[l]
    <3>1. k + 1 < l + 1
      BY <1>5, <2>2
    <3> QED
      BY <1>5, <1>6, <2>1, <3>1
  <2> QED
    BY <2>1, <2>2 DEF Increasing
<1>8. \A f \in Boxed' : payload[Head(mbox)] < f
  <2> SUFFICES ASSUME NEW b \in InMbox' PROVE payload[Head(mbox)] < payload[b]
    BY <1>1 DEF Boxed, Frames
  <2>1. PICK k \in 1 .. Len(mbox') : b = mbox'[k]
    BY DEF InMbox
  <2>2. b = mbox[k + 1] /\ k + 1 \in 1 .. Len(mbox) /\ 1 \in 1 .. Len(mbox) /\ 1 < k + 1
    BY <1>5, <2>1
  <2> QED
    BY <1>5, <1>6, <2>2
<1>9. Ordered'
  BY <1>2, <1>4, <1>8 DEF OrderInv, Ordered, Before
<1>10. Fresh'
  BY <1>1, <1>2, <1>4 DEF OrderInv, Fresh
<1> QED
  BY <1>2, <1>7, <1>9, <1>10 DEF OrderInv, Increasing

LEMMA OrderNext == IInv /\ TypeOK' /\ OrderInv /\ [Next]_vars => OrderInv'
<1> SUFFICES ASSUME IInv, TypeOK', OrderInv, [Next]_vars PROVE OrderInv'
  OBVIOUS
<1>1. CASE FrameReceived
  BY <1>1, OrderReceived
<1>2. CASE RxIsrKeep
  BY <1>2, OrderKept
<1>3. CASE InputSwap
  BY <1>3, OrderSwapped
<1>4. CASE DeliverPost
  BY <1>4, OrderPosted
<1>5. CASE TcpipFetch
  BY <1>5, OrderFetched
<1>6. CASE /\ UNCHANGED <<ringVars, payload, arrived, mbox>>
           /\ dma' = "done" => dma = "done"
           /\ inp' = inp \/ inp' = NoPbuf
           /\ p' = p \/ p' = NoPbuf
  <2>1. Waiting' = Waiting /\ Kept' = Kept
    BY <1>6, QuietStep DEF IInv, TypeInv, Kept, ringVars
  <2>2. BoxFrames' = BoxFrames /\ Boxed' = Boxed
    BY <1>6 DEF BoxFrames, Boxed, Frames, InMbox
  <2>3. Hands' \subseteq Hands /\ Taken' \subseteq Taken
    BY <1>6 DEF Hands, Taken, Frames
  <2> QED
    BY <1>6, <2>1, <2>2, <2>3, OrderLess
<1>7. ASSUME \/ RxIsrError \/ RxIsrFull \/ StartTask \/ SemTaken \/ SemTimeout
             \/ InputNothing \/ InputAlloc \/ DeliverFailed \/ DeliverUnknown
             \/ InputReturn \/ CheckDone \/ ResetDma \/ Rearm \/ RearmFails \/ TcpipDone \/ Release
             \/ UNCHANGED vars
      PROVE  /\ UNCHANGED <<ringVars, payload, arrived, mbox>>
             /\ dma' = "done" => dma = "done"
             /\ inp' = inp \/ inp' = NoPbuf
             /\ p' = p \/ p' = NoPbuf
  BY <1>7 DEF RxIsrError, RxIsrFull, StartRead, StartTask, SemTaken, SemTimeout, InputNothing,
     InputAlloc, DeliverFailed, DeliverUnknown, InputReturn, CheckDone, ResetDma, Rearm, RearmFails,
     MacInitReturns,
     TcpipDone, Release, vars, ringVars, dmaVars, taskVars, stackVars
<1> QED
  BY <1>1, <1>2, <1>3, <1>4, <1>5, <1>6, <1>7 DEF Next, RxIsr, InputTask

\* From the DMA to the stack, over the ring, the hands of the task and the mailbox, the
\* frames stay strictly in their order of arrival: none is delivered twice, none
\* overtakes another, and none is written over on its way, for any ring, any pool,
\* any number of messages and any restarts of the MAC.
THEOREM FramesArriveInOrder == Spec => []FramesInOrder
<1>1. IInv => TypeOK
  BY DEF IInv, TypeInv
<1> QED
  BY Inductive, OrderInit, OrderNext, StagesAre, <1>1, PTL DEF Spec

=============================================================================
