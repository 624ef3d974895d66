-------------------------- MODULE TcpipCallsProofs --------------------------
(***************************************************************************)
(* Proofs about TcpipCalls, for any tasks, pools and mailbox.               *)
(***************************************************************************)
EXTENDS TcpipCalls, FiniteSetTheorems, TLAPS

Elems(s)    == {s[i] : i \in DOMAIN s}
Distinct(s) == \A i, j \in DOMAIN s : s[i] = s[j] => i = j

-----------------------------------------------------------------------------
(* The mailbox as a sequence. *)

\* A post adds its message to those in the mailbox and keeps them distinct if it is new.
LEMMA AppendElems ==
  ASSUME NEW S, NEW s \in Seq(S), NEW x \in S
  PROVE  /\ Append(s, x) \in Seq(S)
         /\ Elems(Append(s, x)) = Elems(s) \cup {x}
         /\ Distinct(s) /\ x \notin Elems(s) => Distinct(Append(s, x))
<1>1. /\ Append(s, x) \in Seq(S)
      /\ DOMAIN s = 1..Len(s) /\ Len(s) \in Nat
      /\ DOMAIN Append(s, x) = 1..(Len(s) + 1)
      /\ Append(s, x)[Len(s) + 1] = x
      /\ \A i \in 1..Len(s) : Append(s, x)[i] = s[i]
  OBVIOUS
<1>2. \A i : i \in 1..(Len(s) + 1) <=> i \in 1..Len(s) \/ i = Len(s) + 1
  BY <1>1
<1>3. Elems(Append(s, x)) = Elems(s) \cup {x}
  BY <1>1, <1>2 DEF Elems
<1>4. Distinct(s) /\ x \notin Elems(s) => Distinct(Append(s, x))
  BY <1>1, <1>2 DEF Distinct, Elems
<1>5. QED
  BY <1>1, <1>3, <1>4

\* A fetch takes one message out; if all were distinct, it is gone from the mailbox.
LEMMA TailElems ==
  ASSUME NEW S, NEW s \in Seq(S), s # <<>>
  PROVE  /\ Tail(s) \in Seq(S) /\ Head(s) \in S
         /\ Head(s) \in Elems(s)
         /\ Elems(s) = Elems(Tail(s)) \cup {Head(s)}
         /\ Distinct(s) => Distinct(Tail(s)) /\ Head(s) \notin Elems(Tail(s))
<1>1. /\ Tail(s) \in Seq(S) /\ Head(s) \in S
      /\ DOMAIN s = 1..Len(s) /\ Len(s) \in Nat /\ Len(s) >= 1
      /\ Head(s) = s[1]
      /\ DOMAIN Tail(s) = 1..(Len(s) - 1)
      /\ \A i \in 1..(Len(s) - 1) : Tail(s)[i] = s[i + 1]
  OBVIOUS
<1>2. \A i \in 1..Len(s) : i = 1 \/ (i - 1 \in 1..(Len(s) - 1) /\ s[i] = Tail(s)[i - 1])
  BY <1>1
<1>3. \A i \in 1..(Len(s) - 1) : i + 1 \in 1..Len(s) /\ i + 1 # 1
  BY <1>1
<1>4. Head(s) \in Elems(s) /\ 1 \in 1..Len(s)
  BY <1>1 DEF Elems
<1>5. Elems(s) = Elems(Tail(s)) \cup {Head(s)}
  <2>1. ASSUME NEW e \in Elems(s) PROVE e \in Elems(Tail(s)) \cup {Head(s)}
    <3>1. PICK i \in 1..Len(s) : e = s[i]
      BY <1>1 DEF Elems
    <3>2. CASE i = 1
      BY <3>1, <3>2, <1>1
    <3>3. CASE i # 1
      <4>1. i - 1 \in DOMAIN Tail(s) /\ e = Tail(s)[i - 1]
        BY <3>1, <3>3, <1>1, <1>2
      <4>2. QED BY <4>1 DEF Elems
    <3>4. QED BY <3>2, <3>3
  <2>2. ASSUME NEW e \in Elems(Tail(s)) PROVE e \in Elems(s)
    BY <1>1, <1>3 DEF Elems
  <2>3. QED BY <2>1, <2>2, <1>4
<1>6. ASSUME Distinct(s) PROVE Distinct(Tail(s)) /\ Head(s) \notin Elems(Tail(s))
  <2>1. ASSUME NEW i \in 1..(Len(s) - 1), NEW j \in 1..(Len(s) - 1), Tail(s)[i] = Tail(s)[j]
        PROVE  i = j
    BY <2>1, <1>1, <1>3, <1>6 DEF Distinct
  <2>2. ASSUME NEW i \in 1..(Len(s) - 1) PROVE Tail(s)[i] # Head(s)
    BY <1>1, <1>3, <1>4, <1>6 DEF Distinct
  <2>3. QED BY <2>1, <2>2, <1>1 DEF Distinct, Elems
<1>7. QED
  BY <1>1, <1>4, <1>5, <1>6

\* A mailbox of distinct messages that lacks one of them is shorter than their number.
LEMMA ShortQueue ==
  ASSUME NEW S, IsFiniteSet(S), NEW s \in Seq(S), Distinct(s), NEW x \in S, x \notin Elems(s)
  PROVE  Len(s) < Cardinality(S)
<1> DEFINE D == 1..Len(s)
<1>1. Len(s) \in Nat /\ DOMAIN s = D /\ s \in [D -> S]
  OBVIOUS
<1>2. IsFiniteSet(S \ {x}) /\ Cardinality(S \ {x}) = Cardinality(S) - 1 /\ Cardinality(S) \in Nat
  BY FS_RemoveElement, FS_CardinalityType
<1>3. s \in [D -> S \ {x}]
  BY <1>1 DEF Elems
<1>4. s \in Injection(D, S \ {x})
  BY <1>1, <1>3 DEF Injection, IsInjective, Distinct
<1>5. Cardinality(D) <= Cardinality(S \ {x})
  BY <1>2, <1>4, FS_Injection
<1>6. Cardinality(D) = Len(s)
  <2>1. Cardinality(1..Len(s)) = IF 1 > Len(s) THEN 0 ELSE Len(s) - 1 + 1
    BY <1>1, FS_Interval
  <2>2. QED BY <2>1, <1>1
<1>7. QED
  BY <1>1, <1>2, <1>5, <1>6

-----------------------------------------------------------------------------
(* Type correctness. *)

\* What each actor has in its hands at each of its steps.
Hands ==
  /\ \A t \in Tasks : msg[t] \in IF pc[t] = "post" THEN ApiMsgs \cup {t} ELSE {NoMsg}
  /\ cur \in CASE tpc = "fetch" -> {NoMsg} [] tpc = "call" -> Msg [] tpc = "free" -> PoolMsgs
  /\ imsg \in CASE ipc = "trypost" -> InpktMsgs [] ipc = "reclaimpost" -> ApiMsgs
                [] OTHER -> {NoMsg}

Typed == TypeOK /\ Hands

LEMMA TypedInit == Init => Typed
<1>1. <<>> \in Seq(Msg)
  OBVIOUS
<1>2. QED BY <1>1 DEF Init, Typed, TypeOK, Hands

LEMMA TypedNext == Typed /\ [Next]_vars => Typed'
<1> SUFFICES ASSUME TypeOK, Hands, [Next]_vars PROVE TypeOK' /\ Hands'
  BY DEF Typed
<1> USE MsgAssumption DEF TypeOK, Hands, tasks, thread, iface, Msg
<1>1. ASSUME NEW t \in Tasks, Caller(t) PROVE TypeOK' /\ Hands'
  <2>1. CASE tcpip_apimsg(t)
    BY <2>1 DEF tcpip_apimsg
  <2>2. CASE tcpip_callback(t)
    BY <2>2 DEF tcpip_callback
  <2>3. CASE Post(t)
    <3>1. msg[t] \in Msg
      BY <2>3 DEF Post, PoolMsgs
    <3>2. mbox' \in Seq(Msg)
      BY <3>1, <2>3, AppendElems DEF Post
    <3>3. QED BY <2>3, <3>2 DEF Post
  <2>4. CASE Return(t)
    BY <2>4 DEF Return
  <2>5. QED BY <1>1, <2>1, <2>2, <2>3, <2>4 DEF Caller
<1>2. CASE InputAlloc
  BY <1>2 DEF InputAlloc, PoolMsgs
<1>3. CASE InputTryPost
  <2>1. imsg \in Msg /\ imsg \in PoolMsgs
    BY <1>3 DEF InputTryPost, PoolMsgs
  <2>2. mbox' \in Seq(Msg)
    <3>1. mbox \in Seq(Msg)
      OBVIOUS
    <3>2. Append(mbox, imsg) \in Seq(Msg)
      BY <2>1, <3>1, AppendElems
    <3>3. QED BY <1>3, <3>1, <3>2 DEF InputTryPost
  <2>3. freeMsgs' \subseteq PoolMsgs
    BY <1>3, <2>1 DEF InputTryPost
  <2>4. ipc' = "idle" /\ imsg' = NoMsg /\ UNCHANGED <<tasks, ctx, thread, pbuf_free_ooseq_pending>>
    BY <1>3 DEF InputTryPost
  <2>5. QED BY <2>2, <2>3, <2>4
<1>4. CASE pbuf_pool_is_empty
  BY <1>4 DEF pbuf_pool_is_empty
<1>5. CASE ReclaimAlloc
  <2>1. pbuf_free_ooseq_pending' \in BOOLEAN
    BY <1>5 DEF ReclaimAlloc
  <2>2. ctx' \in [ApiMsgs -> Tasks \cup {NoMsg}]
    BY <1>5 DEF ReclaimAlloc
  <2>3. ASSUME NEW m \in freeMsgs \cap ApiMsgs, imsg' = m, freeMsgs' = freeMsgs \ {m},
              ipc' = "reclaimpost"
        PROVE  TypeOK' /\ Hands'
    BY <1>5, <2>1, <2>2, <2>3 DEF ReclaimAlloc, PoolMsgs
  <2>4. ASSUME ipc' = "idle", UNCHANGED <<freeMsgs, imsg>> PROVE TypeOK' /\ Hands'
    BY <1>5, <2>1, <2>2, <2>4 DEF ReclaimAlloc
  <2>5. QED BY <1>5, <2>3, <2>4 DEF ReclaimAlloc
<1>6. CASE ReclaimTryPost
  <2>1. imsg \in Msg /\ imsg \in PoolMsgs
    BY <1>6 DEF ReclaimTryPost, PoolMsgs
  <2>2. mbox' \in Seq(Msg)
    BY <2>1, <1>6, AppendElems DEF ReclaimTryPost
  <2>3. QED BY <1>6, <2>1, <2>2 DEF ReclaimTryPost
<1>7. CASE Fetch
  <2>1. mbox' \in Seq(Msg) /\ cur' \in Msg
    BY <1>7, TailElems DEF Fetch
  <2>2. QED BY <1>7, <2>1 DEF Fetch
<1>8. CASE Call
  <2>1. sem' \in [Tasks -> BOOLEAN] /\ later' \subseteq Tasks
    BY <1>8 DEF Call, Answer
  <2>2. QED BY <1>8, <2>1 DEF Call
<1>9. CASE Free
  BY <1>9 DEF Free, PoolMsgs
<1>10. ASSUME NEW t \in Tasks, AnswerLater(t) PROVE TypeOK' /\ Hands'
  BY <1>10 DEF AnswerLater
<1>11. CASE UNCHANGED vars
  BY <1>11 DEF vars
<1>12. QED
  BY <1>1, <1>2, <1>3, <1>4, <1>5, <1>6, <1>7, <1>8, <1>9, <1>10, <1>11
     DEF Next, Thread, Interface

\* Every state is well typed (the state of api/tcpip.c and its callers).
THEOREM TypeCorrect == Spec => []TypeOK
<1>1. Typed => TypeOK
  BY DEF Typed
<1>2. QED
  BY <1>1, TypedInit, TypedNext, PTL DEF Spec

-----------------------------------------------------------------------------
(* One holder for each message, one waker for each task. *)

\* OneHolder without the order of the mailbox
Holders ==
  /\ \A t, u \in Tasks : msg[t] = msg[u] => t = u \/ msg[t] = NoMsg
  /\ \A m \in Queued : m \notin freeMsgs \cup Posting \cup {cur, imsg}
  /\ \A m \in freeMsgs : m \notin Posting \cup {cur, imsg}
  /\ \A m \in Posting : m \notin {cur, imsg} \/ m = NoMsg
  /\ cur = imsg => cur = NoMsg

\* The context of a message taken from the pool names the one who took it.
Owners ==
  /\ \A t \in Tasks : msg[t] \in ApiMsgs => ctx[msg[t]] = t
  /\ ipc = "reclaimpost" => ctx[imsg] = NoMsg

\* A task has at most one waker, and none unless it waits for it.
WakerOf(t) ==
  /\ t \in refused => pc[t] = "wait"
  /\ pc[t] # "wait" \/ t \in refused => InFlight(t) = {} /\ t \notin later /\ ~sem[t]
  /\ InFlight(t) # {} => t \notin later /\ ~sem[t]
  /\ t \in later => ~sem[t]
  /\ \A m, n \in InFlight(t) : m = n

Wakers == \A t \in Tasks : WakerOf(t)

IInv == Typed /\ Distinct(mbox) /\ Holders /\ Owners /\ Wakers

LEMMA HoldersMean == OneHolder <=> Distinct(mbox) /\ Holders
BY DEF OneHolder, Holders, Distinct

\* The facts about the mailbox that the steps below use.
LEMMA QueuedElems == Queued = Elems(mbox)
BY DEF Queued, Elems

LEMMA PostQueue ==
  ASSUME Typed, NEW x \in Msg, x \notin Queued, Distinct(mbox), mbox' = Append(mbox, x)
  PROVE  Queued' = Queued \cup {x} /\ Distinct(mbox')
<1>1. Queued' = Elems(mbox')
  BY DEF Queued, Elems
<1>2. mbox \in Seq(Msg)
  BY DEF Typed, TypeOK
<1>3. QED
  BY <1>1, <1>2, QueuedElems, AppendElems

LEMMA FetchQueue ==
  ASSUME Typed, Distinct(mbox), mbox # <<>>, mbox' = Tail(mbox)
  PROVE  /\ Head(mbox) \in Queued /\ Queued' = Queued \ {Head(mbox)} /\ Distinct(mbox')
<1>1. Queued' = Elems(mbox')
  BY DEF Queued, Elems
<1>2. mbox \in Seq(Msg)
  BY DEF Typed, TypeOK
<1>3. QED
  BY <1>1, <1>2, QueuedElems, TailElems

LEMMA SameQueue == mbox' = mbox => Queued' = Queued /\ (Distinct(mbox) => Distinct(mbox'))
BY DEF Queued, Distinct

LEMMA IInit == Init => IInv
<1> SUFFICES ASSUME Init PROVE IInv
  OBVIOUS
<1>1. Typed
  BY TypedInit
<1>2. Queued = {} /\ Distinct(mbox)
  BY DEF Init, Queued, Distinct
<1>3. Posting \subseteq {NoMsg} /\ NoMsg \notin freeMsgs
  BY MsgAssumption DEF Init, Posting, Msg
<1>4. Holders
  BY <1>2, <1>3 DEF Init, Holders
<1>5. Owners
  BY MsgAssumption DEF Init, Owners, Msg, PoolMsgs
<1>6. \A t \in Tasks : InFlight(t) = {}
  BY <1>2 DEF Init, InFlight
<1>7. Wakers
  BY <1>6 DEF Init, Wakers, WakerOf
<1>8. QED
  BY <1>1, <1>2, <1>4, <1>5, <1>7 DEF IInv

\* A task begins a call: its own message is nowhere else, since nothing of an earlier
\* call is in flight.
LEMMA ApimsgStep ==
  ASSUME IInv, NEW t \in Tasks, tcpip_apimsg(t)
  PROVE  Distinct(mbox') /\ Holders' /\ Owners' /\ Wakers'
<1> USE MsgAssumption DEF IInv, Typed, TypeOK, tasks, thread, iface, Msg
<1>1. /\ pc[t] = "idle" /\ msg[t] = NoMsg
      /\ pc' = [pc EXCEPT ![t] = "post"] /\ msg' = [msg EXCEPT ![t] = t]
      /\ UNCHANGED <<sem, refused, ctx, mbox, tpc, cur, later, freeMsgs, ipc, imsg>>
  BY DEF tcpip_apimsg, Hands
<1>2. Queued' = Queued /\ Distinct(mbox')
  BY <1>1, SameQueue
<1>3. InFlight(t) = {}
  BY <1>1 DEF Wakers, WakerOf
<1>4. t \notin Queued /\ t # cur /\ t # imsg /\ t \notin freeMsgs
  <2>1. t \notin Queued /\ (tpc = "call" => t # cur)
    BY <1>3 DEF InFlight, Asker
  <2>2. QED BY <2>1 DEF Hands, PoolMsgs
<1>5. \A u \in Tasks : u # t => msg[u] # t /\ msg'[u] = msg[u]
  BY <1>1 DEF Hands, PoolMsgs
<1>6. msg'[t] = t /\ Posting' \subseteq Posting \cup {t}
  BY <1>1 DEF Posting
<1>7. Holders'
  <2>1. \A u, v \in Tasks : msg'[u] = msg'[v] => u = v \/ msg'[u] = NoMsg
    BY <1>5, <1>6 DEF Holders
  <2>2. QED BY <2>1, <1>1, <1>2, <1>4, <1>6 DEF Holders
<1>8. Owners'
  BY <1>1, <1>5, <1>6 DEF Owners, PoolMsgs
<1>9. \A u \in Tasks : InFlight(u)' = InFlight(u)
  BY <1>1, <1>2 DEF InFlight, Asker
<1>10. Wakers'
  BY <1>1, <1>9 DEF Wakers, WakerOf
<1>11. QED
  BY <1>2, <1>7, <1>8, <1>10

\* A task takes a free message, or waits without one.
LEMMA CallbackStep ==
  ASSUME IInv, NEW t \in Tasks, tcpip_callback(t)
  PROVE  Distinct(mbox') /\ Holders' /\ Owners' /\ Wakers'
<1> USE MsgAssumption DEF IInv, Typed, TypeOK, tasks, thread, iface, Msg
<1>1. /\ pc[t] = "idle" /\ msg[t] = NoMsg
      /\ UNCHANGED <<sem, mbox, tpc, cur, later, ipc, imsg>>
  BY DEF tcpip_callback, Hands
<1>2. Queued' = Queued /\ Distinct(mbox')
  BY <1>1, SameQueue
<1>3. ASSUME NEW m \in freeMsgs \cap ApiMsgs,
             freeMsgs' = freeMsgs \ {m}, ctx' = [ctx EXCEPT ![m] = t],
             msg' = [msg EXCEPT ![t] = m], pc' = [pc EXCEPT ![t] = "post"],
             UNCHANGED refused
      PROVE  Holders' /\ Owners' /\ Wakers'
  <2>1. m \notin Queued /\ m \notin Posting /\ m # cur /\ m # imsg /\ m # NoMsg
    BY <1>3 DEF Holders, PoolMsgs
  <2>2. msg'[t] = m /\ \A u \in Tasks : u # t => msg'[u] = msg[u] /\ msg[u] # m
    BY <1>3, <2>1 DEF Posting
  <2>3. Posting' \subseteq Posting \cup {m}
    BY <2>2 DEF Posting
  <2>4. \A u, v \in Tasks : msg'[u] = msg'[v] => u = v \/ msg'[u] = NoMsg
    BY <2>2 DEF Holders
  <2>5. Holders'
    BY <1>1, <1>2, <1>3, <2>1, <2>3, <2>4 DEF Holders
  <2>6. ctx'[m] = t /\ \A n \in ApiMsgs : n # m => ctx'[n] = ctx[n]
    BY <1>3
  <2>7. Owners'
    BY <1>1, <1>3, <2>1, <2>2, <2>6 DEF Owners, Hands
  <2>8. \A u \in Tasks : InFlight(u)' = InFlight(u)
    BY <1>1, <1>2, <1>3, <2>1, <2>6 DEF InFlight, Asker
  <2>9. Wakers'
    BY <1>1, <1>3, <2>8 DEF Wakers, WakerOf
  <2>10. QED BY <2>5, <2>7, <2>9
<1>4. ASSUME refused' = refused \cup {t}, pc' = [pc EXCEPT ![t] = "wait"],
             UNCHANGED <<freeMsgs, ctx, msg>>
      PROVE  Holders' /\ Owners' /\ Wakers'
  <2>1. Posting' = Posting
    BY <1>4 DEF Posting
  <2>2. Holders' /\ Owners'
    BY <1>1, <1>2, <1>4, <2>1 DEF Holders, Owners
  <2>3. \A u \in Tasks : InFlight(u)' = InFlight(u)
    BY <1>1, <1>2, <1>4 DEF InFlight, Asker
  <2>4. Wakers'
    BY <1>1, <1>4, <2>3 DEF Wakers, WakerOf
  <2>5. QED BY <2>2, <2>4
<1>5. QED
  BY <1>2, <1>3, <1>4 DEF tcpip_callback

\* A post hands the message to the mailbox, or drops it.
LEMMA PostStep ==
  ASSUME IInv, NEW t \in Tasks, Post(t)
  PROVE  Distinct(mbox') /\ Holders' /\ Owners' /\ Wakers'
<1> USE MsgAssumption DEF IInv, Typed, TypeOK, tasks, thread, iface, Msg
<1>1. /\ pc[t] = "post" /\ msg[t] \in Msg /\ msg[t] # NoMsg /\ msg[t] \in ApiMsgs \cup {t}
      /\ mbox' = (IF Room THEN Append(mbox, msg[t]) ELSE mbox)
      /\ msg' = [msg EXCEPT ![t] = NoMsg] /\ pc' = [pc EXCEPT ![t] = "wait"]
      /\ UNCHANGED <<sem, refused, ctx, tpc, cur, later, freeMsgs, ipc, imsg>>
  BY DEF Post, Hands, PoolMsgs
<1>2. /\ msg[t] \notin Queued /\ msg[t] \notin freeMsgs /\ msg[t] # cur /\ msg[t] # imsg
      /\ \A u \in Tasks : u # t => msg[u] # msg[t]
  <2>1. msg[t] \in Posting
    BY DEF Posting
  <2>2. msg[t] \notin Queued /\ msg[t] \notin freeMsgs
    BY <2>1 DEF Holders
  <2>3. msg[t] # cur /\ msg[t] # imsg
    BY <1>1, <2>1 DEF Holders
  <2>4. \A u \in Tasks : u # t => msg[u] # msg[t]
    BY <1>1 DEF Holders
  <2>5. QED BY <2>2, <2>3, <2>4
<1>3. /\ Queued' \subseteq Queued \cup {msg[t]} /\ Queued \subseteq Queued'
      /\ Distinct(mbox')
  BY <1>1, <1>2, PostQueue, SameQueue
<1>4. msg'[t] = NoMsg /\ \A u \in Tasks : u # t => msg'[u] = msg[u]
  BY <1>1
<1>5. \A m \in Posting' : m = NoMsg \/ (m \in Posting /\ m # msg[t])
  BY <1>2, <1>4 DEF Posting
<1>6. \A m \in Queued' : m \in Msg
  <2>1. mbox' \in Seq(Msg)
    BY TypedNext, <1>1, PostQueue DEF Next, Caller
  <2>2. QED BY <2>1 DEF Queued
<1>7. Holders'
  <2>1. \A u, v \in Tasks : msg'[u] = msg'[v] => u = v \/ msg'[u] = NoMsg
    BY <1>4 DEF Holders
  <2>2. \A m \in Queued' : m \notin freeMsgs' \cup Posting' \cup {cur', imsg'}
    BY <1>1, <1>2, <1>3, <1>5, <1>6 DEF Holders
  <2>3. \A m \in freeMsgs' : m \notin Posting' \cup {cur', imsg'}
    BY <1>1, <1>5 DEF Holders, PoolMsgs
  <2>4. \A m \in Posting' : m \notin {cur', imsg'} \/ m = NoMsg
    BY <1>1, <1>5 DEF Holders
  <2>5. QED BY <2>1, <2>2, <2>3, <2>4, <1>1 DEF Holders
<1>8. Owners'
  BY <1>1, <1>4 DEF Owners, PoolMsgs
<1>9. Asker(msg[t]) = t
  BY <1>1 DEF Asker, Owners, PoolMsgs
<1>10. \A u \in Tasks : u # t => InFlight(u)' = InFlight(u)
  BY <1>1, <1>3, <1>9 DEF InFlight, Asker
<1>11. InFlight(t)' \subseteq {msg[t]} /\ InFlight(t) = {} /\ t \notin later /\ ~sem[t] /\ t \notin refused
  <2>1. InFlight(t) = {} /\ t \notin later /\ ~sem[t] /\ t \notin refused
    BY <1>1 DEF Wakers, WakerOf
  <2>2. InFlight(t)' \subseteq {msg[t]}
    BY <1>1, <1>3, <2>1 DEF InFlight, Asker
  <2>3. QED BY <2>1, <2>2
<1>12. Wakers'
  <2>1. ASSUME NEW u \in Tasks, u # t
        PROVE  /\ UNCHANGED <<pc[u], sem[u], later, refused>> /\ InFlight(u)' = InFlight(u)
    BY <1>1, <1>10, <2>1
  <2>2. pc'[t] = "wait" /\ t \notin refused' /\ t \notin later' /\ ~sem'[t]
    BY <1>1, <1>11
  <2>3. QED BY <2>1, <2>2, <1>1, <1>10, <1>11 DEF Wakers, WakerOf
<1>13. QED
  BY <1>3, <1>7, <1>8, <1>12

\* A task takes its signal: it was its only waker.
LEMMA ReturnStep ==
  ASSUME IInv, NEW t \in Tasks, Return(t)
  PROVE  Distinct(mbox') /\ Holders' /\ Owners' /\ Wakers'
<1> USE MsgAssumption DEF IInv, Typed, TypeOK, tasks, thread, iface, Msg
<1>1. /\ sem[t] /\ sem' = [sem EXCEPT ![t] = FALSE] /\ pc' = [pc EXCEPT ![t] = "idle"]
      /\ UNCHANGED <<msg, refused, ctx, mbox, tpc, cur, later, freeMsgs, ipc, imsg>>
  BY DEF Return
<1>2. Queued' = Queued /\ Distinct(mbox') /\ Posting' = Posting
  BY <1>1, SameQueue DEF Posting
<1>3. Holders' /\ Owners'
  BY <1>1, <1>2 DEF Holders, Owners
<1>4. \A u \in Tasks : InFlight(u)' = InFlight(u)
  BY <1>1, <1>2 DEF InFlight, Asker
<1>5. InFlight(t) = {} /\ t \notin later /\ t \notin refused
  BY <1>1 DEF Wakers, WakerOf
<1>6. Wakers'
  BY <1>1, <1>4, <1>5 DEF Wakers, WakerOf
<1>7. QED
  BY <1>2, <1>3, <1>6

\* What a step of the interface task leaves alone.
LEMMA InterfaceStep ==
  ASSUME IInv, Interface
  PROVE  Distinct(mbox') /\ Holders' /\ Owners' /\ Wakers'
<1> USE MsgAssumption DEF IInv, Typed, TypeOK, tasks, thread, iface, Msg
<1>1. UNCHANGED <<pc, msg, sem, refused, tpc, cur, later>> /\ Posting' = Posting
  BY DEF Interface, InputAlloc, InputTryPost, pbuf_pool_is_empty, ReclaimAlloc,
         ReclaimTryPost, Posting
<1>2. ASSUME NEW m \in freeMsgs, imsg' = m, freeMsgs' = freeMsgs \ {m}, mbox' = mbox,
             ipc \in {"idle", "reclaim"},
             \/ m \in InpktMsgs /\ ipc' = "trypost" /\ ctx' = ctx
             \/ m \in ApiMsgs /\ ctx' = [ctx EXCEPT ![m] = NoMsg]
      PROVE  Distinct(mbox') /\ Holders' /\ Owners' /\ Wakers'
  <2>1. Queued' = Queued /\ Distinct(mbox')
    BY <1>2, SameQueue
  <2>2. m \notin Queued /\ m \notin Posting /\ m # cur
    BY <1>2 DEF Holders
  <2>3. Holders'
    BY <1>1, <1>2, <2>1, <2>2 DEF Holders
  <2>4. \A n \in ApiMsgs : n # m => ctx'[n] = ctx[n]
    BY <1>2
  <2>5. m \in ApiMsgs => ctx'[m] = NoMsg
    BY <1>2
  <2>6. \A t \in Tasks : msg[t] # m
    BY <2>2 DEF Posting
  <2>7. Owners'
    BY <1>1, <1>2, <2>4, <2>5, <2>6 DEF Owners, PoolMsgs
  <2>8. \A u \in Tasks : InFlight(u)' = InFlight(u)
    BY <1>1, <2>1, <2>2, <2>4 DEF InFlight, Asker
  <2>9. Wakers'
    BY <1>1, <2>8 DEF Wakers, WakerOf
  <2>10. QED BY <2>1, <2>3, <2>7, <2>9
<1>3. ASSUME mbox' = Append(mbox, imsg), UNCHANGED <<ctx, freeMsgs>>, imsg' = NoMsg,
             ipc' = "idle", ipc \in {"trypost", "reclaimpost"}
      PROVE  Distinct(mbox') /\ Holders' /\ Owners' /\ Wakers'
  <2>1. /\ imsg \in PoolMsgs /\ imsg # NoMsg /\ Asker(imsg) = NoMsg
    BY <1>3 DEF Hands, Asker, Owners, PoolMsgs
  <2>2. imsg \notin Queued /\ imsg \notin freeMsgs /\ imsg \notin Posting /\ imsg # cur
    BY <2>1 DEF Holders
  <2>3. Queued' = Queued \cup {imsg} /\ Distinct(mbox')
    BY <1>3, <2>1, <2>2, PostQueue
  <2>4. Queued \subseteq Msg
    BY DEF Queued
  <2>5. Holders'
    BY <1>1, <1>3, <2>1, <2>2, <2>3, <2>4 DEF Holders, PoolMsgs
  <2>6. Owners'
    BY <1>1, <1>3 DEF Owners
  <2>7. \A u \in Tasks : InFlight(u)' = InFlight(u)
    BY <1>1, <1>3, <2>1, <2>3 DEF InFlight, Asker
  <2>8. Wakers'
    BY <1>1, <2>7 DEF Wakers, WakerOf
  <2>9. QED BY <2>3, <2>5, <2>6, <2>8
<1>4. ASSUME mbox' = mbox, ctx' = ctx, imsg' = NoMsg, ipc' # "reclaimpost",
             \/ freeMsgs' = freeMsgs
             \/ freeMsgs' = freeMsgs \cup {imsg} /\ ipc \in {"trypost", "reclaimpost"}
      PROVE  Distinct(mbox') /\ Holders' /\ Owners' /\ Wakers'
  <2>1. Queued' = Queued /\ Distinct(mbox')
    BY <1>4, SameQueue
  <2>2. NoMsg \notin freeMsgs /\ NoMsg \notin Queued
    BY DEF PoolMsgs, Queued
  <2>3. ASSUME ipc \in {"trypost", "reclaimpost"}
        PROVE  imsg # NoMsg /\ imsg \notin Queued /\ imsg \notin Posting /\ imsg # cur
    BY <2>3 DEF Hands, Holders, PoolMsgs
  <2>4. Holders'
    BY <1>1, <1>4, <2>1, <2>2, <2>3 DEF Holders
  <2>5. Owners'
    BY <1>1, <1>4 DEF Owners
  <2>6. \A u \in Tasks : InFlight(u)' = InFlight(u)
    BY <1>1, <1>4, <2>1 DEF InFlight, Asker
  <2>7. Wakers'
    BY <1>1, <2>6 DEF Wakers, WakerOf
  <2>8. QED BY <2>1, <2>4, <2>5, <2>7
<1>5. CASE InputAlloc
  BY <1>2, <1>5 DEF InputAlloc
<1>6. CASE InputTryPost
  BY <1>3, <1>4, <1>6 DEF InputTryPost
<1>7. CASE pbuf_pool_is_empty
  BY <1>4, <1>7 DEF pbuf_pool_is_empty, Hands
<1>8. CASE ReclaimAlloc
  BY <1>2, <1>4, <1>8 DEF ReclaimAlloc, Hands
<1>9. CASE ReclaimTryPost
  BY <1>3, <1>4, <1>9 DEF ReclaimTryPost
<1>10. QED
  BY <1>5, <1>6, <1>7, <1>8, <1>9 DEF Interface

\* The thread takes the oldest message into its hands.
LEMMA FetchStep ==
  ASSUME IInv, Fetch
  PROVE  Distinct(mbox') /\ Holders' /\ Owners' /\ Wakers'
<1> USE MsgAssumption DEF IInv, Typed, TypeOK, tasks, thread, iface, Msg
<1>1. /\ tpc = "fetch" /\ cur = NoMsg /\ cur' = Head(mbox) /\ mbox # <<>> /\ mbox' = Tail(mbox)
      /\ tpc' = "call"
      /\ UNCHANGED <<pc, msg, sem, refused, ctx, later, freeMsgs, ipc, imsg>>
  BY DEF Fetch, Hands
<1>2. cur' \in Queued /\ Queued' = Queued \ {cur'} /\ Distinct(mbox')
  BY <1>1, FetchQueue
<1>3. Posting' = Posting /\ Queued \subseteq Msg
  BY <1>1 DEF Posting, Queued
<1>4. Holders'
  BY <1>1, <1>2, <1>3 DEF Holders
<1>5. Owners'
  BY <1>1 DEF Owners
<1>6. \A u \in Tasks : InFlight(u)' = InFlight(u)
  BY <1>1, <1>2, <1>3 DEF InFlight, Asker
<1>7. Wakers'
  BY <1>1, <1>6 DEF Wakers, WakerOf
<1>8. QED
  BY <1>2, <1>4, <1>5, <1>7

\* The thread runs the function: the asker's waker becomes its signal, or the
\* callback left behind.
LEMMA CallStep ==
  ASSUME IInv, Call
  PROVE  Distinct(mbox') /\ Holders' /\ Owners' /\ Wakers'
<1> USE MsgAssumption DEF IInv, Typed, TypeOK, tasks, thread, iface, Msg
<1>1. /\ tpc = "call" /\ cur \in Msg /\ cur # NoMsg
      /\ \/ cur \in PoolMsgs /\ tpc' = "free" /\ cur' = cur
         \/ cur \notin PoolMsgs /\ tpc' = "fetch" /\ cur' = NoMsg
      /\ UNCHANGED <<pc, msg, refused, ctx, mbox, freeMsgs, ipc, imsg>>
  BY DEF Call, Hands
<1>2. Queued' = Queued /\ Distinct(mbox') /\ Posting' = Posting
  BY <1>1, SameQueue DEF Posting
<1>3. cur \notin Queued /\ NoMsg \notin Queued /\ NoMsg \notin freeMsgs
  BY DEF Holders, Queued, PoolMsgs
<1>4. Holders' /\ Owners'
  BY <1>1, <1>2, <1>3 DEF Holders, Owners
<1>5. \A u \in Tasks : InFlight(u)' = InFlight(u) \ {cur}
  BY <1>1, <1>2, <1>3 DEF InFlight, Asker
<1>6. CASE Asker(cur) \in Tasks
  <2>0. PICK t \in Tasks : t = Asker(cur)
    BY <1>6
  <2>1. /\ cur \in InFlight(t) /\ \A u \in Tasks : u # t => cur \notin InFlight(u)
    BY <1>1, <2>0 DEF InFlight
  <2>2. /\ InFlight(t)' = {} /\ t \notin later /\ ~sem[t] /\ pc[t] = "wait" /\ t \notin refused
    BY <1>5, <2>1 DEF Wakers, WakerOf
  <2>3. ASSUME NEW u \in Tasks, u # t PROVE InFlight(u)' = InFlight(u)
    <3>1. InFlight(u)' = InFlight(u) \ {cur} /\ cur \notin InFlight(u)
      BY <1>5, <2>1, <2>3
    <3>2. QED BY <3>1
  <2>4. ASSUME sem' = [sem EXCEPT ![t] = TRUE], later' = later PROVE Wakers'
    <3>1. ASSUME NEW u \in Tasks, u # t PROVE WakerOf(u)'
      BY <1>1, <2>3, <2>4, <3>1 DEF Wakers, WakerOf
    <3>2. WakerOf(t)'
      BY <1>1, <2>2, <2>4 DEF WakerOf
    <3>3. QED BY <3>1, <3>2 DEF Wakers
  <2>5. ASSUME later' = later \cup {t}, sem' = sem PROVE Wakers'
    <3>1. ASSUME NEW u \in Tasks, u # t PROVE WakerOf(u)'
      BY <1>1, <2>3, <2>5, <3>1 DEF Wakers, WakerOf
    <3>2. WakerOf(t)'
      BY <1>1, <2>2, <2>5 DEF WakerOf
    <3>3. QED BY <3>1, <3>2 DEF Wakers
  <2>6. Wakers'
    BY <2>0, <2>4, <2>5 DEF Call, Answer
  <2>7. QED BY <1>2, <1>4, <2>6
<1>7. CASE Asker(cur) \notin Tasks
  <2>1. sem' = sem /\ later' = later
    BY <1>7 DEF Call
  <2>2. \A u \in Tasks : InFlight(u)' = InFlight(u)
    BY <1>5, <1>7 DEF InFlight
  <2>3. Wakers'
    BY <1>1, <2>1, <2>2 DEF Wakers, WakerOf
  <2>4. QED BY <1>2, <1>4, <2>3
<1>8. QED
  BY <1>6, <1>7

\* The thread gives a message back to its pool.
LEMMA FreeStep ==
  ASSUME IInv, Free
  PROVE  Distinct(mbox') /\ Holders' /\ Owners' /\ Wakers'
<1> USE MsgAssumption DEF IInv, Typed, TypeOK, tasks, thread, iface, Msg
<1>1. /\ tpc = "free" /\ cur \in PoolMsgs /\ cur # NoMsg /\ tpc' = "fetch" /\ cur' = NoMsg
      /\ freeMsgs' = freeMsgs \cup {cur}
      /\ UNCHANGED <<pc, msg, sem, refused, ctx, mbox, later, ipc, imsg>>
  BY DEF Free, Hands, PoolMsgs
<1>2. Queued' = Queued /\ Distinct(mbox') /\ Posting' = Posting
  BY <1>1, SameQueue DEF Posting
<1>3. cur \notin Queued /\ cur \notin Posting /\ cur # imsg /\ NoMsg \notin Queued
  BY <1>1 DEF Holders, Queued
<1>4. Holders' /\ Owners'
  BY <1>1, <1>2, <1>3 DEF Holders, Owners, PoolMsgs
<1>5. \A u \in Tasks : InFlight(u)' = InFlight(u)
  BY <1>1, <1>2 DEF InFlight, Asker
<1>6. Wakers'
  BY <1>1, <1>5 DEF Wakers, WakerOf
<1>7. QED
  BY <1>2, <1>4, <1>6

\* A callback left behind answers: it was the only waker, and its signal is the next.
LEMMA LaterStep ==
  ASSUME IInv, NEW t \in Tasks, AnswerLater(t)
  PROVE  Distinct(mbox') /\ Holders' /\ Owners' /\ Wakers'
<1> USE MsgAssumption DEF IInv, Typed, TypeOK, tasks, thread, iface, Msg
<1>1. /\ t \in later /\ later' = later \ {t} /\ sem' = [sem EXCEPT ![t] = TRUE]
      /\ UNCHANGED <<pc, msg, refused, ctx, mbox, tpc, cur, freeMsgs, ipc, imsg>>
  BY DEF AnswerLater
<1>2. Queued' = Queued /\ Distinct(mbox') /\ Posting' = Posting
  BY <1>1, SameQueue DEF Posting
<1>3. Holders' /\ Owners'
  BY <1>1, <1>2 DEF Holders, Owners
<1>4. \A u \in Tasks : InFlight(u)' = InFlight(u)
  BY <1>1, <1>2 DEF InFlight, Asker
<1>5. InFlight(t) = {} /\ pc[t] = "wait" /\ t \notin refused
  BY <1>1 DEF Wakers, WakerOf
<1>6. Wakers'
  BY <1>1, <1>4, <1>5 DEF Wakers, WakerOf
<1>7. QED
  BY <1>2, <1>3, <1>6

LEMMA INext == IInv /\ [Next]_vars => IInv'
<1> SUFFICES ASSUME IInv, [Next]_vars
             PROVE  Distinct(mbox') /\ Holders' /\ Owners' /\ Wakers'
  BY TypedNext DEF IInv
<1>1. ASSUME NEW t \in Tasks, Caller(t)
      PROVE  Distinct(mbox') /\ Holders' /\ Owners' /\ Wakers'
  BY <1>1, ApimsgStep, CallbackStep, PostStep, ReturnStep DEF Caller
<1>2. CASE Thread
  BY <1>2, FetchStep, CallStep, FreeStep, LaterStep DEF Thread
<1>3. CASE UNCHANGED vars
  <2>1. UNCHANGED <<pc, msg, sem, refused, ctx, mbox, tpc, cur, later, freeMsgs, ipc, imsg>>
    BY <1>3 DEF vars, tasks, thread, iface
  <2>2. Queued' = Queued /\ Distinct(mbox') /\ Posting' = Posting
    BY <2>1, SameQueue DEF IInv, Posting
  <2>3. \A u \in Tasks : InFlight(u)' = InFlight(u)
    BY <2>1, <2>2 DEF InFlight, Asker
  <2>4. Holders' /\ Owners'
    BY <2>1, <2>2 DEF IInv, Holders, Owners
  <2>5. Wakers'
    BY <2>1, <2>3 DEF IInv, Wakers, WakerOf
  <2>6. QED BY <2>2, <2>4, <2>5
<1>4. QED
  BY <1>1, <1>2, <1>3, InterfaceStep DEF Next

\* No message is in two places, freed twice or reused while the thread has it, whatever
\* the sizes of the pools and of the mailbox (tcpip.c:88-142).
THEOREM HoldersCorrect == Spec => []OneHolder
<1>1. IInv => OneHolder
  BY HoldersMean DEF IInv
<1>2. QED
  BY <1>1, IInit, INext, PTL DEF Spec

-----------------------------------------------------------------------------
(* With a mailbox as long as there are messages, none is dropped. *)

LEMMA RoomFor ==
  ASSUME IInv, Cardinality(Msg) <= MboxSize, NEW x \in Msg, x \notin Queued
  PROVE  Room
<1>1. IsFiniteSet(Msg) /\ mbox \in Seq(Msg) /\ Distinct(mbox) /\ x \notin Elems(mbox)
  BY MsgAssumption, QueuedElems DEF IInv, Typed, TypeOK
<1>2. Len(mbox) < Cardinality(Msg)
  BY <1>1, ShortQueue
<1>3. Len(mbox) \in Nat /\ Cardinality(Msg) \in Nat /\ MboxSize \in Nat
  BY <1>1, MboxAssumption, FS_CardinalityType
<1>4. QED
  BY <1>2, <1>3 DEF Room

LEMMA RoomToPost ==
  ASSUME IInv, Cardinality(Msg) <= MboxSize
  PROVE  AlwaysRoom
<1> USE MsgAssumption DEF IInv, Typed, Hands, Msg
<1>1. ASSUME NEW t \in Tasks, pc[t] = "post" PROVE Room
  <2>1. msg[t] \in Msg /\ msg[t] # NoMsg /\ msg[t] \in Posting
    BY <1>1 DEF PoolMsgs, Posting
  <2>2. msg[t] \notin Queued
    BY <2>1 DEF Holders
  <2>3. QED BY <2>1, <2>2, RoomFor
<1>2. ASSUME ipc \in {"trypost", "reclaimpost"} PROVE Room
  <2>1. imsg \in Msg /\ imsg \notin Queued
    BY <1>2 DEF Holders, PoolMsgs
  <2>2. QED BY <2>1, RoomFor
<1>3. QED
  BY <1>1, <1>2 DEF AlwaysRoom

\* A post finds room, so sys_mbox_post never gives up, if the mailbox is as long as
\* there are messages, on the stacks and in the pools (sys_arch.c:205-212).
THEOREM RoomCorrect ==
  ASSUME Cardinality(Msg) <= MboxSize
  PROVE  Spec => []AlwaysRoom
<1>1. IInv => AlwaysRoom
  BY RoomToPost
<1>2. QED
  BY <1>1, IInit, INext, PTL DEF Spec

LEMMA LostNext ==
  ASSUME IInv, Cardinality(Msg) <= MboxSize, NoMsgLost, [Next]_vars
  PROVE  NoMsgLost'
<1> USE DEF NoMsgLost, tasks, thread, iface
<1>1. AlwaysRoom /\ mbox \in Seq(Msg) /\ msg \in [Tasks -> Msg \cup {NoMsg}]
  BY RoomToPost DEF IInv, Typed, TypeOK
<1>2. ASSUME NEW x \in Msg, mbox' = Append(mbox, x) PROVE Queued' = Queued \cup {x}
  <2>1. Queued' = Elems(Append(mbox, x))
    BY <1>2 DEF Queued, Elems
  <2>2. QED BY <2>1, <1>1, AppendElems, QueuedElems
<1>3. mbox' = mbox => Queued' = Queued
  BY SameQueue
<1>4. msg' = msg => Posting' = Posting
  BY DEF Posting
<1>5. NoMsg \notin PoolMsgs
  BY MsgAssumption DEF Msg
<1>6. ASSUME NEW t \in Tasks, Caller(t) PROVE NoMsgLost'
  <2>1. CASE tcpip_apimsg(t)
    <3>1. msg[t] = NoMsg /\ msg' = [msg EXCEPT ![t] = t]
      BY <2>1 DEF tcpip_apimsg, IInv, Typed, Hands
    <3>2. Posting \subseteq Posting' \cup {NoMsg}
      BY <3>1, <1>1 DEF Posting
    <3>3. QED BY <2>1, <3>2, <1>3, <1>5 DEF tcpip_apimsg
  <2>2. CASE tcpip_callback(t)
    <3>1. msg[t] = NoMsg
      BY <2>2 DEF tcpip_callback, IInv, Typed, Hands
    <3>2. ASSUME NEW m \in freeMsgs, msg' = [msg EXCEPT ![t] = m], freeMsgs' = freeMsgs \ {m}
          PROVE  NoMsgLost'
      <4>1. msg'[t] = m /\ m \in Posting'
        BY <3>2, <1>1 DEF Posting
      <4>2. Posting \subseteq Posting' \cup {NoMsg}
        BY <3>1, <3>2, <1>1 DEF Posting
      <4>3. QED BY <2>2, <3>2, <4>1, <4>2, <1>3, <1>5 DEF tcpip_callback
    <3>3. ASSUME freeMsgs' = freeMsgs, msg' = msg PROVE NoMsgLost'
      BY <2>2, <3>3, <1>3, <1>4 DEF tcpip_callback
    <3>4. QED BY <2>2, <3>2, <3>3 DEF tcpip_callback
  <2>3. CASE Post(t)
    <3>1. Room /\ msg[t] \in Msg
      BY <2>3, <1>1 DEF Post, AlwaysRoom, IInv, Typed, Hands, Msg, PoolMsgs
    <3>2. Queued' = Queued \cup {msg[t]} /\ msg' = [msg EXCEPT ![t] = NoMsg]
      BY <2>3, <3>1, <1>2 DEF Post
    <3>3. Posting \subseteq Posting' \cup {msg[t]}
      BY <3>2, <1>1 DEF Posting
    <3>4. QED BY <2>3, <3>2, <3>3 DEF Post
  <2>4. CASE Return(t)
    BY <2>4, <1>3, <1>4 DEF Return
  <2>5. QED BY <1>6, <2>1, <2>2, <2>3, <2>4 DEF Caller
<1>7. CASE Interface
  <2>1. UNCHANGED <<msg, cur>>
    BY <1>7 DEF Interface, InputAlloc, InputTryPost, pbuf_pool_is_empty, ReclaimAlloc,
                ReclaimTryPost
  <2>2. CASE ipc \in {"idle", "reclaim"}
    <3>1. mbox' = mbox /\ freeMsgs \cup {imsg} \subseteq freeMsgs' \cup {imsg', NoMsg}
      BY <1>7, <2>2 DEF Interface, InputAlloc, InputTryPost, pbuf_pool_is_empty, ReclaimAlloc,
                ReclaimTryPost, IInv, Typed, Hands
    <3>2. QED BY <2>1, <3>1, <1>3, <1>4, <1>5
  <2>3. CASE ipc \in {"trypost", "reclaimpost"}
    <3>1. Room /\ imsg \in Msg
      BY <2>3, <1>1 DEF AlwaysRoom, IInv, Typed, Hands, Msg, PoolMsgs
    <3>2. mbox' = Append(mbox, imsg) /\ freeMsgs' = freeMsgs
      BY <1>7, <2>3, <3>1 DEF Interface, InputAlloc, InputTryPost, pbuf_pool_is_empty,
                ReclaimAlloc, ReclaimTryPost
    <3>3. QED BY <2>1, <3>1, <3>2, <1>2, <1>4
  <2>4. QED BY <2>2, <2>3 DEF IInv, Typed, TypeOK
<1>8. CASE Thread
  <2>1. UNCHANGED <<msg, imsg>>
    BY <1>8 DEF Thread, Fetch, Call, Free, AnswerLater
  <2>2. CASE Fetch
    <3>1. Queued' = Queued \ {cur'} /\ cur = NoMsg
      BY <2>2, FetchQueue DEF Fetch, IInv, Typed, Hands
    <3>2. QED BY <2>1, <2>2, <3>1, <1>4, <1>5 DEF Fetch
  <2>3. CASE Call
    BY <2>1, <2>3, <1>3, <1>4 DEF Call
  <2>4. CASE Free
    BY <2>1, <2>4, <1>3, <1>4 DEF Free
  <2>5. ASSUME NEW t \in Tasks, AnswerLater(t) PROVE NoMsgLost'
    BY <2>1, <2>5, <1>3, <1>4 DEF AnswerLater
  <2>6. QED BY <1>8, <2>2, <2>3, <2>4, <2>5 DEF Thread
<1>9. CASE UNCHANGED vars
  BY <1>9, <1>3, <1>4 DEF vars
<1>10. QED
  BY <1>6, <1>7, <1>8, <1>9 DEF Next

\* No message of a pool is lost under the same condition (tcpip.c:109-136, 192, 228).
THEOREM LossCorrect ==
  ASSUME Cardinality(Msg) <= MboxSize
  PROVE  Spec => []NoMsgLost
<1>1. Init => NoMsgLost
  BY DEF Init, NoMsgLost
<1>2. IInv /\ NoMsgLost /\ [Next]_vars => NoMsgLost'
  BY LostNext
<1>3. QED
  BY <1>1, <1>2, IInit, INext, PTL DEF Spec

-----------------------------------------------------------------------------
(* Whoever waits has its waker. *)

Awaited == \A t \in Tasks : pc[t] = "wait" /\ t \notin refused => InFlight(t) # {} \/ t \in later \/ sem[t]

LEMMA AwaitedNext ==
  ASSUME IInv, Cardinality(Msg) <= MboxSize, Awaited, [Next]_vars
  PROVE  Awaited'
<1> SUFFICES ASSUME NEW u \in Tasks, pc'[u] = "wait", u \notin refused'
             PROVE  InFlight(u)' # {} \/ u \in later' \/ sem'[u]
  BY DEF Awaited
<1> USE MsgAssumption DEF IInv, Typed, TypeOK, tasks, thread, iface, Msg
<1>1. pc[u] = "wait" /\ u \notin refused => InFlight(u) # {} \/ u \in later \/ sem[u]
  BY DEF Awaited
<1>2. ASSUME pc[u] = "wait", u \notin refused, InFlight(u) \subseteq InFlight(u)',
             later' = later, sem' = sem
      PROVE  InFlight(u)' # {} \/ u \in later' \/ sem'[u]
  BY <1>1, <1>2
<1>3. ASSUME NEW t \in Tasks, Caller(t)
      PROVE  InFlight(u)' # {} \/ u \in later' \/ sem'[u]
  <2>2. CASE tcpip_apimsg(t)
    <3>1. mbox' = mbox /\ ctx' = ctx /\ tpc' = tpc /\ cur' = cur
      BY <2>2 DEF tcpip_apimsg
    <3>2. InFlight(u)' = InFlight(u)
      BY <3>1, SameQueue DEF InFlight, Asker
    <3>3. pc[u] = "wait" /\ u \notin refused /\ later' = later /\ sem' = sem
      BY <2>2 DEF tcpip_apimsg
    <3>4. QED BY <1>2, <3>2, <3>3
  <2>3. CASE tcpip_callback(t)
    <3>1. UNCHANGED <<mbox, tpc, cur, later, sem>> /\ Queued' = Queued
      BY <2>3, SameQueue DEF tcpip_callback
    <3>2. u # t
      BY <2>3 DEF tcpip_callback
    <3>3. pc[u] = "wait" /\ u \notin refused
      BY <2>3, <3>2 DEF tcpip_callback
    <3>4. \A m \in Queued \cup {cur} : m \in ApiMsgs => ctx'[m] = ctx[m]
      BY <2>3 DEF tcpip_callback, Holders
    <3>5. InFlight(u) \subseteq InFlight(u)'
      BY <3>1, <3>4 DEF InFlight, Asker
    <3>6. QED BY <1>2, <3>1, <3>3, <3>5
  <2>4. CASE Post(t)
    <3>1. /\ Room /\ msg[t] \in Msg /\ msg[t] \in ApiMsgs \cup {t} /\ Asker(msg[t]) = t
      BY <2>4, RoomToPost DEF Post, AlwaysRoom, Hands, PoolMsgs, Asker, Owners
    <3>2. /\ UNCHANGED <<sem, refused, ctx, tpc, cur, later>>
          /\ mbox' = Append(mbox, msg[t]) /\ pc' = [pc EXCEPT ![t] = "wait"]
      BY <2>4, <3>1 DEF Post
    <3>3. Queued' = Queued \cup {msg[t]}
      <4>1. Queued' = Elems(Append(mbox, msg[t]))
        BY <3>2 DEF Queued, Elems
      <4>2. QED BY <4>1, <3>1, AppendElems, QueuedElems
    <3>4. InFlight(u) \subseteq InFlight(u)'
      BY <3>2, <3>3 DEF InFlight, Asker
    <3>5. CASE u = t
      <4>1. msg[t] \in InFlight(u)'
        BY <3>1, <3>2, <3>3, <3>5 DEF InFlight, Asker
      <4>2. QED BY <4>1
    <3>6. CASE u # t
      BY <1>2, <3>2, <3>4, <3>6
    <3>7. QED BY <3>5, <3>6
  <2>5. CASE Return(t)
    <3>1. UNCHANGED <<mbox, ctx, tpc, cur, later, refused>> /\ sem' = [sem EXCEPT ![t] = FALSE]
          /\ pc' = [pc EXCEPT ![t] = "idle"]
      BY <2>5 DEF Return
    <3>2. InFlight(u)' = InFlight(u)
      BY <3>1, SameQueue DEF InFlight, Asker
    <3>3. u # t /\ pc[u] = "wait" /\ u \notin refused /\ sem'[u] = sem[u]
      BY <3>1
    <3>4. QED BY <1>1, <3>1, <3>2, <3>3
  <2>6. QED BY <1>3, <2>2, <2>3, <2>4, <2>5 DEF Caller
<1>4. CASE Interface
  <2>1. UNCHANGED <<pc, msg, sem, refused, tpc, cur, later>>
    BY <1>4 DEF Interface, InputAlloc, InputTryPost, pbuf_pool_is_empty, ReclaimAlloc,
                ReclaimTryPost
  <2>2. Queued \subseteq Queued'
    <3>1. ASSUME mbox' = Append(mbox, imsg), imsg \in PoolMsgs PROVE Queued \subseteq Queued'
      <4>1. Queued' = Elems(Append(mbox, imsg))
        BY <3>1 DEF Queued, Elems
      <4>2. QED BY <4>1, <3>1, AppendElems, QueuedElems
    <3>2. mbox' = mbox => Queued' = Queued
      BY SameQueue
    <3>3. mbox' = mbox \/ (mbox' = Append(mbox, imsg) /\ imsg \in PoolMsgs)
      BY <1>4 DEF Interface, InputAlloc, InputTryPost, pbuf_pool_is_empty, ReclaimAlloc,
                ReclaimTryPost, Hands, PoolMsgs
    <3>4. QED BY <3>1, <3>2, <3>3
  <2>3. \A m \in Queued \cup {cur} : m \in ApiMsgs => ctx'[m] = ctx[m]
    BY <1>4 DEF Interface, InputAlloc, InputTryPost, pbuf_pool_is_empty, ReclaimAlloc,
                ReclaimTryPost, Holders
  <2>4. InFlight(u) \subseteq InFlight(u)'
    BY <2>1, <2>2, <2>3 DEF InFlight, Asker
  <2>5. QED BY <1>2, <2>1, <2>4
<1>5. CASE Fetch
  <2>1. /\ UNCHANGED <<pc, sem, refused, later, ctx>> /\ tpc = "fetch" /\ tpc' = "call"
        /\ Queued' = Queued \ {cur'}
    BY <1>5, FetchQueue DEF Fetch
  <2>2. InFlight(u) \subseteq InFlight(u)'
    BY <2>1 DEF InFlight, Asker
  <2>3. QED BY <1>2, <2>1, <2>2
<1>6. CASE Call
  <2>1. UNCHANGED <<pc, refused, ctx, mbox>> /\ Queued' = Queued /\ tpc = "call"
    BY <1>6, SameQueue DEF Call
  <2>2. CASE Asker(cur) = u
    BY <1>6, <2>2 DEF Call, Answer
  <2>3. CASE Asker(cur) # u
    <3>1. InFlight(u) \subseteq InFlight(u)'
      BY <2>1, <2>3 DEF InFlight, Asker
    <3>2. sem'[u] = sem[u] /\ (u \in later <=> u \in later')
      BY <1>6, <2>3 DEF Call, Answer
    <3>3. QED BY <1>1, <2>1, <3>1, <3>2
  <2>4. QED BY <2>2, <2>3
<1>7. CASE Free
  <2>1. UNCHANGED <<pc, sem, refused, ctx, mbox, later>> /\ Queued' = Queued /\ tpc = "free"
    BY <1>7, SameQueue DEF Free
  <2>2. InFlight(u) \subseteq InFlight(u)'
    BY <2>1 DEF InFlight, Asker
  <2>3. QED BY <1>2, <2>1, <2>2
<1>8. ASSUME NEW t \in Tasks, AnswerLater(t)
      PROVE  InFlight(u)' # {} \/ u \in later' \/ sem'[u]
  <2>1. UNCHANGED <<pc, refused, ctx, mbox, tpc, cur>> /\ Queued' = Queued
        /\ later' = later \ {t} /\ sem' = [sem EXCEPT ![t] = TRUE]
    BY <1>8, SameQueue DEF AnswerLater
  <2>2. InFlight(u)' = InFlight(u)
    BY <2>1 DEF InFlight, Asker
  <2>3. QED BY <1>1, <2>1, <2>2
<1>9. CASE UNCHANGED vars
  <2>1. UNCHANGED <<pc, refused, sem, later, ctx, mbox, tpc, cur>> /\ Queued' = Queued
    BY <1>9, SameQueue DEF vars
  <2>2. InFlight(u)' = InFlight(u)
    BY <2>1 DEF InFlight, Asker
  <2>3. QED BY <1>2, <2>1, <2>2
<1>10. QED
  BY <1>3, <1>4, <1>5, <1>6, <1>7, <1>8, <1>9 DEF Next, Thread

\* A task that waits has exactly one thing that will wake it, and no other task has any
\* (tcpip.c:317-319, api_msg.c:1527-1564).
THEOREM WakerCorrect ==
  ASSUME Cardinality(Msg) <= MboxSize
  PROVE  Spec => []OneWaker
<1>1. Init => Awaited
  BY DEF Init, Awaited
<1>2. IInv /\ Awaited /\ [Next]_vars => Awaited'
  BY AwaitedNext
<1>3. IInv /\ Awaited => OneWaker
  BY DEF IInv, Awaited, Wakers, WakerOf, OneWaker
<1>4. QED
  BY <1>1, <1>2, <1>3, IInit, INext, PTL DEF Spec

-----------------------------------------------------------------------------
(* The request to reclaim pbufs. *)

Reclaims(m) == ctx[m] = NoMsg /\ (m \in Queued \/ (tpc = "call" /\ m = cur))

LEMMA ReclaimNext ==
  ASSUME IInv, ReclaimPending, [Next]_vars
  PROVE  ReclaimPending'
<1> USE MsgAssumption DEF IInv, Typed, TypeOK, tasks, thread, iface, Msg
<1>1. \/ ~pbuf_free_ooseq_pending \/ ipc \in {"reclaim", "reclaimpost"}
      \/ \E m \in ApiMsgs : Reclaims(m)
  BY DEF ReclaimPending, Reclaims
<1>2. SUFFICES \/ ~pbuf_free_ooseq_pending' \/ ipc' \in {"reclaim", "reclaimpost"}
               \/ \E m \in ApiMsgs : Reclaims(m)'
  BY DEF ReclaimPending, Reclaims
<1> DEFINE Goal == \/ ~pbuf_free_ooseq_pending' \/ ipc' \in {"reclaim", "reclaimpost"}
                   \/ \E m \in ApiMsgs : Reclaims(m)'
<1>3. ASSUME UNCHANGED <<pbuf_free_ooseq_pending, ipc>>,
             \A m \in ApiMsgs : Reclaims(m) => Reclaims(m)'
      PROVE  Goal
  BY <1>1, <1>3
<1>4. ASSUME NEW t \in Tasks, Caller(t) PROVE Goal
  <2>1. UNCHANGED <<pbuf_free_ooseq_pending, ipc, tpc, cur>>
    BY <1>4 DEF Caller, tcpip_apimsg, tcpip_callback, Post, Return
  <2>2. \A m \in Queued \cup {cur} : m \in ApiMsgs => ctx'[m] = ctx[m]
    BY <1>4 DEF Caller, tcpip_apimsg, tcpip_callback, Post, Return, Holders
  <2>3. Queued \subseteq Queued'
    <3>1. ASSUME mbox' = Append(mbox, msg[t]), msg[t] \in Msg PROVE Queued \subseteq Queued'
      <4>1. Queued' = Elems(Append(mbox, msg[t]))
        BY <3>1 DEF Queued, Elems
      <4>2. QED BY <4>1, <3>1, AppendElems, QueuedElems
    <3>2. mbox' = mbox => Queued' = Queued
      BY SameQueue
    <3>3. mbox' = mbox \/ (mbox' = Append(mbox, msg[t]) /\ msg[t] \in Msg)
      BY <1>4 DEF Caller, tcpip_apimsg, tcpip_callback, Post, Return, Hands, PoolMsgs
    <3>4. QED BY <3>1, <3>2, <3>3
  <2>4. QED BY <1>3, <2>1, <2>2, <2>3 DEF Reclaims
<1>5. CASE InputAlloc
  <2>1. UNCHANGED <<pbuf_free_ooseq_pending, ctx, mbox, tpc, cur>> /\ ipc = "idle"
    BY <1>5 DEF InputAlloc
  <2>2. Queued' = Queued
    BY <2>1, SameQueue
  <2>3. QED BY <1>1, <2>1, <2>2 DEF Reclaims
<1>6. ASSUME mbox' = Append(mbox, imsg), imsg \in PoolMsgs,
             UNCHANGED <<pbuf_free_ooseq_pending, ctx, tpc, cur>>,
             ipc = "trypost" \/ (ipc = "reclaimpost" /\ imsg \in ApiMsgs)
      PROVE  Goal
  <2>1. Queued' = Queued \cup {imsg}
    <3>1. Queued' = Elems(Append(mbox, imsg))
      BY <1>6 DEF Queued, Elems
    <3>2. QED BY <3>1, <1>6, AppendElems, QueuedElems
  <2>2. \A m \in ApiMsgs : Reclaims(m) => Reclaims(m)'
    BY <1>6, <2>1 DEF Reclaims
  <2>3. ipc = "reclaimpost" => \E m \in ApiMsgs : Reclaims(m)'
    <3>1. ASSUME NEW m \in ApiMsgs, m = imsg, ipc = "reclaimpost" PROVE Reclaims(m)'
      BY <1>6, <2>1, <3>1 DEF Reclaims, Owners
    <3>2. QED BY <1>6, <3>1
  <2>4. QED BY <1>1, <1>6, <2>2, <2>3
<1>7. CASE InputTryPost
  <2>1. CASE Room
    BY <1>6, <1>7, <2>1 DEF InputTryPost, Hands, PoolMsgs
  <2>2. CASE ~Room
    <3>1. UNCHANGED <<pbuf_free_ooseq_pending, ctx, mbox, tpc, cur>> /\ ipc = "trypost"
      BY <1>7, <2>2 DEF InputTryPost
    <3>2. Queued' = Queued
      BY <3>1, SameQueue
    <3>3. QED BY <1>1, <3>1, <3>2 DEF Reclaims
  <2>3. QED BY <2>1, <2>2
<1>8. CASE pbuf_pool_is_empty
  BY <1>8 DEF pbuf_pool_is_empty
<1>9. CASE ReclaimAlloc
  BY <1>9 DEF ReclaimAlloc
<1>10. CASE ReclaimTryPost
  <2>1. CASE Room
    BY <1>6, <1>10, <2>1 DEF ReclaimTryPost, Hands, PoolMsgs
  <2>2. CASE ~Room
    BY <1>10, <2>2 DEF ReclaimTryPost
  <2>3. QED BY <2>1, <2>2
<1>11. CASE Fetch
  <2>1. /\ UNCHANGED <<pbuf_free_ooseq_pending, ctx, ipc>> /\ tpc = "fetch" /\ tpc' = "call"
        /\ Queued' = Queued \ {cur'}
    BY <1>11, FetchQueue DEF Fetch
  <2>2. \A m \in ApiMsgs : Reclaims(m) => Reclaims(m)'
    BY <2>1 DEF Reclaims
  <2>3. QED BY <1>3, <2>1, <2>2
<1>12. CASE Call
  <2>1. /\ UNCHANGED <<ctx, mbox, ipc>> /\ tpc = "call"
        /\ pbuf_free_ooseq_pending' =
             (pbuf_free_ooseq_pending /\ ~(cur \in ApiMsgs /\ ctx[cur] = NoMsg))
    BY <1>12 DEF Call
  <2>2. Queued' = Queued
    BY <2>1, SameQueue
  <2>3. CASE cur \in ApiMsgs /\ ctx[cur] = NoMsg
    BY <2>1, <2>3
  <2>4. CASE ~(cur \in ApiMsgs /\ ctx[cur] = NoMsg)
    <3>1. \A m \in ApiMsgs : Reclaims(m) => Reclaims(m)'
      BY <2>1, <2>2, <2>4 DEF Reclaims
    <3>2. pbuf_free_ooseq_pending' <=> pbuf_free_ooseq_pending
      BY <2>1, <2>4
    <3>3. QED BY <1>1, <2>1, <3>1, <3>2
  <2>5. QED BY <2>3, <2>4
<1>13. CASE Free
  <2>1. UNCHANGED <<pbuf_free_ooseq_pending, ctx, mbox, ipc>> /\ tpc = "free"
    BY <1>13 DEF Free
  <2>2. Queued' = Queued
    BY <2>1, SameQueue
  <2>3. QED BY <1>3, <2>1, <2>2 DEF Reclaims
<1>14. ASSUME NEW t \in Tasks, AnswerLater(t) PROVE Goal
  <2>1. UNCHANGED <<pbuf_free_ooseq_pending, ctx, mbox, ipc, tpc, cur>> /\ Queued' = Queued
    BY <1>14, SameQueue DEF AnswerLater
  <2>2. QED BY <1>3, <2>1 DEF Reclaims
<1>15. CASE UNCHANGED vars
  <2>1. UNCHANGED <<pbuf_free_ooseq_pending, ctx, mbox, ipc, tpc, cur>> /\ Queued' = Queued
    BY <1>15, SameQueue DEF vars
  <2>2. QED BY <1>3, <2>1 DEF Reclaims
<1>16. QED
  BY <1>4, <1>5, <1>7, <1>8, <1>9, <1>10, <1>11, <1>12, <1>13, <1>14, <1>15
     DEF Next, Thread, Interface

\* The flag that keeps requests for pbufs away never sticks (pbuf.c:94-99, 118-125,
\* 160-170), whatever step of a request fails.
THEOREM ReclaimCorrect == Spec => []ReclaimPending
<1>1. Init => ReclaimPending
  BY DEF Init, ReclaimPending
<1>2. IInv /\ ReclaimPending /\ [Next]_vars => ReclaimPending'
  BY ReclaimNext
<1>3. QED
  BY <1>1, <1>2, IInit, INext, PTL DEF Spec

-----------------------------------------------------------------------------
(* How large the pool of messages has to be. *)

\* a request to reclaim pbufs on its way
Reclaiming(m) ==
  /\ ctx[m] = NoMsg
  /\ m \in Queued \/ (tpc = "call" /\ m = cur) \/ (ipc = "reclaimpost" /\ m = imsg)

\* There is one request at a time: while the flag is set, nobody makes another.
OneReclaim ==
  /\ \A m, n \in ApiMsgs : Reclaiming(m) /\ Reclaiming(n) => m = n
  /\ \A m \in ApiMsgs : Reclaiming(m) => pbuf_free_ooseq_pending /\ ipc # "reclaim"
  /\ ipc = "reclaim" => pbuf_free_ooseq_pending

LEMMA ReclaimCaller ==
  ASSUME IInv, OneReclaim, NEW t \in Tasks, Caller(t)
  PROVE  OneReclaim'
<1> USE DEF IInv, Typed, TypeOK, thread, iface
<1>1. UNCHANGED <<tpc, cur, ipc, imsg, pbuf_free_ooseq_pending>>
  BY DEF Caller, tcpip_apimsg, tcpip_callback, Post, Return
<1>2. ASSUME NEW m \in ApiMsgs, Reclaiming(m)' PROVE Reclaiming(m)
  <2>1. CASE mbox' = mbox /\ ctx' = ctx
    BY <1>1, <1>2, <2>1 DEF Reclaiming, Queued
  <2>2. CASE tcpip_callback(t) /\ ctx' # ctx
    <3>1. PICK n \in freeMsgs \cap ApiMsgs : ctx' = [ctx EXCEPT ![n] = t]
      BY <2>2 DEF tcpip_callback
    <3>2. t # NoMsg /\ mbox' = mbox
      BY <2>2, MsgAssumption DEF tcpip_callback, Msg
    <3>3. m # n
      BY <1>2, <3>1, <3>2 DEF Reclaiming
    <3> QED
      BY <1>1, <1>2, <3>1, <3>2, <3>3 DEF Reclaiming, Queued
  <2>3. CASE Post(t) /\ mbox' # mbox
    <3>1. /\ msg[t] \in ApiMsgs \cup {t} /\ ctx' = ctx /\ mbox' = Append(mbox, msg[t])
          /\ msg[t] \in Posting
      BY <2>3 DEF Post, Hands, Posting
    <3>2. msg[t] \in Msg /\ msg[t] # NoMsg
      BY <3>1, MsgAssumption DEF Msg, PoolMsgs
    <3>3. Queued' = Queued \cup {msg[t]}
      BY <3>1, <3>2, PostQueue DEF Holders
    <3>4. m # msg[t]
      <4>1. t # NoMsg
        BY MsgAssumption DEF Msg
      <4>2. msg[t] \in ApiMsgs => ctx[msg[t]] = t
        BY DEF Owners
      <4> QED
        BY <1>2, <3>1, <4>1, <4>2 DEF Reclaiming
    <3> QED
      BY <1>1, <1>2, <3>1, <3>3, <3>4 DEF Reclaiming
  <2> QED
    BY <2>1, <2>2, <2>3 DEF Caller, tcpip_apimsg, tcpip_callback, Post, Return
<1> QED
  BY <1>1, <1>2 DEF OneReclaim

LEMMA ReclaimInterface ==
  ASSUME IInv, OneReclaim, Interface
  PROVE  OneReclaim'
<1> USE DEF IInv, Typed, TypeOK, thread, tasks
<1>1. UNCHANGED <<tpc, cur>>
  BY DEF Interface, InputAlloc, InputTryPost, pbuf_pool_is_empty, ReclaimAlloc, ReclaimTryPost
<1>2. CASE InputAlloc \/ pbuf_pool_is_empty
  <2>1. \A m \in ApiMsgs : Reclaiming(m)' <=> Reclaiming(m)
    BY <1>2 DEF InputAlloc, pbuf_pool_is_empty, Reclaiming, Queued
  <2> QED
    BY <1>2, <2>1 DEF InputAlloc, pbuf_pool_is_empty, OneReclaim
<1>3. CASE InputTryPost
  <2>1. imsg \in InpktMsgs /\ imsg \in Msg /\ imsg # NoMsg /\ imsg \notin ApiMsgs
    BY <1>3, MsgAssumption DEF InputTryPost, Hands, Msg, PoolMsgs
  <2>2. Queued' = Queued \/ Queued' = Queued \cup {imsg}
    BY <1>3, <2>1, PostQueue, SameQueue DEF InputTryPost, Holders
  <2>3. \A m \in ApiMsgs : Reclaiming(m)' <=> Reclaiming(m)
    BY <1>1, <1>3, <2>1, <2>2 DEF InputTryPost, Reclaiming
  <2> QED
    BY <1>3, <2>3 DEF InputTryPost, OneReclaim
<1>4. CASE ReclaimAlloc
  <2>1. \A m \in ApiMsgs : ~Reclaiming(m)
    BY <1>4 DEF ReclaimAlloc, OneReclaim
  <2>2. CASE ipc' = "idle"
    <3>1. \A m \in ApiMsgs : ~Reclaiming(m)'
      BY <1>1, <1>4, <2>1, <2>2 DEF ReclaimAlloc, Reclaiming, Queued
    <3> QED
      BY <2>2, <3>1 DEF OneReclaim
  <2>3. CASE ipc' # "idle"
    <3>1. PICK n \in freeMsgs \cap ApiMsgs :
            imsg' = n /\ ctx' = [ctx EXCEPT ![n] = NoMsg] /\ ipc' = "reclaimpost"
      BY <1>4, <2>3 DEF ReclaimAlloc
    <3>2. pbuf_free_ooseq_pending' /\ mbox' = mbox
      BY <1>4, <2>3 DEF ReclaimAlloc, OneReclaim
    <3>3. \A m \in ApiMsgs : Reclaiming(m)' => m = n
      BY <1>1, <2>1, <3>1, <3>2 DEF Reclaiming, Queued
    <3> QED
      BY <3>1, <3>2, <3>3 DEF OneReclaim
  <2> QED
    BY <2>2, <2>3
<1>5. CASE ReclaimTryPost
  <2>1. imsg \in ApiMsgs /\ imsg \in Msg /\ ctx[imsg] = NoMsg /\ Reclaiming(imsg)
    BY <1>5 DEF ReclaimTryPost, Hands, Owners, Reclaiming, Msg, PoolMsgs
  <2>2. ipc' = "idle" /\ ctx' = ctx
    BY <1>5 DEF ReclaimTryPost
  <2>3. \A m \in ApiMsgs : Reclaiming(m) => m = imsg
    BY <2>1 DEF OneReclaim
  <2>4. CASE Room
    <3>1. mbox' = Append(mbox, imsg) /\ pbuf_free_ooseq_pending' = pbuf_free_ooseq_pending
      BY <1>5, <2>4 DEF ReclaimTryPost
    <3>2. imsg # NoMsg
      BY <2>1, MsgAssumption DEF Msg, PoolMsgs
    <3>3. Queued' = Queued \cup {imsg}
      BY <2>1, <3>1, <3>2, PostQueue DEF Holders
    <3>4. \A m \in ApiMsgs : Reclaiming(m)' => m = imsg
      BY <1>1, <2>2, <2>3, <3>3 DEF Reclaiming
    <3> QED
      BY <2>1, <2>2, <3>1, <3>4 DEF OneReclaim
  <2>5. CASE ~Room
    <3>1. mbox' = mbox
      BY <1>5, <2>5 DEF ReclaimTryPost
    <3>2. imsg \notin Queued /\ imsg # cur
      BY <2>1, MsgAssumption DEF Holders, Msg, PoolMsgs
    <3>3. \A m \in ApiMsgs : ~Reclaiming(m)'
      BY <1>1, <2>2, <2>3, <3>1, <3>2 DEF Reclaiming, Queued
    <3> QED
      BY <2>2, <3>3 DEF OneReclaim
  <2> QED
    BY <2>4, <2>5
<1> QED
  BY <1>2, <1>3, <1>4, <1>5 DEF Interface

LEMMA ReclaimThread ==
  ASSUME IInv, OneReclaim, Thread
  PROVE  OneReclaim'
<1> USE DEF IInv, Typed, TypeOK, tasks, iface
<1>1. UNCHANGED <<ipc, imsg, ctx>>
  BY DEF Thread, Fetch, Call, Free, AnswerLater
<1>2. CASE Fetch
  <2>1. /\ mbox # <<>> /\ mbox' = Tail(mbox) /\ cur' = Head(mbox)
        /\ pbuf_free_ooseq_pending' = pbuf_free_ooseq_pending
    BY <1>2 DEF Fetch
  <2>2. cur' \in Queued /\ Queued' = Queued \ {cur'}
    BY <2>1, FetchQueue
  <2>3. \A m \in ApiMsgs : Reclaiming(m)' => Reclaiming(m)
    BY <1>1, <2>2 DEF Reclaiming
  <2> QED
    BY <1>1, <2>1, <2>3 DEF OneReclaim
<1>3. CASE Call
  <2>1. tpc = "call" /\ tpc' # "call" /\ mbox' = mbox
    BY <1>3 DEF Call
  <2>2. \A m \in ApiMsgs : Reclaiming(m)' => Reclaiming(m)
    BY <1>1, <2>1 DEF Reclaiming, Queued
  <2>3. CASE cur \in ApiMsgs /\ ctx[cur] = NoMsg
    <3>1. PICK c \in ApiMsgs : c = cur
      BY <2>3
    <3>2. Reclaiming(c)
      BY <2>1, <2>3, <3>1 DEF Reclaiming
    <3>3. c \notin Queued /\ (ipc = "reclaimpost" => imsg # c)
      BY <2>3, <3>1, MsgAssumption DEF Holders, Msg, PoolMsgs
    <3>4. ~Reclaiming(c)'
      BY <1>1, <2>1, <3>3 DEF Reclaiming, Queued
    <3>5. \A m \in ApiMsgs : ~Reclaiming(m)'
      BY <2>2, <3>2, <3>4 DEF OneReclaim
    <3>6. ipc' # "reclaim"
      BY <1>1, <3>2 DEF OneReclaim
    <3> QED
      BY <3>5, <3>6 DEF OneReclaim
  <2>4. CASE ~(cur \in ApiMsgs /\ ctx[cur] = NoMsg)
    <3>1. pbuf_free_ooseq_pending' = pbuf_free_ooseq_pending
      BY <1>3, <2>4 DEF Call
    <3> QED
      BY <1>1, <2>2, <3>1 DEF OneReclaim
  <2> QED
    BY <2>3, <2>4
<1>4. CASE Free \/ \E t \in Tasks : AnswerLater(t)
  <2>1. /\ mbox' = mbox /\ pbuf_free_ooseq_pending' = pbuf_free_ooseq_pending
        /\ tpc' = "call" => tpc = "call" /\ cur' = cur
    BY <1>4 DEF Free, AnswerLater
  <2>2. \A m \in ApiMsgs : Reclaiming(m)' => Reclaiming(m)
    BY <1>1, <2>1 DEF Reclaiming, Queued
  <2> QED
    BY <1>1, <2>1, <2>2 DEF OneReclaim
<1> QED
  BY <1>2, <1>3, <1>4 DEF Thread

LEMMA OneReclaimNext == IInv /\ OneReclaim /\ [Next]_vars => OneReclaim'
<1>1. IInv /\ OneReclaim /\ UNCHANGED vars => OneReclaim'
  BY DEF OneReclaim, Reclaiming, Queued, vars, tasks, thread, iface
<1> QED
  BY <1>1, ReclaimCaller, ReclaimInterface, ReclaimThread DEF Next

\* Each message that is not free belongs to a task that waits or posts, is the one request
\* to reclaim, or is about to be freed, so a task that is idle finds one.
LEMMA FindsMessage ==
  ASSUME IInv, OneReclaim, NoMsgLost, Cardinality(Tasks) + 2 <= Cardinality(ApiMsgs),
         NEW t \in Tasks, pc[t] = "idle"
  PROVE  freeMsgs \cap ApiMsgs # {}
<1> SUFFICES ASSUME freeMsgs \cap ApiMsgs = {} PROVE FALSE
  OBVIOUS
<1> USE DEF IInv, Typed, TypeOK
<1> DEFINE Holder(m) == IF tpc = "free" /\ m = cur THEN t ELSE ctx[m]
           f == [m \in ApiMsgs |-> Holder(m)]
           T == Tasks \cup {NoMsg}
<1>1. NoMsg \notin ApiMsgs /\ t # NoMsg
  BY MsgAssumption DEF Msg, PoolMsgs
<1>2. \A m \in ApiMsgs : m \in Posting \cup Queued \cup {cur, imsg}
  BY DEF NoMsgLost, PoolMsgs
\* who holds a message that the thread does not free
<1>3. ASSUME NEW m \in ApiMsgs, ~(tpc = "free" /\ m = cur)
      PROVE  \/ Reclaiming(m)
             \/ \E u \in Tasks \ {t} : /\ ctx[m] = u
                                       /\ \/ pc[u] = "post" /\ msg[u] = m
                                          \/ pc[u] = "wait" /\ m \in InFlight(u)
  <2>1. CASE m \in Posting
    <3>1. PICK u \in Tasks : msg[u] = m
      BY <2>1 DEF Posting
    <3>2. pc[u] = "post" /\ ctx[m] = u
      BY <1>1, <3>1 DEF Hands, Owners
    <3> QED
      BY <3>1, <3>2
  <2>2. CASE m \in Queued \/ (tpc = "call" /\ m = cur)
    <3>1. CASE ctx[m] = NoMsg
      BY <2>2, <3>1 DEF Reclaiming
    <3>2. CASE ctx[m] # NoMsg
      <4>1. PICK u \in Tasks : u = ctx[m]
        BY <3>2
      <4>2. m \in InFlight(u)
        <5>1. m \in Msg /\ m \notin Tasks
          BY MsgAssumption DEF Msg, PoolMsgs
        <5> QED
          BY <2>2, <4>1, <5>1 DEF InFlight, Asker
      <4>3. pc[u] = "wait"
        BY <4>2 DEF Wakers, WakerOf
      <4> QED
        BY <4>1, <4>2, <4>3
    <3> QED
      BY <3>1, <3>2
  <2>3. CASE m = imsg
    <3>1. ipc = "reclaimpost"
      BY <1>1, <2>3, MsgAssumption DEF Hands
    <3> QED
      BY <2>3, <3>1 DEF Owners, Reclaiming
  <2>4. m = cur => tpc = "call"
    BY <1>1, <1>3 DEF Hands
  <2> QED
    BY <1>2, <2>1, <2>2, <2>3, <2>4
<1>4. \A m \in ApiMsgs : Reclaiming(m) => ctx[m] = NoMsg
  BY DEF Reclaiming
<1>5. ASSUME NEW m \in ApiMsgs, NEW n \in ApiMsgs, Holder(m) = Holder(n)
      PROVE  m = n
  <2>1. CASE tpc = "free" /\ (m = cur \/ n = cur)
    <3>1. \A k \in ApiMsgs : k # cur => ctx[k] # t
      BY <1>1, <1>3, <1>4
    <3> QED
      BY <1>5, <2>1, <3>1
  <2>2. CASE ~(tpc = "free" /\ m = cur) /\ ~(tpc = "free" /\ n = cur)
    <3>1. ctx[m] = ctx[n]
      BY <1>5, <2>2
    <3>2. CASE Reclaiming(m) \/ Reclaiming(n)
      <4>1. Reclaiming(m) /\ Reclaiming(n)
        BY <1>1, <1>3, <1>4, <2>2, <3>1, <3>2, MsgAssumption DEF Msg
      <4> QED
        BY <4>1 DEF OneReclaim
    <3>3. CASE ~Reclaiming(m) /\ ~Reclaiming(n)
      <4>1. PICK u \in Tasks : /\ ctx[m] = u
                               /\ \/ pc[u] = "post" /\ msg[u] = m
                                  \/ pc[u] = "wait" /\ m \in InFlight(u)
        BY <1>3, <2>2, <3>3
      <4>2. \/ pc[u] = "post" /\ msg[u] = n
            \/ pc[u] = "wait" /\ n \in InFlight(u)
        BY <1>3, <2>2, <3>1, <3>3, <4>1
      <4> QED
        BY <4>1, <4>2 DEF Wakers, WakerOf
    <3> QED
      BY <3>2, <3>3
  <2> QED
    BY <2>1, <2>2
<1>6. f \in [ApiMsgs -> T]
  OBVIOUS
<1>7. \A m, n \in ApiMsgs : f[m] = f[n] => m = n
  BY <1>5
<1> HIDE DEF f, Holder
<1>8. f \in Injection(ApiMsgs, T)
  BY <1>6, <1>7 DEF Injection, IsInjective
<1>9. IsFiniteSet(Tasks) /\ IsFiniteSet(ApiMsgs) /\ NoMsg \notin Tasks
  BY MsgAssumption, FS_Subset DEF Msg, PoolMsgs
<1>10. IsFiniteSet(T) /\ Cardinality(T) = Cardinality(Tasks) + 1
  BY <1>9, FS_AddElement
<1>11. Cardinality(ApiMsgs) <= Cardinality(T)
  BY <1>8, <1>10, FS_Injection
<1>12. Cardinality(Tasks) \in Nat /\ Cardinality(ApiMsgs) \in Nat
  BY <1>9, FS_CardinalityType
<1> HIDE DEF T
<1> QED
  BY <1>10, <1>11, <1>12

\* With two messages more than tasks, and a mailbox that holds every message, no
\* tcpip_callback is ever refused, so the callers' neglect of ERR_MEM does no harm: the
\* eight messages of lwipopts.h:263 are enough for six tasks that call.
THEOREM CallersNeverRefused ==
  ASSUME Cardinality(Msg) <= MboxSize, Cardinality(Tasks) + 2 <= Cardinality(ApiMsgs)
  PROVE  Spec => []NeverRefused
<1>1. Init => NeverRefused /\ OneReclaim /\ NoMsgLost
  BY DEF Init, NeverRefused, OneReclaim, Reclaiming, Queued, NoMsgLost
<1>2. IInv /\ OneReclaim /\ NoMsgLost /\ NeverRefused /\ [Next]_vars => NeverRefused'
  <2> SUFFICES ASSUME IInv, OneReclaim, NoMsgLost, refused = {}, [Next]_vars
               PROVE  refused' = {}
    BY DEF NeverRefused
  <2>1. ASSUME NEW t \in Tasks, tcpip_callback(t) PROVE refused' = {}
    BY <2>1, FindsMessage DEF tcpip_callback
  <2>2. ASSUME NEW t \in Tasks, Caller(t) PROVE refused' = {}
    BY <2>1, <2>2 DEF Caller, tcpip_apimsg, Post, Return
  <2>3. CASE Interface
    BY <2>3 DEF Interface, InputAlloc, InputTryPost, pbuf_pool_is_empty, ReclaimAlloc,
                ReclaimTryPost, tasks
  <2>4. CASE Thread
    BY <2>4 DEF Thread, Fetch, Call, Free, AnswerLater, tasks
  <2>5. CASE UNCHANGED vars
    BY <2>5 DEF vars, tasks
  <2> QED
    BY <2>2, <2>3, <2>4, <2>5 DEF Next
<1>3. IInv /\ NoMsgLost /\ [Next]_vars => NoMsgLost'
  BY LostNext
<1> QED
  BY <1>1, <1>2, <1>3, OneReclaimNext, IInit, INext, PTL DEF Spec

-----------------------------------------------------------------------------
(* TcpipCalls implements Rpc. *)

\* what Rpc sees of a call
CallOf(t) == IF pc[t] = "idle" THEN "none" ELSE IF sem[t] THEN "answered" ELSE "asked"

Bar == [t \in Tasks |-> CallOf(t)]

LEMMA BarMove ==
  ASSUME NEW t \in Tasks, NEW from, NEW to, CallOf(t) = from, CallOf(t)' = to,
         \A u \in Tasks \ {t} : CallOf(u)' = CallOf(u)
  PROVE  Bar[t] = from /\ Bar' = [Bar EXCEPT ![t] = to]
BY DEF Bar

LEMMA Simulates ==
  ASSUME IInv, [Next]_vars
  PROVE  [Calls!Next]_Bar
<1> USE DEF IInv, Typed, TypeOK, tasks, thread, iface
<1>1. ASSUME UNCHANGED <<pc, sem>> PROVE Bar' = Bar
  BY <1>1 DEF Bar, CallOf
<1>2. ASSUME NEW t \in Tasks, Bar[t] = "none" /\ Bar' = [Bar EXCEPT ![t] = "asked"]
      PROVE  Calls!Next
  BY <1>2 DEF Calls!Next, Calls!Ask, Calls!Move, Bar, CallOf
<1>3. ASSUME NEW t \in Tasks, Bar[t] = "asked" /\ Bar' = [Bar EXCEPT ![t] = "answered"]
      PROVE  Calls!Next
  BY <1>3 DEF Calls!Next, Calls!Answer, Calls!Move, Bar, CallOf
<1>4. ASSUME NEW t \in Tasks, Bar[t] = "answered" /\ Bar' = [Bar EXCEPT ![t] = "none"]
      PROVE  Calls!Next
  BY <1>4 DEF Calls!Next, Calls!Return, Calls!Move, Bar, CallOf
<1>5. ASSUME NEW t \in Tasks, Caller(t) PROVE [Calls!Next]_Bar
  <2>1. CASE tcpip_apimsg(t) \/ tcpip_callback(t)
    <3>1. /\ pc[t] = "idle" /\ ~sem[t] /\ sem' = sem
          /\ \E p \in {"post", "wait"} : pc' = [pc EXCEPT ![t] = p]
      BY <2>1 DEF tcpip_apimsg, tcpip_callback, Wakers, WakerOf
    <3>2. CallOf(t) = "none" /\ CallOf(t)' = "asked"
      BY <3>1 DEF CallOf
    <3>3. \A u \in Tasks \ {t} : CallOf(u)' = CallOf(u)
      BY <3>1 DEF CallOf
    <3>4. QED BY <3>2, <3>3, BarMove, <1>2
  <2>2. CASE Post(t)
    <3>1. sem' = sem /\ pc[t] = "post" /\ pc' = [pc EXCEPT ![t] = "wait"]
      BY <2>2 DEF Post
    <3>2. \A u \in Tasks : CallOf(u)' = CallOf(u)
      BY <3>1 DEF CallOf
    <3>3. QED BY <3>2 DEF Bar
  <2>3. CASE Return(t)
    <3>1. /\ pc[t] = "wait" /\ sem[t] /\ sem' = [sem EXCEPT ![t] = FALSE]
          /\ pc' = [pc EXCEPT ![t] = "idle"]
      BY <2>3 DEF Return
    <3>2. CallOf(t) = "answered" /\ CallOf(t)' = "none"
      BY <3>1 DEF CallOf
    <3>3. \A u \in Tasks \ {t} : CallOf(u)' = CallOf(u)
      BY <3>1 DEF CallOf
    <3>4. QED BY <3>2, <3>3, BarMove, <1>4
  <2>4. QED BY <1>5, <2>1, <2>2, <2>3 DEF Caller
<1>6. CASE Interface
  BY <1>1, <1>6 DEF Interface, InputAlloc, InputTryPost, pbuf_pool_is_empty, ReclaimAlloc,
                    ReclaimTryPost
<1>7. CASE Fetch \/ Free
  BY <1>1, <1>7 DEF Fetch, Free
<1>8. ASSUME NEW t \in Tasks, pc[t] = "wait", ~sem[t], pc' = pc, sem' = [sem EXCEPT ![t] = TRUE]
      PROVE  Calls!Next
  <2>1. CallOf(t) = "asked" /\ CallOf(t)' = "answered"
    BY <1>8 DEF CallOf
  <2>2. \A u \in Tasks \ {t} : CallOf(u)' = CallOf(u)
    BY <1>8 DEF CallOf
  <2>3. QED BY <2>1, <2>2, BarMove, <1>3
<1>9. CASE Call
  <2>1. CASE sem' = sem
    BY <1>1, <1>9, <2>1 DEF Call
  <2>2. CASE sem' # sem
    <3>1. Asker(cur) \in Tasks /\ sem' = [sem EXCEPT ![Asker(cur)] = TRUE] /\ pc' = pc
      BY <1>9, <2>2 DEF Call, Answer
    <3>2. PICK t \in Tasks : t = Asker(cur)
      BY <3>1
    <3>3. cur \in InFlight(t)
      BY <1>9, <3>2 DEF Call, InFlight, Hands
    <3>4. pc[t] = "wait" /\ ~sem[t]
      BY <3>3 DEF Wakers, WakerOf
    <3>5. QED BY <1>8, <3>1, <3>2, <3>4
  <2>3. QED BY <2>1, <2>2
<1>10. ASSUME NEW t \in Tasks, AnswerLater(t) PROVE [Calls!Next]_Bar
  BY <1>8, <1>10 DEF AnswerLater, Wakers, WakerOf
<1>11. CASE UNCHANGED vars
  BY <1>1, <1>11 DEF vars
<1>12. QED
  BY <1>5, <1>6, <1>7, <1>9, <1>10, <1>11 DEF Next, Thread

\* Whatever the mailbox and the pools do, a call is answered at most once and only after
\* it was asked, and it ends with its own answer (tcpip.c:306-322, api_msg.c:1527-1564).
THEOREM ImplementsCorrect == Spec => ImplementsRpc
<1>1. Init => Calls!Init
  BY DEF Init, Calls!Init
<1>2. IInv /\ [Next]_vars => [Calls!Next]_Bar
  BY Simulates
<1>3. QED
  BY <1>1, <1>2, IInit, INext, PTL DEF Spec, ImplementsRpc, Calls!Spec, Bar, CallOf

=============================================================================
