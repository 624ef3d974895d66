--------------------------- MODULE SocketsProofs ---------------------------
(***************************************************************************)
(* Proofs about Sockets, for any tasks, sockets, sets and mailboxes.        *)
(***************************************************************************)
EXTENDS Sockets, FiniteSetTheorems, TLAPS

Distinct(q) == \A i, j \in DOMAIN q : q[i] = q[j] => i = j

\* the places of a task in lwip_select: before its select_cb goes, and after it came
Inside == {"insert", "count", "rescan", "wait", "uncount", "unlink", "scan"}
Listed == {"count", "rescan", "wait", "uncount", "unlink"}

\* The list holds the tasks that are between lines 1137 and 1219, each once.
ListOK ==
  /\ Distinct(select_cb_list)
  /\ \A t \in Tasks : t \in ToSet(select_cb_list) <=> pc[t] \in Listed

\* What a select_cb says while its task is in select.
Signals ==
  \A t \in Tasks :
    /\ sem[t] => sem_signalled[t]
    /\ sem_signalled[t] => pc[t] \in Listed
    /\ pc[t] \in {"count", "rescan", "wait"} => (sem_signalled[t] => sem[t])
    /\ found[t] => pc[t] \in {"rescan", "uncount", "unlink"}
    /\ timedout[t] => pc[t] \in {"uncount", "unlink"}

\* A task in select has open sockets and no data left from an earlier read.
Quiet ==
  \A t \in Tasks : \A s \in Set(t) :
    /\ pc[t] \in Inside => conn[s] = "open"
    /\ pc[t] \in Inside /\ s \in ReadSet[t] => ~lastdata[s]

\* A loop goes over sockets of the task.
Loops ==
  \A t \in Tasks :
    /\ todo[t] \subseteq Set(t)
    /\ pc[t] \in {"wait", "unlink"} => todo[t] = Set(t)
    /\ pc[t] = "alloc" => \A s \in todo[t] : conn[s] = "alloc"
    /\ pc[t] = "freesocket" => \A s \in todo[t] : conn[s] = "closing"

\* what comes behind the callbacks of a close
Closing == {"rcvplus", "sendplus", "freesocket"}

\* A callback is for a call in which its task waits, or for none, and only the
\* owner of a socket, or the tcpip thread for it, counts an event down.
Callbacks ==
  /\ \A r \in Runners : event[r].at # "none" =>
       /\ event[r].task \in Tasks =>
            /\ pc[event[r].task] = "event" /\ event[r].s \in Set(event[r].task)
       /\ r \in Tasks => event[r].task = r
       /\ event[r].then \in Closing =>
            /\ r = Tcpip /\ event[r].task \in Tasks /\ conn[event[r].s] = "closing"
            /\ todo[event[r].task] = {event[r].s}
  /\ \A r \in Runners : event[r].at = "set" =>
       /\ conn[event[r].s] # "none"
       /\ conn[event[r].s] = "closing" => event[r].task \in Tasks
       /\ r \in Tasks <=> event[r].evt = "RCVMINUS"
       /\ event[r].evt \in {"RCVMINUS", "SENDMINUS"} =>
            event[r].task \in Tasks /\ conn[event[r].s] = "open"
  /\ event[Tcpip].at # "none" =>
       \A t \in Tasks : event[t].at # "none" => event[Tcpip].task # t

\* the task counts as waiting for s
Counted(t, s) ==
  /\ s \in Set(t)
  /\ \/ pc[t] = "count" /\ s \notin todo[t]
     \/ pc[t] \in {"rescan", "wait"}
     \/ pc[t] = "uncount" /\ s \in todo[t]

Waiting ==
  \A s \in Socks :
    /\ \A t \in Tasks : Counted(t, s) => select_waiting[s] = 1
    /\ (\A t \in Tasks : ~Counted(t, s)) => select_waiting[s] = 0

\* A task that has looked at s, or will not look again, will hear of it.
Woken(t, s) ==
  sem[t] \/ \E r \in Runners : event[r].at = "walk" /\ event[r].s = s /\ t \in Ahead(r)

NoLost ==
  \A t \in Tasks : \A s \in Set(t) :
    /\ pc[t] = "wait" \/ (pc[t] = "rescan" /\ s \notin todo[t] /\ ~found[t])
    /\ Ready(t, s)
    => Woken(t, s)

\* A task that was woken, or found something, still has a socket that is ready.
Reasons ==
  \A t \in Tasks :
    \/ sem[t] /\ pc[t] \in {"count", "rescan", "wait"}
    \/ found[t]
    \/ pc[t] \in {"uncount", "unlink"} /\ ~timedout[t]
    \/ pc[t] = "scan"
    => \E s \in Set(t) : Ready(t, s)

\* events about to be counted: at most one of each kind for each socket
Plus(s)  == IF event[Tcpip].at = "set" /\ event[Tcpip].evt = "RCVPLUS" /\ event[Tcpip].s = s
            THEN 1 ELSE 0
Minus(s) == IF \E t \in Tasks : event[t].at = "set" /\ event[t].s = s THEN 1 ELSE 0

Matches ==
  \A s \in Socks :
    /\ conn[s] \in {"backlog", "alloc"} => early[s] + Plus(s) = recvmbox[s]
    /\ conn[s] = "open" => rcvevent[s] + Plus(s) - Minus(s) = recvmbox[s]
    /\ conn[s] = "alloc" => rcvevent[s] = 0

IInv == /\ TypeOK /\ ListOK /\ WalkOnList /\ Signals /\ Quiet /\ Loops /\ Callbacks
        /\ Waiting /\ NoLost /\ Reasons /\ Matches

-----------------------------------------------------------------------------
(* The list of select_cb. *)

\* An entry in the list stands at its place.
LEMMA PlaceOf ==
  ASSUME NEW x \in ToSet(select_cb_list)
  PROVE  Place(x) \in DOMAIN select_cb_list /\ select_cb_list[Place(x)] = x
BY DEF Place, ToSet

\* In a list without repetition, an index tells the place.
LEMMA PlaceAt ==
  ASSUME Distinct(select_cb_list), NEW i \in DOMAIN select_cb_list
  PROVE  Place(select_cb_list[i]) = i
<1>1. select_cb_list[i] \in ToSet(select_cb_list) BY DEF ToSet
<1> QED BY <1>1, PlaceOf DEF Distinct

\* lwip_select puts its entry in front.
LEMMA Prepended ==
  ASSUME NEW S, NEW q \in Seq(S), NEW x \in S
  PROVE  /\ <<x>> \o q \in Seq(S)
         /\ ToSet(<<x>> \o q) = ToSet(q) \cup {x}
         /\ Distinct(q) /\ x \notin ToSet(q) => Distinct(<<x>> \o q)
<1> DEFINE p == <<x>> \o q
<1>1. /\ p \in Seq(S) /\ Len(q) \in Nat /\ DOMAIN q = 1 .. Len(q)
      /\ DOMAIN p = 1 .. Len(q) + 1 /\ p[1] = x
      /\ \A i \in 1 .. Len(q) : p[i + 1] = q[i]
  OBVIOUS
<1>2. \A i \in DOMAIN p : i = 1 \/ (i - 1 \in DOMAIN q /\ p[i] = q[i - 1])
  BY <1>1
<1>3. \A i \in DOMAIN q : i + 1 \in DOMAIN p /\ p[i + 1] = q[i]
  BY <1>1
<1>4. ToSet(p) = ToSet(q) \cup {x}
  <2>1. ToSet(p) \subseteq ToSet(q) \cup {x} BY <1>2, <1>1 DEF ToSet
  <2>2. x \in ToSet(p) BY <1>1 DEF ToSet
  <2>3. ToSet(q) \subseteq ToSet(p) BY <1>3 DEF ToSet
  <2> QED BY <2>1, <2>2, <2>3
<1>5. ASSUME Distinct(q), x \notin ToSet(q) PROVE Distinct(p)
  <2>1. ASSUME NEW i \in DOMAIN p, NEW j \in DOMAIN p, p[i] = p[j] PROVE i = j
    <3>1. i = 1 => j = 1 BY <1>1, <1>2, <1>5, <2>1 DEF ToSet
    <3>2. j = 1 => i = 1 BY <1>1, <1>2, <1>5, <2>1 DEF ToSet
    <3>3. i # 1 /\ j # 1 => i - 1 = j - 1 BY <1>2, <1>5, <2>1 DEF Distinct
    <3> QED BY <1>1, <3>1, <3>2, <3>3
  <2> QED BY <2>1 DEF Distinct
<1> QED BY <1>1, <1>4, <1>5

\* lwip_select takes its entry out.
LEMMA Removed ==
  ASSUME NEW S, NEW q \in Seq(S), NEW k \in DOMAIN q, Distinct(q)
  PROVE  /\ RemoveAt(q, k) \in Seq(S)
         /\ ToSet(RemoveAt(q, k)) = ToSet(q) \ {q[k]}
         /\ Distinct(RemoveAt(q, k))
<1> DEFINE p == RemoveAt(q, k)
           n == Len(q)
<1>1. n \in Nat /\ DOMAIN q = 1 .. n /\ k \in 1 .. n /\ q \in [1 .. n -> S]
  OBVIOUS
<1>2. SubSeq(q, 1, k - 1) \in Seq(S) /\ Len(SubSeq(q, 1, k - 1)) = k - 1
      /\ \A i \in 1 .. k - 1 : SubSeq(q, 1, k - 1)[i] = q[i]
  BY <1>1
<1>3. SubSeq(q, k + 1, n) \in Seq(S) /\ Len(SubSeq(q, k + 1, n)) = n - k
      /\ \A i \in 1 .. n - k : SubSeq(q, k + 1, n)[i] = q[k + i]
  <2>1. \A i \in k + 1 .. n : q[i] \in S BY <1>1
  <2>2. SubSeq(q, k + 1, n) \in Seq(S) BY <1>1, <2>1
  <2>3. Len(SubSeq(q, k + 1, n)) = n - k BY <1>1
  <2>4. ASSUME NEW i \in 1 .. n - k PROVE SubSeq(q, k + 1, n)[i] = q[k + i]
    <3>1. SubSeq(q, k + 1, n)[i] = q[(k + 1) + i - 1] BY <1>1
    <3>2. (k + 1) + i - 1 = k + i BY <1>1
    <3> QED BY <3>1, <3>2
  <2> QED BY <2>2, <2>3, <2>4
<1>4. /\ p \in Seq(S) /\ DOMAIN p = 1 .. n - 1
      /\ \A i \in 1 .. n - 1 : p[i] = IF i < k THEN q[i] ELSE q[i + 1]
  <2> DEFINE a == SubSeq(q, 1, k - 1)
             b == SubSeq(q, k + 1, n)
  <2>1. a \in Seq(S) /\ Len(a) = k - 1 /\ \A i \in 1 .. k - 1 : a[i] = q[i] BY <1>2
  <2>2. b \in Seq(S) /\ Len(b) = n - k /\ \A i \in 1 .. n - k : b[i] = q[k + i] BY <1>3
  <2>3. p = a \o b BY DEF RemoveAt
  <2> HIDE DEF a, b, p
  <2>4. p \in Seq(S) /\ Len(p) = n - 1
    <3>1. a \in Seq(S) /\ b \in Seq(S) BY <2>1, <2>2
    <3>2. p \in Seq(S) /\ Len(p) = Len(a) + Len(b) BY <2>3, <3>1
    <3> QED BY <1>1, <2>1, <2>2, <3>2
  <2>5. ASSUME NEW i \in 1 .. n - 1 PROVE p[i] = IF i < k THEN q[i] ELSE q[i + 1]
    <3>1. CASE i < k BY <1>1, <2>1, <2>2, <2>3, <3>1
    <3>2. CASE ~(i < k)
      <4>1. p[i] = b[i - (k - 1)] BY <1>1, <2>1, <2>2, <2>3, <3>2
      <4>2. i - (k - 1) \in 1 .. n - k /\ k + (i - (k - 1)) = i + 1 BY <1>1, <3>2
      <4> QED BY <2>2, <3>2, <4>1, <4>2
    <3> QED BY <3>1, <3>2
  <2>6. DOMAIN p = 1 .. n - 1 BY <1>1, <2>4
  <2> QED BY <2>4, <2>5, <2>6
<1> HIDE DEF p
<1>5. \A i \in DOMAIN p : (IF i < k THEN i ELSE i + 1) \in DOMAIN q \ {k}
  BY <1>1, <1>4
<1>6. \A i \in DOMAIN q \ {k} : (IF i < k THEN i ELSE i - 1) \in DOMAIN p
                                /\ q[i] = p[IF i < k THEN i ELSE i - 1]
  BY <1>1, <1>4
<1>7. ToSet(p) = ToSet(q) \ {q[k]}
  <2>1. ASSUME NEW x \in ToSet(p) PROVE x \in ToSet(q) \ {q[k]}
    <3>1. PICK i \in DOMAIN p : x = p[i] BY <2>1 DEF ToSet
    <3>2. PICK j \in DOMAIN q \ {k} : x = q[j] BY <3>1, <1>4, <1>5
    <3> QED BY <3>2 DEF ToSet, Distinct
  <2>2. ASSUME NEW x \in ToSet(q) \ {q[k]} PROVE x \in ToSet(p)
    <3>1. PICK i \in DOMAIN q \ {k} : x = q[i] BY <2>2 DEF ToSet
    <3> QED BY <3>1, <1>6 DEF ToSet
  <2> QED BY <2>1, <2>2
<1>8. Distinct(p)
  <2>1. ASSUME NEW i \in DOMAIN p, NEW j \in DOMAIN p, p[i] = p[j] PROVE i = j
    <3>1. q[IF i < k THEN i ELSE i + 1] = q[IF j < k THEN j ELSE j + 1]
      BY <1>4, <2>1
    <3>2. (IF i < k THEN i ELSE i + 1) = (IF j < k THEN j ELSE j + 1)
      BY <3>1, <1>5 DEF Distinct
    <3> QED BY <3>2, <1>1, <1>4
  <2> QED BY <2>1 DEF Distinct
<1> QED BY <1>4, <1>7, <1>8 DEF p

-----------------------------------------------------------------------------
(* Types. *)

\* What a callback under way is made of.
LEMMA EventIs ==
  ASSUME NEW e \in EventRec
  PROVE  /\ e.at \in {"none", "set", "walk"}
         /\ e.at # "none" => e.s \in Socks /\ e.task \in Runners /\ e.then \in After
         /\ e.at = "set" => e.evt \in Evt
         /\ e.at = "walk" => e.scb \in Tasks
BY DEF EventRec, NoEvent

LEMMA OwnerIs ==
  /\ Tcpip \notin Tasks
  /\ \A t \in Tasks : Set(t) \subseteq Socks
  /\ \A t, u \in Tasks : \A s \in Socks : s \in Set(t) /\ s \in Set(u) => t = u
BY SetAssumption DEF Set

\* the entries behind scb
RestOf(scb) == {select_cb_list[i] : i \in Place(scb) + 1 .. Len(select_cb_list)}

\* event_callback starts with the first entry and has the others ahead of it.
LEMMA FirstIs ==
  ASSUME TypeOK, Distinct(select_cb_list)
  PROVE  IF First \in Tasks
         THEN First \in ToSet(select_cb_list)
              /\ ToSet(select_cb_list) = {First} \cup RestOf(First)
         ELSE ToSet(select_cb_list) = {}
<1> DEFINE q == select_cb_list
<1>1. q \in Seq(Tasks) /\ Len(q) \in Nat /\ DOMAIN q = 1 .. Len(q) BY DEF TypeOK
<1>2. CASE q = <<>>
  <2>1. First \notin Tasks BY <1>2, OwnerIs DEF First
  <2>2. ToSet(q) = {} BY <1>2 DEF ToSet
  <2> QED BY <2>1, <2>2
<1>3. CASE q # <<>>
  <2>1. 1 \in DOMAIN q /\ First = q[1] /\ q[1] \in Tasks BY <1>1, <1>3 DEF First
  <2>2. Place(First) = 1 BY <2>1, PlaceAt
  <2>3. \A i \in DOMAIN q : i = 1 \/ i \in 1 + 1 .. Len(q) BY <1>1
  <2>4. \A i \in 1 + 1 .. Len(q) : i \in DOMAIN q BY <1>1
  <2>5. ToSet(q) = {First} \cup RestOf(First)
    BY <2>1, <2>2, <2>3, <2>4 DEF ToSet, RestOf
  <2> QED BY <2>1, <2>5
<1> QED BY <1>2, <1>3

\* It goes on to the next entry, or to the first again, and leaves none out.
LEMMA WalkTo ==
  ASSUME TypeOK, Distinct(select_cb_list), WalkOnList,
         NEW r \in Runners, event[r].at = "walk",
         NEW scb, scb = IF r \in outdated THEN First ELSE Behind(event[r].scb)
  PROVE  IF scb \in Tasks
         THEN scb \in ToSet(select_cb_list) /\ Ahead(r) = {scb} \cup RestOf(scb)
         ELSE Ahead(r) = {}
<1> DEFINE q == select_cb_list
           x == event[r].scb
<1>1. q \in Seq(Tasks) /\ Len(q) \in Nat /\ DOMAIN q = 1 .. Len(q) BY DEF TypeOK
<1>2. CASE r \in outdated
  BY <1>2, FirstIs DEF Ahead
<1>3. CASE r \notin outdated
  <2>1. Place(x) \in DOMAIN q /\ q[Place(x)] = x BY <1>3, PlaceOf DEF WalkOnList
  <2>2. Ahead(r) = RestOf(x) BY <1>3 DEF Ahead, RestOf
  <2>3. CASE Place(x) = Len(q)
    <3>1. scb \notin Tasks BY <1>3, <2>3, OwnerIs DEF Behind
    <3>2. RestOf(x) = {} BY <1>1, <2>3 DEF RestOf
    <3> QED BY <2>2, <3>1, <3>2
  <2>4. CASE Place(x) # Len(q)
    <3> DEFINE k == Place(x) + 1
    <3>1. k \in DOMAIN q /\ scb = q[k] /\ q[k] \in Tasks BY <1>1, <1>3, <2>1, <2>4 DEF Behind
    <3>2. Place(scb) = k BY <3>1, PlaceAt
    <3>3. \A i \in k .. Len(q) : i = k \/ i \in k + 1 .. Len(q) BY <1>1, <2>1
    <3>4. \A i \in k + 1 .. Len(q) : i \in k .. Len(q) BY <1>1, <2>1
    <3>5. k \in k .. Len(q) BY <1>1, <2>1, <2>4
    <3>6. RestOf(x) = {q[k]} \cup RestOf(scb)
      <4>1. RestOf(x) = {q[i] : i \in k .. Len(q)} BY DEF RestOf
      <4>2. RestOf(scb) = {q[i] : i \in k + 1 .. Len(q)} BY <3>2 DEF RestOf
      <4> HIDE DEF k
      <4> QED BY <3>3, <3>4, <3>5, <4>1, <4>2
    <3>7. scb \in ToSet(q) BY <3>1 DEF ToSet
    <3> QED BY <2>2, <3>1, <3>6, <3>7
  <2> QED BY <2>3, <2>4
<1> QED BY <1>2, <1>3

LEMMA EventTyped ==
  /\ NoEvent \in EventRec
  /\ \A evt \in Evt, s \in Socks, t \in Runners, then \in After : Event(evt, s, t, then) \in EventRec
  /\ \A s \in Socks, t \in Runners, then \in After, scb \in Tasks :
       [at |-> "walk", s |-> s, task |-> t, then |-> then, scb |-> scb] \in EventRec
BY DEF EventRec, Event

\* The end of a callback: the runner is idle, or tells of the next event of a close.
LEMMA FinishEvent ==
  ASSUME TypeOK, NEW r \in Runners, event[r].at # "none", Finish(r)
  PROVE  /\ event' \in [Runners -> EventRec] /\ pc' \in [Tasks -> Places]
         /\ \A q \in Runners \ {r} : event'[q] = event[q]
         /\ event'[r] # event[r] /\ event'[r].at # "walk"
         /\ \/ /\ event'[r] = NoEvent /\ event[r].then \in After \ {"rcvplus", "sendplus"}
               /\ pc' = IF event[r].task \in Tasks
                        THEN [pc EXCEPT ![event[r].task] = event[r].then] ELSE pc
            \/ /\ UNCHANGED pc
               /\ \/ /\ event[r].then = "rcvplus"
                     /\ event'[r] = Event("RCVPLUS", event[r].s, event[r].task, "sendplus")
                  \/ /\ event[r].then = "sendplus"
                     /\ event'[r] = Event("SENDPLUS", event[r].s, event[r].task, "freesocket")
<1>1. PICK e \in EventRec : e = event[r] BY DEF TypeOK
<1>2. /\ e.at # "none" /\ e.s \in Socks /\ e.task \in Runners /\ e.then \in After
      /\ e # NoEvent
  BY <1>1, EventIs DEF NoEvent
<1>3. ASSUME NEW evt \in Evt, NEW then \in After, then # e.then,
             event' = [event EXCEPT ![r] = Event(evt, @.s, @.task, then)]
      PROVE  /\ event' \in [Runners -> EventRec]
             /\ event'[r] = Event(evt, e.s, e.task, then)
             /\ event'[r] # e /\ event'[r].at # "walk"
             /\ \A q \in Runners \ {r} : event'[q] = event[q]
  <2>1. PICK n \in EventRec : n = Event(evt, e.s, e.task, then) BY <1>2, EventTyped
  <2>2. n.then = then /\ n.at = "set" BY <2>1 DEF Event
  <2>3. event' = [event EXCEPT ![r] = n] BY <1>1, <1>3, <2>1
  <2> QED BY <1>3, <2>1, <2>2, <2>3 DEF TypeOK
<1>4. CASE e.then = "rcvplus"
  <2>1. CallsAgain(r, "RCVPLUS", "sendplus") BY <1>1, <1>4 DEF Finish
  <2>2. /\ event' = [event EXCEPT ![r] = Event("RCVPLUS", @.s, @.task, "sendplus")]
        /\ UNCHANGED pc
    BY <2>1 DEF CallsAgain
  <2>3. "RCVPLUS" \in Evt /\ "sendplus" \in After /\ "sendplus" # e.then
    BY <1>4 DEF Evt, After
  <2>4. /\ event' \in [Runners -> EventRec]
        /\ event'[r] = Event("RCVPLUS", e.s, e.task, "sendplus")
        /\ event'[r] # e /\ event'[r].at # "walk"
        /\ \A q \in Runners \ {r} : event'[q] = event[q]
    BY <1>3, <2>2, <2>3
  <2> QED BY <1>1, <1>4, <2>2, <2>4 DEF TypeOK
<1>5. CASE e.then = "sendplus"
  <2>1. CallsAgain(r, "SENDPLUS", "freesocket") BY <1>1, <1>5 DEF Finish
  <2>2. /\ event' = [event EXCEPT ![r] = Event("SENDPLUS", @.s, @.task, "freesocket")]
        /\ UNCHANGED pc
    BY <2>1 DEF CallsAgain
  <2>3. "SENDPLUS" \in Evt /\ "freesocket" \in After /\ "freesocket" # e.then
    BY <1>5 DEF Evt, After
  <2>4. /\ event' \in [Runners -> EventRec]
        /\ event'[r] = Event("SENDPLUS", e.s, e.task, "freesocket")
        /\ event'[r] # e /\ event'[r].at # "walk"
        /\ \A q \in Runners \ {r} : event'[q] = event[q]
    BY <1>3, <2>2, <2>3
  <2> QED BY <1>1, <1>5, <2>2, <2>4 DEF TypeOK
<1>6. CASE e.then \notin {"rcvplus", "sendplus"}
  <2>1. /\ pc' = IF event[r].task \in Tasks
                 THEN [pc EXCEPT ![event[r].task] = event[r].then] ELSE pc
        /\ event' = [event EXCEPT ![r] = NoEvent]
    BY <1>1, <1>6 DEF Finish
  <2>2. e.then \in Places BY <1>2, <1>6 DEF After, Places
  <2>3. pc' \in [Tasks -> Places] BY <1>1, <2>1, <2>2 DEF TypeOK
  <2>4. event' \in [Runners -> EventRec] /\ event'[r] = NoEvent
        /\ \A q \in Runners \ {r} : event'[q] = event[q]
    BY <2>1, EventTyped DEF TypeOK
  <2>5. NoEvent.at # "walk" BY DEF NoEvent
  <2> QED BY <1>1, <1>2, <1>6, <2>1, <2>3, <2>4, <2>5
<1> QED BY <1>4, <1>5, <1>6

LEMMA WalkTyped ==
  ASSUME TypeOK, NEW r \in Runners, event[r].at # "none", NEW scb, Walk(r, scb)
  PROVE  /\ sem' \in [Tasks -> BOOLEAN] /\ sem_signalled' \in [Tasks -> BOOLEAN]
         /\ event' \in [Runners -> EventRec] /\ pc' \in [Tasks -> Places]
         /\ outdated' \subseteq Runners
<1> DEFINE e == event[r]
<1>1. e \in EventRec BY DEF TypeOK
<1>2. e.s \in Socks /\ e.task \in Runners /\ e.then \in After BY <1>1, EventIs
<1>3. outdated' \subseteq Runners BY DEF Walk, TypeOK
<1>4. CASE scb \in Tasks
  <2>1. event' \in [Runners -> EventRec]
    <3>1. [at |-> "walk", s |-> e.s, task |-> e.task, then |-> e.then, scb |-> scb] \in EventRec
      BY <1>2, <1>4, EventTyped
    <3>2. event' = [event EXCEPT ![r] = [at |-> "walk", s |-> e.s, task |-> e.task,
                                         then |-> e.then, scb |-> scb]]
      BY <1>4 DEF Walk
    <3> HIDE DEF e
    <3> QED BY <3>1, <3>2 DEF TypeOK
  <2>2. /\ pc' = pc
        /\ \E b \in BOOLEAN : sem_signalled' = [sem_signalled EXCEPT ![scb] = @ \/ b]
        /\ \E b \in BOOLEAN : sem' = [sem EXCEPT ![scb] = @ \/ b]
    BY <1>4 DEF Walk, Visit
  <2>3. sem' \in [Tasks -> BOOLEAN] /\ sem_signalled' \in [Tasks -> BOOLEAN]
    BY <1>4, <2>2 DEF TypeOK
  <2> QED BY <1>3, <2>1, <2>2, <2>3 DEF TypeOK
<1>5. CASE scb \notin Tasks
  <2>1. Finish(r) /\ UNCHANGED <<sem, sem_signalled>> BY <1>5 DEF Walk
  <2> QED BY <1>3, <2>1, FinishEvent DEF TypeOK
<1> QED BY <1>4, <1>5

\* The two branches of event_callback, and what the second does to the socket.
LEMMA SetEventIs ==
  ASSUME NEW r \in Runners, SetEvent(r), NEW s, s = event[r].s
  PROVE  /\ event[r].at = "set"
         /\ UNCHANGED <<conn, recvmbox, lastdata, select_waiting, select_cb_list, todo, found,
                        timedout>>
         /\ conn[s] \in {"backlog", "alloc"} =>
              /\ Finish(r)
              /\ UNCHANGED <<rcvevent, sendevent, sem, sem_signalled, outdated>>
              /\ event[r].evt = "RCVPLUS" => early' = [early EXCEPT ![s] = @ + 1]
              /\ event[r].evt # "RCVPLUS" => early' = [early EXCEPT ![s] = @]
         /\ conn[s] \notin {"backlog", "alloc"} =>
              /\ Walk(r, IF select_waiting[s] = 0 THEN Tcpip ELSE First)
              /\ UNCHANGED early
              /\ event[r].evt = "RCVPLUS" => rcvevent' = [rcvevent EXCEPT ![s] = @ + 1]
              /\ event[r].evt = "RCVMINUS" => rcvevent' = [rcvevent EXCEPT ![s] = @ - 1]
              /\ event[r].evt \notin {"RCVPLUS", "RCVMINUS"} =>
                   rcvevent' = [rcvevent EXCEPT ![s] = @]
              /\ event[r].evt = "SENDPLUS" => sendevent' = [sendevent EXCEPT ![s] = TRUE]
              /\ event[r].evt = "SENDMINUS" => sendevent' = [sendevent EXCEPT ![s] = FALSE]
              /\ event[r].evt \notin {"SENDPLUS", "SENDMINUS"} =>
                   sendevent' = [sendevent EXCEPT ![s] = @]
<1> DEFINE e == event[r]
<1>1. /\ e.at = "set"
      /\ UNCHANGED <<conn, recvmbox, lastdata, select_waiting, select_cb_list, todo, found,
                     timedout>>
  BY DEF SetEvent
<1>2. ASSUME conn[s] \in {"backlog", "alloc"}
      PROVE  /\ Finish(r) /\ UNCHANGED <<rcvevent, sendevent, sem, sem_signalled, outdated>>
             /\ early' = [early EXCEPT ![s] = IF e.evt = "RCVPLUS" THEN @ + 1 ELSE @]
  BY <1>2 DEF SetEvent
<1>3. ASSUME conn[s] \notin {"backlog", "alloc"}
      PROVE  /\ Walk(r, IF select_waiting[s] = 0 THEN Tcpip ELSE First) /\ UNCHANGED early
             /\ rcvevent' = [rcvevent EXCEPT ![s] =
                  CASE e.evt = "RCVPLUS" -> @ + 1 [] e.evt = "RCVMINUS" -> @ - 1 [] OTHER -> @]
             /\ sendevent' = [sendevent EXCEPT ![s] =
                  CASE e.evt = "SENDPLUS" -> TRUE [] e.evt = "SENDMINUS" -> FALSE
                    [] OTHER -> @]
  BY <1>3 DEF SetEvent
<1> QED BY <1>1, <1>2, <1>3

LEMMA TypeCallback ==
  ASSUME TypeOK, NEW r \in Runners, CallbackStep(r)
  PROVE  TypeOK'
<1> DEFINE e == event[r]
<1>1. e \in EventRec BY DEF TypeOK
<1>2. CASE SetEvent(r)
  <2>1. e.at = "set" /\ e.s \in Socks BY <1>1, <1>2, EventIs, SetEventIs
  <2>2. CASE conn[e.s] \in {"backlog", "alloc"}
    <3>1. Finish(r) BY <1>2, <2>2, SetEventIs
    <3>3. event' \in [Runners -> EventRec] /\ pc' \in [Tasks -> Places]
      BY <2>1, <3>1, FinishEvent
    <3>4. early' \in [Socks -> Nat]
      <4>1. early \in [Socks -> Nat] BY DEF TypeOK
      <4>2. \E n \in Nat : early' = [early EXCEPT ![e.s] = n]
        <5>1. early[e.s] \in Nat /\ early[e.s] + 1 \in Nat BY <2>1, <4>1
        <5>2. \/ early' = [early EXCEPT ![e.s] = early[e.s] + 1]
              \/ early' = [early EXCEPT ![e.s] = early[e.s]]
          BY <1>2, <2>2, SetEventIs
        <5> QED BY <5>1, <5>2
      <4> QED BY <2>1, <4>1, <4>2
    <3> QED BY <1>2, <2>2, <3>3, <3>4, SetEventIs DEF TypeOK
  <2>3. CASE conn[e.s] \notin {"backlog", "alloc"}
    <3>1. Walk(r, IF select_waiting[e.s] = 0 THEN Tcpip ELSE First)
      BY <1>2, <2>3, SetEventIs
    <3>2. rcvevent' \in [Socks -> Int] /\ sendevent' \in [Socks -> BOOLEAN]
      <4>1. rcvevent \in [Socks -> Int] /\ sendevent \in [Socks -> BOOLEAN] BY DEF TypeOK
      <4>2. rcvevent' \in [Socks -> Int]
        <5>1. rcvevent[e.s] \in Int BY <2>1, <4>1
        <5>2. \/ rcvevent' = [rcvevent EXCEPT ![e.s] = rcvevent[e.s] + 1]
              \/ rcvevent' = [rcvevent EXCEPT ![e.s] = rcvevent[e.s] - 1]
              \/ rcvevent' = [rcvevent EXCEPT ![e.s] = rcvevent[e.s]]
          BY <1>2, <2>3, SetEventIs
        <5>3. rcvevent[e.s] + 1 \in Int /\ rcvevent[e.s] - 1 \in Int BY <5>1
        <5> HIDE DEF e
        <5> QED BY <2>1, <4>1, <5>1, <5>2, <5>3
      <4>3. sendevent' \in [Socks -> BOOLEAN]
        <5>1. \/ sendevent' = [sendevent EXCEPT ![e.s] = TRUE]
              \/ sendevent' = [sendevent EXCEPT ![e.s] = FALSE]
              \/ sendevent' = [sendevent EXCEPT ![e.s] = sendevent[e.s]]
          BY <1>2, <2>3, SetEventIs
        <5> HIDE DEF e
        <5> QED BY <2>1, <4>1, <5>1
      <4> QED BY <4>2, <4>3
    <3>3. UNCHANGED <<conn, early, recvmbox, lastdata, select_waiting, select_cb_list, todo,
                      found, timedout>>
      BY <1>2, <2>3, SetEventIs
    <3> QED BY <2>1, <3>1, <3>2, <3>3, WalkTyped DEF TypeOK
  <2> QED BY <2>2, <2>3
<1>3. CASE NextEntry(r)
  BY <1>3, WalkTyped DEF NextEntry, TypeOK, sockets
<1> QED BY <1>2, <1>3 DEF CallbackStep

\* What each task and the tcpip thread do to the socket layer keeps the types.
LEMMA TypeStack ==
  ASSUME TypeOK, Stack
  PROVE  TypeOK'
<1>1. ASSUME NEW s \in Socks, NewConn(s) PROVE TypeOK'
  BY <1>1, SetAssumption DEF TypeOK, NewConn, selects, locals
<1>2. ASSUME NEW s \in Socks, Deliver(s) PROVE TypeOK'
  <2>1. Event("RCVPLUS", s, Tcpip, "idle") \in EventRec
    BY EventTyped DEF Runners, After, Evt
  <2>2. event' \in [Runners -> EventRec]
    BY <1>2, <2>1 DEF Deliver, CallBack, TypeOK
  <2>3. recvmbox' \in [Socks -> 0 .. MaxMsgs]
    BY <1>2, SetAssumption DEF Deliver, TypeOK
  <2> QED BY <1>2, <2>2, <2>3 DEF Deliver, TypeOK, selects, locals
<1>3. ASSUME NEW s \in Socks, Sent(s) PROVE TypeOK'
  <2>1. Event("SENDPLUS", s, Tcpip, "idle") \in EventRec
    BY EventTyped DEF Runners, After, Evt
  <2>2. event' \in [Runners -> EventRec]
    BY <1>3, <2>1 DEF Sent, CallBack, TypeOK
  <2> QED BY <1>3, <2>2 DEF Sent, TypeOK, sockets, selects, locals
<1> QED BY <1>1, <1>2, <1>3 DEF Stack

LEMMA TypeUse ==
  ASSUME TypeOK, NEW t \in Tasks, Use(t)
  PROVE  TypeOK'
<1> PICK s \in Socks :
      \/ AllocSocket(t, s) \/ Adopt(t, s)
      \/ Recv(t, s) \/ Received(t, s) \/ Write(t, s) \/ Written(t, s)
      \/ Close(t, s) \/ FreeSocket(t, s)
  BY DEF Use
<1> USE DEF At, Goto, Ends, Call, Places
<1> t \in Runners BY DEF Runners
<1>1. CASE AllocSocket(t, s)
  BY <1>1 DEF AllocSocket, TypeOK
<1>2. CASE Adopt(t, s)
  <2>1. early' \in [Socks -> Nat] BY <1>2 DEF Adopt, TypeOK
  <2>2. rcvevent[s] + early[s] \in Int BY DEF TypeOK
  <2>3. rcvevent' \in [Socks -> Int] BY <1>2, <2>2 DEF Adopt, TypeOK
  <2> QED BY <1>2, <2>1, <2>3 DEF Adopt, TypeOK, selects
<1>3. CASE Recv(t, s)
  <2>1. Event("RCVMINUS", s, t, "received") \in EventRec
    BY EventTyped DEF After, Evt
  <2>2. event' \in [Runners -> EventRec]
    BY <1>3, <2>1 DEF Recv, CallBack, TypeOK
  <2>3. recvmbox' \in [Socks -> 0 .. MaxMsgs]
    <3>1. recvmbox \in [Socks -> 0 .. MaxMsgs] /\ MaxMsgs \in Nat
      BY SetAssumption DEF TypeOK
    <3>2. \/ recvmbox' = recvmbox
          \/ recvmbox[s] > 0 /\ recvmbox' = [recvmbox EXCEPT ![s] = recvmbox[s] - 1]
      BY <1>3 DEF Recv
    <3>3. recvmbox[s] > 0 => recvmbox[s] - 1 \in 0 .. MaxMsgs BY <3>1
    <3> QED BY <3>1, <3>2, <3>3
  <2>4. lastdata' \in [Socks -> BOOLEAN] BY <1>3 DEF Recv, TypeOK
  <2>5. pc' \in [Tasks -> Places] /\ todo' \in [Tasks -> SUBSET Socks]
    <3>1. \/ UNCHANGED <<pc, todo>>
          \/ pc' = [pc EXCEPT ![t] = "event"] /\ todo' = [todo EXCEPT ![t] = {s}]
      BY <1>3 DEF Recv
    <3>2. {s} \in SUBSET Socks /\ "event" \in Places BY DEF Places
    <3>3. pc \in [Tasks -> Places] /\ todo \in [Tasks -> SUBSET Socks] BY DEF TypeOK
    <3> QED BY ONLY <3>1, <3>2, <3>3
  <2>6. UNCHANGED <<conn, early, rcvevent, sendevent, selects, found, timedout, outdated>>
    BY <1>3 DEF Recv
  <2> QED BY <2>2, <2>3, <2>4, <2>5, <2>6 DEF TypeOK, selects
<1>4. CASE Received(t, s)
  <2>1. lastdata' \in [Socks -> BOOLEAN] BY <1>4 DEF Received, TypeOK
  <2> QED BY <1>4, <2>1 DEF Received, TypeOK, selects
<1>5. CASE Write(t, s)
  <2>1. Event("SENDMINUS", s, t, "written") \in EventRec
    BY EventTyped DEF After, Evt
  <2>2. event' \in [Runners -> EventRec]
    BY <1>5, <2>1 DEF Write, CallBack, TypeOK, Runners
  <2> QED BY <1>5, <2>2 DEF Write, TypeOK, sockets, selects
<1>6. CASE Written(t, s)
  BY <1>6 DEF Written, TypeOK, sockets, selects
<1>7. CASE Close(t, s)
  <2>1. Event("ERROR", s, t, "rcvplus") \in EventRec
    BY EventTyped DEF After, Evt
  <2>2. event' \in [Runners -> EventRec]
    BY <1>7, <2>1 DEF Close, CallBack, TypeOK, Runners
  <2> QED BY <1>7, <2>2 DEF Close, TypeOK, selects
<1>8. CASE FreeSocket(t, s)
  BY <1>8, SetAssumption DEF FreeSocket, TypeOK, selects
<1> QED BY <1>1, <1>2, <1>3, <1>4, <1>5, <1>6, <1>7, <1>8

\* A round of a loop.
LEMMA VisitedTyped ==
  ASSUME TypeOK, NEW t \in Tasks, NEW s, NEW place \in Places, Visited(t, s, place)
  PROVE  pc' \in [Tasks -> Places] /\ todo' \in [Tasks -> SUBSET Socks]
<1>1. Set(t) \in SUBSET Socks BY OwnerIs
<1>2. todo[t] \ {s} \in SUBSET Socks BY DEF TypeOK
<1>3. \/ pc' = [pc EXCEPT ![t] = place] /\ todo' = [todo EXCEPT ![t] = Set(t)]
      \/ pc' = pc /\ todo' = [todo EXCEPT ![t] = todo[t] \ {s}]
  BY DEF Visited, Loop, Goto
<1> QED BY <1>1, <1>2, <1>3 DEF TypeOK

LEMMA TypeSelect ==
  ASSUME TypeOK, ListOK, Loops, Waiting, NEW t \in Tasks,
         Select(t) \/ Selecting(t) \/ Timeout(t)
  PROVE  TypeOK'
<1> USE DEF At, Goto
<1> Set(t) \in SUBSET Socks BY OwnerIs
<1>1. CASE Select(t)
  BY <1>1 DEF Select, Places, TypeOK, sockets, selects
<1>2. CASE Insert(t)
  <2>1. select_cb_list' \in Seq(Tasks) BY <1>2, Prepended DEF Insert, TypeOK
  <2> QED BY <1>2, <2>1 DEF Insert, Changed, Loop, Places, TypeOK, sockets
<1>3. ASSUME NEW s \in Socks, Count(t, s) PROVE TypeOK'
  <2>1. select_waiting' \in [Socks -> Nat] BY <1>3 DEF Count, TypeOK
  <2>2. Visited(t, s, "rescan") BY <1>3 DEF Count
  <2>3. pc' \in [Tasks -> Places] /\ todo' \in [Tasks -> SUBSET Socks]
    BY <2>2, VisitedTyped DEF Places
  <2> QED BY <1>3, <2>1, <2>3 DEF Count, TypeOK, sockets
<1>4. ASSUME NEW s \in Socks, Rescan(t, s) PROVE TypeOK'
  <2>1. found' \in [Tasks -> BOOLEAN] BY <1>4 DEF Rescan, TypeOK, Ready
  <2>2. Visited(t, s, IF found'[t] THEN "uncount" ELSE "wait") BY <1>4 DEF Rescan
  <2>3. pc' \in [Tasks -> Places] /\ todo' \in [Tasks -> SUBSET Socks]
    BY <2>2, VisitedTyped DEF Places
  <2> QED BY <1>4, <2>1, <2>3 DEF Rescan, TypeOK, sockets, selects
<1>5. CASE SemTaken(t)
  BY <1>5 DEF SemTaken, Places, TypeOK, sockets
<1>6. CASE Timeout(t)
  BY <1>6 DEF Timeout, Places, TypeOK, sockets, selects
<1>7. ASSUME NEW s \in Socks, Uncount(t, s) PROVE TypeOK'
  <2>1. s \in Set(t) /\ pc[t] = "uncount" /\ s \in todo[t] BY <1>7 DEF Uncount, Visited, Loops
  <2>2. select_waiting[s] = 1 BY <2>1 DEF Waiting, Counted
  <2>3. select_waiting' \in [Socks -> Nat] BY <1>7, <2>2 DEF Uncount, TypeOK
  <2>4. Visited(t, s, "unlink") BY <1>7 DEF Uncount
  <2>5. pc' \in [Tasks -> Places] /\ todo' \in [Tasks -> SUBSET Socks]
    BY <2>4, VisitedTyped DEF Places
  <2> QED BY <1>7, <2>3, <2>5 DEF Uncount, TypeOK, sockets
<1>8. CASE Unlink(t)
  <2>1. pc[t] = "unlink" BY <1>8 DEF Unlink
  <2>2. t \in ToSet(select_cb_list) BY <2>1 DEF ListOK, Listed
  <2>3. select_cb_list' \in Seq(Tasks)
    BY <1>8, <2>2, PlaceOf, Removed DEF Unlink, ListOK, TypeOK
  <2> QED BY <1>8, <2>3 DEF Unlink, Leave, Changed, Places, TypeOK, sockets
<1>9. CASE Scan(t)
  BY <1>9 DEF Scan, Places, TypeOK, sockets, selects
<1> QED BY <1>1, <1>2, <1>3, <1>4, <1>5, <1>6, <1>7, <1>8, <1>9 DEF Selecting

-----------------------------------------------------------------------------
(* Steps inside and outside of lwip_select. *)

Selects(t) == Select(t) \/ Selecting(t) \/ Timeout(t)

Outside == \/ Stack
           \/ \E r \in Runners : CallbackStep(r)
           \/ \E t \in Tasks : Use(t)

LEMMA NextIs ==
  Next <=> Outside \/ \E t \in Tasks : Selects(t)
BY DEF Next, Outside, Selects

\* A callback goes to an entry of the list or is over.
LEMMA CallbackIs ==
  ASSUME TypeOK, ListOK, WalkOnList, NEW r \in Runners, CallbackStep(r)
  PROVE  \/ /\ event[r].at = "set" /\ conn[event[r].s] \in {"backlog", "alloc"}
            /\ Finish(r) /\ UNCHANGED <<sem, sem_signalled, outdated>>
         \/ \E scb :
              /\ event[r].at \in {"set", "walk"}
              /\ event[r].at = "set" => conn[event[r].s] \notin {"backlog", "alloc"}
              /\ Walk(r, scb)
              /\ scb \in Tasks => scb \in ToSet(select_cb_list)
              /\ event[r].at = "walk" =>
                   Ahead(r) = IF scb \in Tasks THEN {scb} \cup RestOf(scb) ELSE {}
              /\ event[r].at = "set" /\ select_waiting[event[r].s] # 0 =>
                   ToSet(select_cb_list) = IF scb \in Tasks THEN {scb} \cup RestOf(scb) ELSE {}
<1>1. CASE SetEvent(r)
  <2>1. CASE conn[event[r].s] \in {"backlog", "alloc"} BY <1>1, <2>1, SetEventIs
  <2>2. CASE conn[event[r].s] \notin {"backlog", "alloc"}
    <3> DEFINE scb == IF select_waiting[event[r].s] = 0 THEN Tcpip ELSE First
    <3>1. event[r].at = "set" /\ Walk(r, scb) BY <1>1, <2>2, SetEventIs
    <3>2. scb \in Tasks => scb = First BY OwnerIs
    <3>3. scb \in Tasks => scb \in ToSet(select_cb_list) BY <3>2, FirstIs DEF ListOK
    <3>4. select_waiting[event[r].s] # 0 =>
            ToSet(select_cb_list) = IF scb \in Tasks THEN {scb} \cup RestOf(scb) ELSE {}
      BY FirstIs DEF ListOK
    <3> HIDE DEF scb
    <3> QED BY <2>2, <3>1, <3>3, <3>4
  <2> QED BY <2>1, <2>2
<1>2. CASE NextEntry(r)
  <2> DEFINE scb == IF r \in outdated THEN First ELSE Behind(event[r].scb)
  <2>1. event[r].at = "walk" /\ Walk(r, scb) BY <1>2 DEF NextEntry
  <2>2. /\ scb \in Tasks => scb \in ToSet(select_cb_list)
        /\ Ahead(r) = IF scb \in Tasks THEN {scb} \cup RestOf(scb) ELSE {}
    BY <2>1, WalkTo DEF ListOK
  <2> HIDE DEF scb
  <2>3. event[r].at # "set" BY <2>1
  <2>4. /\ event[r].at \in {"set", "walk"}
        /\ event[r].at = "set" => conn[event[r].s] \notin {"backlog", "alloc"}
        /\ Walk(r, scb)
        /\ scb \in Tasks => scb \in ToSet(select_cb_list)
        /\ event[r].at = "walk" =>
             Ahead(r) = IF scb \in Tasks THEN {scb} \cup RestOf(scb) ELSE {}
        /\ event[r].at = "set" /\ select_waiting[event[r].s] # 0 =>
             ToSet(select_cb_list) = IF scb \in Tasks THEN {scb} \cup RestOf(scb) ELSE {}
    <3>1. Ahead(r) = IF scb \in Tasks THEN {scb} \cup RestOf(scb) ELSE {} BY <2>2
    <3> QED BY <2>1, <2>2, <2>3, <3>1
  <2> QED BY ONLY <2>4
<1> QED BY <1>1, <1>2 DEF CallbackStep

\* The end of a callback.
LEMMA FinishIs ==
  ASSUME TypeOK, Callbacks, NEW r \in Runners, event[r].at # "none", Finish(r)
  PROVE  \A u \in Tasks : pc'[u] # pc[u] =>
           u = event[r].task /\ pc[u] = "event" /\ pc'[u] = event[r].then /\ pc'[u] \in After
<1>1. event[r].then \in After BY EventIs DEF TypeOK
<1>2. CASE UNCHANGED pc BY <1>2
<1>3. CASE /\ event'[r] = NoEvent
           /\ pc' = IF event[r].task \in Tasks
                    THEN [pc EXCEPT ![event[r].task] = event[r].then] ELSE pc
  <2>1. event[r].task \in Tasks => pc[event[r].task] = "event" BY DEF Callbacks
  <2>2. \A u \in Tasks : pc'[u] # pc[u] => u = event[r].task /\ pc'[u] = event[r].then
    BY <1>3 DEF TypeOK
  <2> QED BY <1>1, <2>1, <2>2
<1> QED BY <1>2, <1>3, FinishEvent

\* What happens outside of lwip_select does not move a task that is inside.
LEMMA OutsideIs ==
  ASSUME TypeOK, ListOK, WalkOnList, Callbacks, Outside
  PROVE  /\ UNCHANGED <<select_cb_list, found, timedout>>
         /\ \A u \in Tasks : pc[u] \in Inside \/ pc'[u] \in Inside =>
              pc'[u] = pc[u] /\ todo'[u] = todo[u]
<1>1. CASE Stack
  BY <1>1 DEF Stack, NewConn, Deliver, Sent, selects, locals
<1>2. ASSUME NEW r \in Runners, CallbackStep(r)
      PROVE  /\ UNCHANGED <<select_cb_list, found, timedout, todo>>
             /\ \A u \in Tasks : pc[u] \in Inside \/ pc'[u] \in Inside => pc'[u] = pc[u]
  <2>1. UNCHANGED <<select_cb_list, found, timedout, todo>>
    BY <1>2 DEF CallbackStep, SetEvent, NextEntry
  <2>2. event[r].at # "none" /\ (Finish(r) \/ UNCHANGED pc)
    BY <1>2, CallbackIs DEF Walk
  <2>3. After \cap Inside = {} /\ "event" \notin Inside BY DEF After, Inside
  <2> QED BY <2>1, <2>2, <2>3, FinishIs
<1>3. ASSUME NEW t \in Tasks, Use(t)
      PROVE  /\ UNCHANGED <<select_cb_list, found, timedout>>
             /\ \A u \in Tasks : pc[u] \in Inside \/ pc'[u] \in Inside =>
                  pc'[u] = pc[u] /\ todo'[u] = todo[u]
  <2> PICK s \in Socks :
        \/ AllocSocket(t, s) \/ Adopt(t, s)
        \/ Recv(t, s) \/ Received(t, s) \/ Write(t, s) \/ Written(t, s)
        \/ Close(t, s) \/ FreeSocket(t, s)
    BY <1>3 DEF Use
  <2> USE DEF At, Goto, Ends, Call, selects
  <2>1. UNCHANGED <<select_cb_list, found, timedout>>
    BY DEF AllocSocket, Adopt, Recv, Received, Write, Written, Close, FreeSocket
  <2>2. /\ pc[t] \in {"idle", "alloc", "received", "written", "freesocket"}
        /\ \/ UNCHANGED <<pc, todo>>
           \/ \E place \in {"idle", "alloc", "event"}, todos \in SUBSET Socks :
                pc' = [pc EXCEPT ![t] = place] /\ todo' = [todo EXCEPT ![t] = todos]
    <3>1. {} \in SUBSET Socks /\ {s} \in SUBSET Socks OBVIOUS
    <3>2. CASE AllocSocket(t, s) BY <3>1, <3>2 DEF AllocSocket
    <3>3. CASE Adopt(t, s) BY <3>1, <3>3 DEF Adopt
    <3>4. CASE Recv(t, s) BY <3>1, <3>4 DEF Recv
    <3>5. CASE Received(t, s) BY <3>1, <3>5 DEF Received
    <3>6. CASE Write(t, s) BY <3>1, <3>6 DEF Write
    <3>7. CASE Written(t, s) BY <3>1, <3>7 DEF Written
    <3>8. CASE Close(t, s) BY <3>1, <3>8 DEF Close
    <3>9. CASE FreeSocket(t, s) BY <3>1, <3>9 DEF FreeSocket
    <3> QED BY <3>2, <3>3, <3>4, <3>5, <3>6, <3>7, <3>8, <3>9
  <2> QED BY <2>1, <2>2 DEF Inside, TypeOK
<1> QED BY <1>1, <1>2, <1>3 DEF Outside

\* A step of a task in lwip_select is its own.
LEMMA SelectsIs ==
  ASSUME TypeOK, NEW t \in Tasks, Selects(t)
  PROVE  /\ UNCHANGED <<sockets, event>>
         /\ \A u \in Tasks \ {t} :
              /\ pc'[u] = pc[u] /\ todo'[u] = todo[u]
              /\ found'[u] = found[u] /\ timedout'[u] = timedout[u]
              /\ sem'[u] = sem[u] /\ sem_signalled'[u] = sem_signalled[u]
         /\ pc'[t] # "event" /\ pc[t] # "event"
<1> DEFINE Goal ==
           /\ UNCHANGED <<sockets, event>>
           /\ \A u \in Tasks \ {t} :
                /\ pc'[u] = pc[u] /\ todo'[u] = todo[u]
                /\ found'[u] = found[u] /\ timedout'[u] = timedout[u]
                /\ sem'[u] = sem[u] /\ sem_signalled'[u] = sem_signalled[u]
           /\ pc'[t] # "event" /\ pc[t] # "event"
<1> USE DEF At, Goto, Loop, TypeOK, selects
<1>1. CASE Select(t) BY <1>1 DEF Select
<1>2. CASE Insert(t) BY <1>2 DEF Insert
<1>3. ASSUME NEW s \in Socks, NEW place, Visited(t, s, place), place # "event", pc[t] # "event"
      PROVE  /\ \A u \in Tasks \ {t} : pc'[u] = pc[u] /\ todo'[u] = todo[u]
             /\ pc'[t] # "event"
  BY <1>3 DEF Visited
<1>4. ASSUME NEW s \in Socks, Count(t, s) PROVE Goal
  <2>1. Visited(t, s, "rescan") /\ pc[t] = "count" BY <1>4 DEF Count
  <2>2. UNCHANGED <<sockets, event, found, timedout, sem, sem_signalled>> BY <1>4 DEF Count
  <2> QED BY <1>3, <2>1, <2>2
<1>5. ASSUME NEW s \in Socks, Rescan(t, s) PROVE Goal
  <2>1. Visited(t, s, IF found'[t] THEN "uncount" ELSE "wait") /\ pc[t] = "rescan"
    BY <1>5 DEF Rescan
  <2>2. UNCHANGED <<sockets, event, timedout, sem, sem_signalled>> BY <1>5 DEF Rescan
  <2>3. \A u \in Tasks \ {t} : found'[u] = found[u] BY <1>5 DEF Rescan
  <2> QED BY <1>3, <2>1, <2>2, <2>3
<1>6. CASE SemTaken(t) BY <1>6 DEF SemTaken
<1>7. CASE Timeout(t) BY <1>7 DEF Timeout
<1>8. ASSUME NEW s \in Socks, Uncount(t, s) PROVE Goal
  <2>1. Visited(t, s, "unlink") /\ pc[t] = "uncount" BY <1>8 DEF Uncount
  <2>2. UNCHANGED <<sockets, event, found, timedout, sem, sem_signalled>> BY <1>8 DEF Uncount
  <2> QED BY <1>3, <2>1, <2>2
<1>9. CASE Unlink(t) BY <1>9 DEF Unlink, Leave
<1>10. CASE Scan(t) BY <1>10 DEF Scan
<1> QED BY <1>1, <1>2, <1>4, <1>5, <1>6, <1>7, <1>8, <1>9, <1>10 DEF Selects, Selecting

\* The round of the loop at one entry.
LEMMA VisitIs ==
  ASSUME TypeOK, NEW r \in Runners, NEW scb \in Tasks, Walk(r, scb)
  PROVE  /\ UNCHANGED pc /\ outdated' = outdated \ {r}
         /\ event' = [event EXCEPT ![r] = [at |-> "walk", s |-> event[r].s,
              task |-> event[r].task, then |-> event[r].then, scb |-> scb]]
         /\ \A u \in Tasks \ {scb} : sem'[u] = sem[u] /\ sem_signalled'[u] = sem_signalled[u]
         /\ sem_signalled'[scb] <=> sem_signalled[scb] \/ Wakes(scb, event[r].s)
         /\ sem'[scb] <=> sem[scb] \/ (~sem_signalled[scb] /\ Wakes(scb, event[r].s))
<1>1. /\ UNCHANGED pc /\ outdated' = outdated \ {r}
      /\ event' = [event EXCEPT ![r] = [at |-> "walk", s |-> event[r].s,
           task |-> event[r].task, then |-> event[r].then, scb |-> scb]]
      /\ Visit(scb, event[r].s)
  BY DEF Walk
<1> HIDE DEF Wakes
<1>2. /\ sem_signalled' = [sem_signalled EXCEPT ![scb] =
            @ \/ (~sem_signalled[scb] /\ Wakes(scb, event[r].s))]
      /\ sem' = [sem EXCEPT ![scb] = @ \/ (~sem_signalled[scb] /\ Wakes(scb, event[r].s))]
  BY <1>1 DEF Visit
<1> QED BY <1>1, <1>2 DEF TypeOK

LEMMA TypeNext ==
  ASSUME TypeOK, ListOK, Loops, Waiting, Next
  PROVE  TypeOK'
BY NextIs, TypeStack, TypeCallback, TypeUse, TypeSelect DEF Outside, Selects

-----------------------------------------------------------------------------
(* The list and the select_cb. *)

LEMMA ListNext ==
  ASSUME TypeOK, ListOK, WalkOnList, Callbacks, Next
  PROVE  ListOK'
<1>1. CASE Outside
  BY <1>1, OutsideIs DEF ListOK, Listed, Inside
<1>2. ASSUME NEW t \in Tasks, Selects(t) PROVE ListOK'
  <2> USE DEF At, Goto, Loop
  <2>1. \A u \in Tasks \ {t} : pc'[u] = pc[u] BY <1>2, SelectsIs
  <2>2. CASE Insert(t)
    <3>1. /\ pc[t] = "insert" /\ pc'[t] = "count"
          /\ select_cb_list' = <<t>> \o select_cb_list
      BY <2>2 DEF Insert, TypeOK
    <3>2. t \notin ToSet(select_cb_list) BY <3>1 DEF ListOK, Listed
    <3>3. select_cb_list \in Seq(Tasks) BY DEF TypeOK
    <3>4. Distinct(select_cb_list') /\ ToSet(select_cb_list') = ToSet(select_cb_list) \cup {t}
      BY <3>1, <3>2, <3>3, Prepended DEF ListOK
    <3> QED BY <2>1, <3>1, <3>4 DEF ListOK, Listed
  <2>3. CASE Unlink(t)
    <3>1. /\ pc[t] = "unlink" /\ pc'[t] \in {"idle", "scan"}
          /\ select_cb_list' = RemoveAt(select_cb_list, Place(t))
      BY <2>3 DEF Unlink, Leave, TypeOK
    <3>2. t \in ToSet(select_cb_list) BY <3>1 DEF ListOK, Listed
    <3>3. Place(t) \in DOMAIN select_cb_list /\ select_cb_list[Place(t)] = t BY <3>2, PlaceOf
    <3>4. select_cb_list \in Seq(Tasks) BY DEF TypeOK
    <3>5. Distinct(select_cb_list') /\ ToSet(select_cb_list') = ToSet(select_cb_list) \ {t}
      BY <3>1, <3>3, <3>4, Removed DEF ListOK
    <3> QED BY <2>1, <3>1, <3>5 DEF ListOK, Listed
  <2>4. CASE \/ Select(t) \/ SemTaken(t) \/ Scan(t) \/ Timeout(t)
             \/ \E s \in Socks : Count(t, s) \/ Rescan(t, s) \/ Uncount(t, s)
    <3>1. UNCHANGED select_cb_list
      BY <2>4 DEF Select, SemTaken, Scan, Timeout, Count, Rescan, Uncount, selects
    <3>2. pc[t] \in Listed <=> pc'[t] \in Listed
      BY <2>4 DEF Select, SemTaken, Scan, Timeout, Count, Rescan, Uncount, Visited, Listed, TypeOK
    <3> QED BY <2>1, <3>1, <3>2 DEF ListOK
  <2> QED BY <1>2, <2>2, <2>3, <2>4 DEF Selects, Selecting
<1> QED BY <1>1, <1>2, NextIs

LEMMA WalkOnListNext ==
  ASSUME TypeOK, ListOK, WalkOnList, Callbacks, Next
  PROVE  WalkOnList'
<1>2. CASE Stack
  <2>1. UNCHANGED <<select_cb_list, outdated>> /\ (\A q \in Tasks : event'[q] = event[q])
        /\ (event'[Tcpip] = event[Tcpip] \/ event'[Tcpip].at = "set")
    BY <1>2, OwnerIs DEF Stack, NewConn, Deliver, Sent, selects, CallBack, Event, TypeOK, Runners
  <2> QED BY <2>1 DEF WalkOnList, Runners
<1>3. ASSUME NEW r \in Runners, CallbackStep(r) PROVE WalkOnList'
  <2>1. UNCHANGED select_cb_list BY <1>3 DEF CallbackStep, SetEvent, NextEntry
  <2>2. CASE Finish(r) /\ outdated' \in {outdated, outdated \ {r}}
    <3>1. event'[r].at # "walk" /\ \A q \in Runners \ {r} : event'[q] = event[q]
      BY <1>3, <2>2, CallbackIs, FinishEvent
    <3> QED BY <2>1, <2>2, <3>1 DEF WalkOnList
  <2>3. ASSUME NEW scb \in Tasks, Walk(r, scb), scb \in ToSet(select_cb_list)
        PROVE  WalkOnList'
    <3>1. event'[r].scb = scb BY <2>3, VisitIs DEF TypeOK
    <3>2. \A q \in Runners \ {r} : event'[q] = event[q] BY <2>3, VisitIs DEF TypeOK
    <3>3. outdated' = outdated \ {r} BY <2>3, VisitIs
    <3> QED BY <2>1, <2>3, <3>1, <3>2, <3>3 DEF WalkOnList
  <2>4. \/ Finish(r) /\ outdated' \in {outdated, outdated \ {r}}
        \/ \E scb \in Tasks : Walk(r, scb) /\ scb \in ToSet(select_cb_list)
    BY <1>3, CallbackIs DEF Walk
  <2> QED BY <2>2, <2>3, <2>4
<1>4. ASSUME NEW t \in Tasks, Use(t) PROVE WalkOnList'
  <2>1. UNCHANGED <<select_cb_list, outdated>>
        /\ \A q \in Runners : event'[q] = event[q] \/ event'[q].at = "set"
    BY <1>4 DEF Use, AllocSocket, Adopt, Recv, Received, Write, Written, Close, FreeSocket,
                selects, CallBack, Event, TypeOK
  <2> QED BY <2>1 DEF WalkOnList
<1>5. ASSUME NEW t \in Tasks, Selects(t) PROVE WalkOnList'
  <2>1. UNCHANGED event BY <1>5, SelectsIs
  <2>2. \/ UNCHANGED <<select_cb_list, outdated>>
        \/ outdated' = {r \in Runners : event[r].at = "walk"}
    BY <1>5 DEF Selects, Selecting, Select, Insert, Count, Rescan, SemTaken, Timeout, Uncount,
                Unlink, Scan, Changed, selects
  <2> QED BY <2>1, <2>2 DEF WalkOnList
<1> QED BY <1>2, <1>3, <1>4, <1>5, NextIs DEF Outside

\* A call on a socket is a step of its owner, which is outside of lwip_select.
LEMMA UseIs ==
  ASSUME TypeOK, Loops, NEW t \in Tasks, Use(t)
  PROVE  /\ \E s \in Set(t) : \A x \in Socks \ {s} :
              /\ conn'[x] = conn[x] /\ early'[x] = early[x] /\ recvmbox'[x] = recvmbox[x]
              /\ rcvevent'[x] = rcvevent[x] /\ sendevent'[x] = sendevent[x]
              /\ lastdata'[x] = lastdata[x] /\ select_waiting'[x] = select_waiting[x]
         /\ pc[t] \in {"idle", "alloc", "received", "written", "freesocket"}
         /\ \A u \in Tasks \ {t} : pc'[u] = pc[u] /\ todo'[u] = todo[u]
         /\ UNCHANGED <<select_cb_list, sem, sem_signalled, found, timedout, outdated>>
<1> PICK s \in Socks :
      \/ AllocSocket(t, s) \/ Adopt(t, s)
      \/ Recv(t, s) \/ Received(t, s) \/ Write(t, s) \/ Written(t, s)
      \/ Close(t, s) \/ FreeSocket(t, s)
  BY DEF Use
<1> USE DEF At, Goto, Ends, Call, Mine, selects, sockets
<1>1. s \in Set(t)
  BY DEF AllocSocket, Adopt, Recv, Received, Write, Written, Close, FreeSocket, Loops
<1>2. \A x \in Socks \ {s} :
        /\ conn'[x] = conn[x] /\ early'[x] = early[x] /\ recvmbox'[x] = recvmbox[x]
        /\ rcvevent'[x] = rcvevent[x] /\ sendevent'[x] = sendevent[x]
        /\ lastdata'[x] = lastdata[x] /\ select_waiting'[x] = select_waiting[x]
  BY DEF AllocSocket, Adopt, Recv, Received, Write, Written, Close, FreeSocket, TypeOK
<1>3. /\ pc[t] \in {"idle", "alloc", "received", "written", "freesocket"}
      /\ \A u \in Tasks \ {t} : pc'[u] = pc[u] /\ todo'[u] = todo[u]
  BY DEF AllocSocket, Adopt, Recv, Received, Write, Written, Close, FreeSocket, TypeOK
<1>4. UNCHANGED <<select_cb_list, sem, sem_signalled, found, timedout, outdated>>
  BY DEF AllocSocket, Adopt, Recv, Received, Write, Written, Close, FreeSocket
<1> QED BY <1>1, <1>2, <1>3, <1>4

LEMMA SignalsNext ==
  ASSUME TypeOK, ListOK, WalkOnList, Callbacks, Loops, Signals, Next
  PROVE  Signals'
<1>1. CASE Outside
  <2>1. /\ UNCHANGED <<select_cb_list, found, timedout>>
        /\ \A u \in Tasks : pc[u] \in Inside \/ pc'[u] \in Inside => pc'[u] = pc[u]
    BY <1>1, OutsideIs
  <2>2. CASE UNCHANGED <<sem, sem_signalled>>
    BY <2>1, <2>2 DEF Signals, Listed, Inside
  <2>3. ASSUME NEW r \in Runners, NEW scb \in Tasks, Walk(r, scb), scb \in ToSet(select_cb_list)
        PROVE  Signals'
    <3>1. pc[scb] \in Listed BY <2>3 DEF ListOK
    <3>2. UNCHANGED pc BY <2>3, VisitIs
    <3>3. \A u \in Tasks \ {scb} : sem'[u] = sem[u] /\ sem_signalled'[u] = sem_signalled[u]
      BY <2>3, VisitIs
    <3>4. \E w \in BOOLEAN : /\ sem_signalled'[scb] <=> sem_signalled[scb] \/ w
                             /\ sem'[scb] <=> sem[scb] \/ (~sem_signalled[scb] /\ w)
      <4>1. Wakes(scb, event[r].s) \in BOOLEAN BY DEF Wakes
      <4> QED BY <2>3, <4>1, VisitIs
    <3> QED BY <2>1, <3>1, <3>2, <3>3, <3>4 DEF Signals
  <2>4. \/ UNCHANGED <<sem, sem_signalled>>
        \/ \E r \in Runners : \E scb \in Tasks : Walk(r, scb) /\ scb \in ToSet(select_cb_list)
    <3>1. CASE Stack BY <3>1 DEF Stack, NewConn, Deliver, Sent, selects
    <3>2. ASSUME NEW r \in Runners, CallbackStep(r)
          PROVE  \/ UNCHANGED <<sem, sem_signalled>>
                 \/ \E scb \in Tasks : Walk(r, scb) /\ scb \in ToSet(select_cb_list)
      BY <3>2, CallbackIs DEF Walk
    <3>3. CASE \E t \in Tasks : Use(t) BY <3>3, UseIs
    <3> QED BY <1>1, <3>1, <3>2, <3>3 DEF Outside
  <2> QED BY <2>2, <2>3, <2>4
<1>2. ASSUME NEW t \in Tasks, Selects(t) PROVE Signals'
  <2> USE DEF At, Goto, Loop, selects, Listed
  <2> DEFINE Of(u) == /\ sem[u] => sem_signalled[u]
                      /\ sem_signalled[u] => pc[u] \in Listed
                      /\ pc[u] \in {"count", "rescan", "wait"} => (sem_signalled[u] => sem[u])
                      /\ found[u] => pc[u] \in {"rescan", "uncount", "unlink"}
                      /\ timedout[u] => pc[u] \in {"uncount", "unlink"}
  <2>1. ASSUME NEW u \in Tasks \ {t} PROVE Of(u)'
    BY <1>2, SelectsIs DEF Signals
  <2>2. Of(t) BY DEF Signals
  <2>3. ASSUME Select(t) PROVE Of(t)'
    BY <2>2, <2>3 DEF Select, TypeOK
  <2>4. ASSUME Insert(t) PROVE Of(t)'
    BY <2>2, <2>4 DEF Insert, TypeOK
  <2>5. ASSUME NEW s \in Socks, Count(t, s) PROVE Of(t)'
    BY <2>2, <2>5 DEF Count, Visited, TypeOK
  <2>6. ASSUME NEW s \in Socks, Rescan(t, s) PROVE Of(t)'
    <3>1. pc[t] = "rescan" /\ (pc'[t] = "rescan" \/ pc'[t] = IF found'[t] THEN "uncount" ELSE "wait")
      BY <2>6 DEF Rescan, Visited, TypeOK
    <3>2. UNCHANGED <<sem, sem_signalled, timedout>> BY <2>6 DEF Rescan
    <3> QED BY <2>2, <3>1, <3>2
  <2>7. ASSUME SemTaken(t) PROVE Of(t)'
    BY <2>2, <2>7 DEF SemTaken, TypeOK
  <2>8. ASSUME Timeout(t) PROVE Of(t)'
    BY <2>2, <2>8 DEF Timeout, TypeOK
  <2>9. ASSUME NEW s \in Socks, Uncount(t, s) PROVE Of(t)'
    BY <2>2, <2>9 DEF Uncount, Visited, TypeOK
  <2>10. ASSUME Unlink(t) PROVE Of(t)'
    BY <2>2, <2>10 DEF Unlink, Leave, TypeOK
  <2>11. ASSUME Scan(t) PROVE Of(t)'
    BY <2>2, <2>11 DEF Scan, TypeOK
  <2>12. Of(t)'
    BY <1>2, <2>3, <2>4, <2>5, <2>6, <2>7, <2>8, <2>9, <2>10, <2>11 DEF Selects, Selecting
  <2> QED BY <2>1, <2>12 DEF Signals
<1> QED BY <1>1, <1>2, NextIs

LEMMA QuietNext ==
  ASSUME TypeOK, ListOK, WalkOnList, Callbacks, Loops, Quiet, Next
  PROVE  Quiet'
<1>1. CASE Outside
  <2>1. \A u \in Tasks : pc'[u] \in Inside => pc[u] \in Inside BY <1>1, OutsideIs
  <2>2. ASSUME NEW u \in Tasks, NEW s \in Set(u), pc[u] \in Inside
        PROVE  conn'[s] = conn[s] /\ lastdata'[s] = lastdata[s]
    <3>1. s \in Socks /\ conn[s] = "open" BY <2>2, OwnerIs DEF Quiet
    <3>2. CASE Stack
      BY <3>1, <3>2 DEF Stack, NewConn, Deliver, Sent, sockets, TypeOK
    <3>3. CASE \E r \in Runners : CallbackStep(r)
      BY <3>3 DEF CallbackStep, SetEvent, NextEntry, sockets
    <3>4. ASSUME NEW t \in Tasks, Use(t) PROVE conn'[s] = conn[s] /\ lastdata'[s] = lastdata[s]
      <4>1. u # t BY <2>2, <3>4, UseIs DEF Inside
      <4>2. PICK z \in Set(t) : \A x \in Socks \ {z} : conn'[x] = conn[x] /\ lastdata'[x] = lastdata[x]
        BY <3>4, UseIs
      <4>3. s # z BY <3>1, <4>1, OwnerIs
      <4> QED BY <3>1, <4>2, <4>3
    <3> QED BY <1>1, <3>2, <3>3, <3>4 DEF Outside
  <2> QED BY <2>1, <2>2 DEF Quiet
<1>2. ASSUME NEW t \in Tasks, Selects(t) PROVE Quiet'
  <2>1. UNCHANGED <<conn, lastdata>> /\ \A u \in Tasks \ {t} : pc'[u] = pc[u]
    BY <1>2, SelectsIs DEF sockets
  <2>2. CASE Select(t)
    BY <2>1, <2>2 DEF Select, Ready, Quiet
  <2>3. CASE Selecting(t) \/ Timeout(t)
    <3>1. pc[t] \in Inside
      BY <2>3 DEF Selecting, Insert, Count, Rescan, SemTaken, Timeout, Uncount, Unlink, Scan,
                  At, Inside
    <3> QED BY <2>1, <3>1 DEF Quiet
  <2> QED BY <1>2, <2>2, <2>3 DEF Selects
<1> QED BY <1>1, <1>2, NextIs

-----------------------------------------------------------------------------
(* The calls under way. *)

LEMMA LoopsNext ==
  ASSUME TypeOK, ListOK, WalkOnList, Callbacks, Loops, Next
  PROVE  Loops'
<1> DEFINE Of(u) == /\ todo[u] \subseteq Set(u)
                    /\ pc[u] \in {"wait", "unlink"} => todo[u] = Set(u)
                    /\ pc[u] = "alloc" => \A s \in todo[u] : conn[s] = "alloc"
                    /\ pc[u] = "freesocket" => \A s \in todo[u] : conn[s] = "closing"
<1>0. \A u \in Tasks : Of(u) BY DEF Loops
<1>1. CASE Stack
  <2>1. UNCHANGED <<pc, todo>> /\ \A s \in Socks : conn[s] # "none" => conn'[s] = conn[s]
    BY <1>1 DEF Stack, NewConn, Deliver, Sent, sockets, locals, TypeOK
  <2>2. \A u \in Tasks : todo[u] \subseteq Socks BY DEF TypeOK
  <2> QED BY <1>0, <2>1, <2>2 DEF Loops
<1>2. ASSUME NEW r \in Runners, CallbackStep(r) PROVE Loops'
  <2>1. UNCHANGED <<conn, todo>> BY <1>2 DEF CallbackStep, SetEvent, NextEntry, sockets
  <2>2. event[r].at # "none" /\ (Finish(r) \/ UNCHANGED pc) BY <1>2, CallbackIs DEF Walk
  <2>3. CASE UNCHANGED pc BY <2>1, <2>3 DEF Loops
  <2>4. CASE Finish(r)
    <3>1. \A u \in Tasks : pc'[u] # pc[u] =>
            u = event[r].task /\ pc'[u] = event[r].then /\ pc'[u] \in After
      BY <2>2, <2>4, FinishIs
    <3>2. event[r].then = "freesocket" =>
            conn[event[r].s] = "closing" /\ todo[event[r].task] = {event[r].s}
      BY <2>2 DEF Callbacks, Closing
    <3>3. \A u \in Tasks : Of(u)' BY <1>0, <2>1, <3>1, <3>2 DEF After
    <3> QED BY <3>3 DEF Loops
  <2> QED BY <2>2, <2>3, <2>4
<1>3. ASSUME NEW t \in Tasks, Use(t) PROVE Loops'
  <2>1. ASSUME NEW u \in Tasks \ {t} PROVE Of(u)'
    <3>1. pc'[u] = pc[u] /\ todo'[u] = todo[u] BY <1>3, UseIs
    <3>2. PICK z \in Set(t) : \A x \in Socks \ {z} : conn'[x] = conn[x] BY <1>3, UseIs
    <3>3. todo[u] \subseteq Set(u) BY DEF Loops
    <3>4. \A s \in todo[u] : conn'[s] = conn[s] BY <3>2, <3>3, OwnerIs
    <3> QED BY <1>0, <3>1, <3>4
  <2>2. Of(t)'
    <3> PICK s \in Socks :
          \/ AllocSocket(t, s) \/ Adopt(t, s)
          \/ Recv(t, s) \/ Received(t, s) \/ Write(t, s) \/ Written(t, s)
          \/ Close(t, s) \/ FreeSocket(t, s)
      BY <1>3 DEF Use
    <3> USE DEF At, Goto, Ends, Call, Mine
    <3>1. CASE AllocSocket(t, s) BY <3>1 DEF AllocSocket, TypeOK
    <3>2. CASE Recv(t, s)
      <4>1. pc[t] = "idle" /\ s \in Set(t) BY <3>2 DEF Recv
      <4>2. \/ UNCHANGED <<pc, todo>>
            \/ pc' = [pc EXCEPT ![t] = "event"] /\ todo' = [todo EXCEPT ![t] = {s}]
        BY <3>2 DEF Recv
      <4>3. pc'[t] \in {"idle", "event"} /\ todo'[t] \in {todo[t], {s}}
        BY <4>1, <4>2 DEF TypeOK
      <4> QED BY <1>0, <4>1, <4>3
    <3>3. CASE Write(t, s) \/ Close(t, s)
      BY <3>3 DEF Write, Close, TypeOK
    <3>4. CASE Adopt(t, s) \/ Received(t, s) \/ Written(t, s) \/ FreeSocket(t, s)
      BY <3>4 DEF Adopt, Received, Written, FreeSocket, TypeOK
    <3> QED BY <3>1, <3>2, <3>3, <3>4
  <2> QED BY <2>1, <2>2 DEF Loops
<1>4. ASSUME NEW t \in Tasks, Selects(t) PROVE Loops'
  <2>1. UNCHANGED conn BY <1>4, SelectsIs DEF sockets
  <2>2. ASSUME NEW u \in Tasks \ {t} PROVE Of(u)'
    BY <1>0, <1>4, <2>1, SelectsIs
  <2>3. Of(t)'
    <3> USE DEF At, Goto, Loop, selects
    <3>1. CASE Select(t) BY <1>0, <3>1 DEF Select, TypeOK
    <3>2. CASE Insert(t) BY <1>0, <3>2 DEF Insert, TypeOK
    <3>3. ASSUME NEW s \in Socks, NEW place, Visited(t, s, place),
                 place \in {"rescan", "wait", "uncount", "unlink"},
                 pc[t] \in {"count", "rescan", "uncount"}
          PROVE  Of(t)'
      <4>1. \/ pc' = [pc EXCEPT ![t] = place] /\ todo' = [todo EXCEPT ![t] = Set(t)]
            \/ pc' = pc /\ todo' = [todo EXCEPT ![t] = todo[t] \ {s}]
        BY <3>3 DEF Visited
      <4>2. \/ pc'[t] = place /\ todo'[t] = Set(t)
            \/ pc'[t] = pc[t] /\ todo'[t] = todo[t] \ {s}
        BY <4>1 DEF TypeOK
      <4> QED BY <1>0, <3>3, <4>2
    <3>4. CASE \E s \in Socks : Count(t, s) \/ Rescan(t, s) \/ Uncount(t, s)
      BY <3>3, <3>4 DEF Count, Rescan, Uncount
    <3>5. CASE SemTaken(t) BY <1>0, <3>5 DEF SemTaken, TypeOK
    <3>6. CASE Timeout(t) BY <1>0, <3>6 DEF Timeout, TypeOK
    <3>7. CASE Unlink(t) BY <1>0, <3>7 DEF Unlink, Leave, TypeOK
    <3>8. CASE Scan(t) BY <1>0, <3>8 DEF Scan, TypeOK
    <3> QED BY <1>4, <3>1, <3>2, <3>4, <3>5, <3>6, <3>7, <3>8 DEF Selects, Selecting
  <2> QED BY <2>2, <2>3 DEF Loops
<1> QED BY <1>1, <1>2, <1>3, <1>4, NextIs DEF Outside

\* what Callbacks says of one runner
CallbackOf(r) ==
  /\ event[r].at # "none" =>
       /\ event[r].task \in Tasks =>
            /\ pc[event[r].task] = "event" /\ event[r].s \in Set(event[r].task)
       /\ r \in Tasks => event[r].task = r
       /\ event[r].then \in Closing =>
            /\ r = Tcpip /\ event[r].task \in Tasks /\ conn[event[r].s] = "closing"
            /\ todo[event[r].task] = {event[r].s}
  /\ event[r].at = "set" =>
       /\ conn[event[r].s] # "none"
       /\ conn[event[r].s] = "closing" => event[r].task \in Tasks
       /\ r \in Tasks <=> event[r].evt = "RCVMINUS"
       /\ event[r].evt \in {"RCVMINUS", "SENDMINUS"} =>
            event[r].task \in Tasks /\ conn[event[r].s] = "open"

OneCall ==
  event[Tcpip].at # "none" => \A t \in Tasks : event[t].at # "none" => event[Tcpip].task # t

LEMMA CallbacksAre ==
  /\ Callbacks <=> (\A r \in Runners : CallbackOf(r)) /\ OneCall
  /\ Callbacks' <=> (\A r \in Runners : CallbackOf(r)') /\ OneCall'
BY DEF Callbacks, CallbackOf, OneCall

\* Nobody else is in a callback for the task of a callback.
LEMMA OneCallEach ==
  ASSUME TypeOK, Callbacks, NEW r \in Runners, NEW q \in Runners, r # q,
         event[r].at # "none", event[q].at # "none", event[r].task \in Tasks
  PROVE  event[q].task # event[r].task
BY OwnerIs DEF Callbacks, Runners

LEMMA CallbacksStack ==
  ASSUME TypeOK, Callbacks, Stack
  PROVE  Callbacks'
<1>0. (\A r \in Runners : CallbackOf(r)) /\ OneCall BY CallbacksAre
<1>1. ASSUME NEW s \in Socks, NewConn(s) PROVE Callbacks'
  <2>1. UNCHANGED <<event, pc, todo>> /\ \A x \in Socks : conn[x] # "none" => conn'[x] = conn[x]
    BY <1>1 DEF NewConn, locals, TypeOK
  <2>2. ASSUME NEW r \in Runners PROVE CallbackOf(r)'
    <3>1. event[r] \in EventRec BY DEF TypeOK
    <3>2. event[r].at # "none" => event[r].s \in Socks BY <3>1, EventIs
    <3>3. event[r].at # "none" /\ conn[event[r].s] # "none" => conn'[event[r].s] = conn[event[r].s]
      BY <2>1, <3>2
    <3>4. CallbackOf(r) BY <1>0
    <3>5. event[r].at = "none" \/ event[r].at = "set" \/ event[r].at = "walk" BY <3>1, EventIs
    <3> QED BY <2>1, <3>3, <3>4, <3>5 DEF CallbackOf
  <2>3. OneCall' BY <1>0, <2>1 DEF OneCall
  <2> QED BY <2>2, <2>3, CallbacksAre
<1>2. ASSUME NEW s \in Socks, NEW evt \in {"RCVPLUS", "SENDPLUS"},
             conn[s] \in {"backlog", "alloc", "open"}, Idle(Tcpip),
             event' = [event EXCEPT ![Tcpip] = Event(evt, s, Tcpip, "idle")],
             UNCHANGED <<conn, pc, todo>>
      PROVE  Callbacks'
  <2>1. event'[Tcpip] = Event(evt, s, Tcpip, "idle")
        /\ \A r \in Tasks : event'[r] = event[r]
    BY <1>2, OwnerIs DEF TypeOK, Runners
  <2>2. \A r \in Tasks : CallbackOf(r)'
    BY <1>0, <1>2, <2>1 DEF CallbackOf, Runners
  <2>3. CallbackOf(Tcpip)' BY <1>2, <2>1, OwnerIs DEF CallbackOf, Event, Closing
  <2>4. OneCall' BY <2>1, OwnerIs DEF OneCall, Event
  <2> QED BY <2>2, <2>3, <2>4, CallbacksAre DEF Runners
<1>3. ASSUME NEW s \in Socks, Deliver(s) \/ Sent(s) PROVE Callbacks'
  <2>1. \E evt \in {"RCVPLUS", "SENDPLUS"} :
          /\ conn[s] \in {"backlog", "alloc", "open"} /\ Idle(Tcpip)
          /\ event' = [event EXCEPT ![Tcpip] = Event(evt, s, Tcpip, "idle")]
          /\ UNCHANGED <<conn, pc, todo>>
    BY <1>3 DEF Deliver, Sent, CallBack, sockets, locals
  <2> QED BY <1>2, <2>1
<1> QED BY <1>1, <1>3 DEF Stack

LEMMA CallbacksCallback ==
  ASSUME TypeOK, ListOK, WalkOnList, Callbacks, NEW r \in Runners, CallbackStep(r)
  PROVE  Callbacks'
<1>0. (\A q \in Runners : CallbackOf(q)) /\ OneCall BY CallbacksAre
<1>1. UNCHANGED <<conn, todo>> BY DEF CallbackStep, SetEvent, NextEntry, sockets
<1>2. event[r].at # "none" BY CallbackIs
<1>3. CASE Finish(r)
  <2>1. \A q \in Runners \ {r} : event'[q] = event[q]
    BY <1>2, <1>3, FinishEvent
  <2>2. \A u \in Tasks : pc'[u] # pc[u] => u = event[r].task
    BY <1>2, <1>3, FinishIs
  <2>3. ASSUME NEW q \in Runners \ {r} PROVE CallbackOf(q)'
    <3>1. event[q].at # "none" /\ event[q].task \in Tasks => pc'[event[q].task] = pc[event[q].task]
      BY <1>2, <2>2, OneCallEach
    <3>2. CallbackOf(q) BY <1>0
    <3>3. event[q].at = "set" => event[q].at # "none" OBVIOUS
    <3> QED BY <1>1, <2>1, <3>1, <3>2, <3>3 DEF CallbackOf
  <2>4. CallbackOf(r)' /\ (event'[r].at # "none" => r = Tcpip /\ event'[r].task = event[r].task)
    <3>1. CASE event'[r] = NoEvent BY <3>1 DEF CallbackOf, NoEvent
    <3>2. CASE /\ UNCHANGED pc
               /\ \/ /\ event[r].then = "rcvplus"
                     /\ event'[r] = Event("RCVPLUS", event[r].s, event[r].task, "sendplus")
                  \/ /\ event[r].then = "sendplus"
                     /\ event'[r] = Event("SENDPLUS", event[r].s, event[r].task, "freesocket")
      <4>1. /\ r = Tcpip /\ event[r].task \in Tasks /\ conn[event[r].s] = "closing"
            /\ todo[event[r].task] = {event[r].s} /\ pc[event[r].task] = "event"
            /\ event[r].s \in Set(event[r].task)
        BY <1>0, <1>2, <3>2 DEF CallbackOf, Closing
      <4>2. /\ event'[r].s = event[r].s /\ event'[r].task = event[r].task
            /\ event'[r].evt \in {"RCVPLUS", "SENDPLUS"}
        BY <3>2 DEF Event
      <4> QED BY <1>1, <3>2, <4>1, <4>2, OwnerIs DEF CallbackOf
    <3> QED BY <1>2, <1>3, <3>1, <3>2, FinishEvent
  <2>5. OneCall' BY <1>0, <1>2, <2>1, <2>4, OwnerIs DEF OneCall, Runners
  <2> QED BY <2>3, <2>4, <2>5, CallbacksAre
<1>4. ASSUME NEW scb \in Tasks, Walk(r, scb) PROVE Callbacks'
  <2>1. /\ UNCHANGED pc
        /\ event'[r] = [at |-> "walk", s |-> event[r].s, task |-> event[r].task,
                        then |-> event[r].then, scb |-> scb]
        /\ \A q \in Runners \ {r} : event'[q] = event[q]
    BY <1>4, VisitIs DEF TypeOK
  <2>2. \A q \in Runners \ {r} : CallbackOf(q)' BY <1>0, <1>1, <2>1 DEF CallbackOf
  <2>3. CallbackOf(r)' BY <1>0, <1>1, <1>2, <2>1 DEF CallbackOf
  <2>4. OneCall' BY <1>0, <1>2, <2>1 DEF OneCall, Runners
  <2> QED BY <2>2, <2>3, <2>4, CallbacksAre
<1>5. Finish(r) \/ \E scb \in Tasks : Walk(r, scb) BY CallbackIs DEF Walk
<1> QED BY <1>3, <1>4, <1>5

LEMMA CallbacksUse ==
  ASSUME TypeOK, Callbacks, Loops, NEW t \in Tasks, Use(t)
  PROVE  Callbacks'
<1>0. (\A r \in Runners : CallbackOf(r)) /\ OneCall BY CallbacksAre
<1> PICK s \in Socks :
      \/ AllocSocket(t, s) \/ Adopt(t, s)
      \/ Recv(t, s) \/ Received(t, s) \/ Write(t, s) \/ Written(t, s)
      \/ Close(t, s) \/ FreeSocket(t, s)
  BY DEF Use
<1> USE DEF At, Goto, Ends, Call, Mine
<1>1. s \in Set(t) /\ pc[t] # "event"
  BY DEF AllocSocket, Adopt, Recv, Received, Write, Written, Close, FreeSocket, Loops
<1>2. \A u \in Tasks \ {t} : pc'[u] = pc[u] /\ todo'[u] = todo[u]
  BY UseIs
<1>3. \A r \in Runners : event[r].at # "none" => event[r].task # t /\ r # t
  BY <1>1 DEF Callbacks
<1>4. \A x \in Socks \ {s} : conn'[x] = conn[x]
  BY DEF AllocSocket, Adopt, Recv, Received, Write, Written, Close, FreeSocket, sockets, TypeOK
<1>5. \/ conn'[s] = conn[s]
      \/ conn[s] = "backlog" /\ conn'[s] = "alloc"
      \/ conn[s] = "alloc" /\ conn'[s] = "open"
      \/ conn[s] = "open" /\ conn'[s] = "closing" /\ Idle(Tcpip)
      \/ conn[s] = "closing" /\ conn'[s] = "none"
  <2>1. CASE AllocSocket(t, s) BY <2>1 DEF AllocSocket, TypeOK
  <2>2. CASE Adopt(t, s)
    <3>1. conn[s] = "alloc" BY <2>2 DEF Adopt, Loops
    <3> QED BY <2>2, <3>1 DEF Adopt, TypeOK
  <2>3. CASE Recv(t, s) \/ Received(t, s) \/ Write(t, s) \/ Written(t, s)
    BY <2>3 DEF Recv, Received, Write, Written, sockets
  <2>4. CASE Close(t, s) BY <2>4 DEF Close, CallBack, TypeOK
  <2>5. CASE FreeSocket(t, s)
    <3>1. conn[s] = "closing" BY <2>5 DEF FreeSocket, Loops
    <3> QED BY <2>5, <3>1 DEF FreeSocket, TypeOK
  <2> QED BY <2>1, <2>2, <2>3, <2>4, <2>5
\* a callback under way is not disturbed
<1>6. ASSUME NEW r \in Runners, event'[r] = event[r] PROVE CallbackOf(r)'
  <2>1. event[r] \in EventRec BY DEF TypeOK
  <2>2. CASE event[r].at = "none" BY <1>6, <2>2 DEF CallbackOf
  <2>3. CASE event[r].at # "none"
    <3>1. event[r].s \in Socks /\ event[r].task \in Runners BY <2>1, <2>3, EventIs
    <3>2. event[r].task # t /\ r # t BY <1>3, <2>3
    <3>3. CallbackOf(r) BY <1>0
    <3>4. CASE event[r].task \in Tasks
      <4>1. event[r].s # s BY <1>1, <2>3, <3>2, <3>3, <3>4, OwnerIs DEF CallbackOf
      <4>2. conn'[event[r].s] = conn[event[r].s] BY <1>4, <3>1, <4>1
      <4>3. pc'[event[r].task] = pc[event[r].task] /\ todo'[event[r].task] = todo[event[r].task]
        BY <1>2, <3>2, <3>4
      <4> QED BY <1>6, <3>3, <4>2, <4>3 DEF CallbackOf
    <3>5. CASE event[r].task \notin Tasks
      <4>1. r = Tcpip BY <2>3, <3>3, <3>5 DEF CallbackOf, Runners
      <4>2. event[r].at = "set" => conn'[event[r].s] \notin {"none", "closing"}
        <5>1. event[r].at = "set" => conn[event[r].s] \notin {"none", "closing"}
          BY <3>3, <3>5 DEF CallbackOf
        <5> QED BY <1>4, <1>5, <2>3, <3>1, <4>1, <5>1 DEF Idle
      <4> QED BY <1>6, <2>3, <3>3, <3>5, <4>2 DEF CallbackOf
    <3> QED BY <3>4, <3>5
  <2> QED BY <2>2, <2>3
<1>7. CASE UNCHANGED event
  <2>1. OneCall' BY <1>0, <1>7 DEF OneCall
  <2> QED BY <1>6, <1>7, <2>1, CallbacksAre
<1>8. CASE Recv(t, s) /\ ~UNCHANGED event
  <2>1. /\ event' = [event EXCEPT ![t] = Event("RCVMINUS", s, t, "received")]
        /\ conn[s] = "open" /\ pc' = [pc EXCEPT ![t] = "event"]
    BY <1>8 DEF Recv, CallBack
  <2>2. event'[t] = Event("RCVMINUS", s, t, "received") /\ pc'[t] = "event"
        /\ \A r \in Runners \ {t} : event'[r] = event[r]
    BY <2>1 DEF TypeOK, Runners
  <2>3. CallbackOf(t)' BY <1>1, <1>4, <1>5, <1>8, <2>1, <2>2 DEF CallbackOf, Event, Recv, Closing
  <2>4. OneCall' BY <1>0, <1>3, <2>2, OwnerIs DEF OneCall, Event, Runners
  <2> QED BY <1>6, <2>2, <2>3, <2>4, CallbacksAre
<1>9. ASSUME NEW evt \in {"ERROR", "SENDMINUS"}, NEW then \in {"written", "rcvplus"},
             event' = [event EXCEPT ![Tcpip] = Event(evt, s, t, then)],
             evt = "SENDMINUS" => conn'[s] = "open" /\ then = "written",
             evt = "ERROR" => conn'[s] = "closing" /\ then = "rcvplus",
             pc'[t] = "event", todo'[t] = {s}
      PROVE  Callbacks'
  <2>1. event'[Tcpip] = Event(evt, s, t, then) /\ \A r \in Tasks : event'[r] = event[r]
    BY <1>9, OwnerIs DEF TypeOK, Runners
  <2>2. CallbackOf(Tcpip)' BY <1>1, <1>9, <2>1, OwnerIs DEF CallbackOf, Event, Closing
  <2>3. OneCall' BY <1>3, <2>1 DEF OneCall, Event, Runners
  <2>4. \A r \in Tasks : CallbackOf(r)' BY <1>6, <2>1 DEF Runners
  <2> QED BY <2>2, <2>3, <2>4, CallbacksAre DEF Runners
<1>10. CASE Write(t, s)
  BY <1>9, <1>10 DEF Write, CallBack, sockets, TypeOK
<1>11. CASE Close(t, s)
  BY <1>9, <1>11 DEF Close, CallBack, TypeOK
<1>12. CASE AllocSocket(t, s) \/ Adopt(t, s) \/ Received(t, s) \/ Written(t, s) \/ FreeSocket(t, s)
  BY <1>7, <1>12 DEF AllocSocket, Adopt, Received, Written, FreeSocket
<1> QED BY <1>7, <1>8, <1>10, <1>11, <1>12

LEMMA CallbacksNext ==
  ASSUME TypeOK, ListOK, WalkOnList, Callbacks, Loops, Next
  PROVE  Callbacks'
<1>1. CASE Outside
  BY <1>1, CallbacksStack, CallbacksCallback, CallbacksUse DEF Outside
<1>2. ASSUME NEW t \in Tasks, Selects(t) PROVE Callbacks'
  <2>0. (\A r \in Runners : CallbackOf(r)) /\ OneCall BY CallbacksAre
  <2>1. /\ UNCHANGED <<conn, event>> /\ pc[t] # "event"
        /\ \A u \in Tasks \ {t} : pc'[u] = pc[u] /\ todo'[u] = todo[u]
    BY <1>2, SelectsIs DEF sockets
  <2>2. \A r \in Runners : event[r].at # "none" => event[r].task # t BY <2>1 DEF Callbacks
  <2>3. \A r \in Runners : CallbackOf(r)' BY <2>0, <2>1, <2>2 DEF CallbackOf
  <2>4. OneCall' BY <2>0, <2>1 DEF OneCall
  <2> QED BY <2>3, <2>4, CallbacksAre
<1> QED BY <1>1, <1>2, NextIs

-----------------------------------------------------------------------------
(* select_waiting. *)

LEMMA WaitingStill ==
  ASSUME Waiting, \A s \in Socks : select_waiting'[s] = select_waiting[s],
         \A t \in Tasks : \A s \in Socks : Counted(t, s)' <=> Counted(t, s)
  PROVE  Waiting'
BY DEF Waiting

LEMMA WaitingOutside ==
  ASSUME TypeOK, ListOK, WalkOnList, Callbacks, Loops, Waiting, Outside
  PROVE  Waiting'
<1>1. \A t \in Tasks : \A s \in Socks : Counted(t, s)' <=> Counted(t, s)
  BY OutsideIs DEF Counted, Inside
<1>2. CASE Stack
  BY <1>1, <1>2, WaitingStill DEF Stack, NewConn, Deliver, Sent, selects
<1>3. ASSUME NEW r \in Runners, CallbackStep(r) PROVE Waiting'
  BY <1>1, <1>3, WaitingStill DEF CallbackStep, SetEvent, NextEntry
<1>4. ASSUME NEW t \in Tasks, Use(t) PROVE Waiting'
  <2>1. ASSUME NEW s \in Socks, AllocSocket(t, s)
        PROVE  \A x \in Socks : select_waiting'[x] = select_waiting[x]
    <3>1. s \in Set(t) /\ pc[t] = "idle" BY <2>1 DEF AllocSocket, Mine, At
    <3>2. \A u \in Tasks : ~Counted(u, s) BY <3>1, OwnerIs DEF Counted
    <3>3. select_waiting[s] = 0 BY <3>2 DEF Waiting
    <3> QED BY <2>1, <3>3 DEF AllocSocket, TypeOK
  <2>2. ASSUME NEW s \in Socks,
               \/ Adopt(t, s) \/ Recv(t, s) \/ Received(t, s) \/ Write(t, s) \/ Written(t, s)
               \/ Close(t, s) \/ FreeSocket(t, s)
        PROVE  UNCHANGED select_waiting
    BY <2>2 DEF Adopt, Recv, Received, Write, Written, Close, FreeSocket, selects
  <2> QED BY <1>1, <1>4, <2>1, <2>2, WaitingStill DEF Use
<1> QED BY <1>2, <1>3, <1>4 DEF Outside

LEMMA WaitingSelects ==
  ASSUME TypeOK, Loops, Signals, Waiting, NEW t \in Tasks, Selects(t)
  PROVE  Waiting'
<1> USE DEF At, Goto, Loop, selects
<1>0. Set(t) \subseteq Socks /\ todo[t] \subseteq Set(t) BY OwnerIs DEF Loops
<1>1. \A u \in Tasks \ {t} : \A s \in Socks : Counted(u, s)' <=> Counted(u, s)
  BY SelectsIs DEF Counted
<1>2. ASSUME NEW place, NEW s, Visited(t, s, place)
      PROVE  /\ s \in todo[t]
             /\ \/ todo[t] = {s} /\ pc'[t] = place /\ todo'[t] = Set(t)
                \/ todo[t] # {s} /\ pc'[t] = pc[t] /\ todo'[t] = todo[t] \ {s}
  BY <1>2 DEF Visited, TypeOK
\* one socket is counted up or down
<1>3. ASSUME NEW s \in Socks, s \in Set(t),
             \A x \in Socks \ {s} : select_waiting'[x] = select_waiting[x]
                                    /\ (Counted(t, x)' <=> Counted(t, x)),
             \/ ~Counted(t, s) /\ Counted(t, s)' /\ select_waiting'[s] = select_waiting[s] + 1
             \/ Counted(t, s) /\ ~Counted(t, s)' /\ select_waiting'[s] = select_waiting[s] - 1
      PROVE  Waiting'
  <2>1. \A u \in Tasks \ {t} : ~Counted(u, s) /\ ~Counted(u, s)'
    BY <1>1, <1>3, OwnerIs DEF Counted
  <2>2. CASE ~Counted(t, s) /\ Counted(t, s)' /\ select_waiting'[s] = select_waiting[s] + 1
    <3>1. select_waiting[s] = 0 BY <2>1, <2>2 DEF Waiting
    <3>2. select_waiting'[s] = 1 BY <2>2, <3>1
    <3> QED BY <1>1, <1>3, <2>1, <2>2, <3>2 DEF Waiting
  <2>3. CASE Counted(t, s) /\ ~Counted(t, s)' /\ select_waiting'[s] = select_waiting[s] - 1
    <3>1. select_waiting[s] = 1 BY <2>3 DEF Waiting
    <3>2. select_waiting'[s] = 0 BY <2>3, <3>1
    <3> QED BY <1>1, <1>3, <2>1, <2>3, <3>2 DEF Waiting
  <2> QED BY <1>3, <2>2, <2>3
<1>4. ASSUME NEW s \in Socks, Count(t, s) PROVE Waiting'
  <2>1. pc[t] = "count" /\ select_waiting' = [select_waiting EXCEPT ![s] = @ + 1]
        /\ Visited(t, s, "rescan")
    BY <1>4 DEF Count
  <2>2. s \in todo[t] /\ s \in Set(t) BY <1>0, <1>2, <2>1
  <2>3. /\ ~Counted(t, s) /\ Counted(t, s)'
        /\ \A x \in Socks \ {s} : Counted(t, x)' <=> Counted(t, x)
    BY <1>0, <1>2, <2>1, <2>2 DEF Counted
  <2>4. /\ select_waiting'[s] = select_waiting[s] + 1
        /\ \A x \in Socks \ {s} : select_waiting'[x] = select_waiting[x]
    BY <2>1 DEF TypeOK
  <2> QED BY <1>3, <2>2, <2>3, <2>4
<1>5. ASSUME NEW s \in Socks, Uncount(t, s) PROVE Waiting'
  <2>1. pc[t] = "uncount" /\ select_waiting' = [select_waiting EXCEPT ![s] = @ - 1]
        /\ Visited(t, s, "unlink")
    BY <1>5 DEF Uncount
  <2>2. s \in todo[t] /\ s \in Set(t) BY <1>0, <1>2, <2>1
  <2>3. /\ Counted(t, s) /\ ~Counted(t, s)'
        /\ \A x \in Socks \ {s} : Counted(t, x)' <=> Counted(t, x)
    BY <1>0, <1>2, <2>1, <2>2 DEF Counted
  <2>4. /\ select_waiting'[s] = select_waiting[s] - 1
        /\ \A x \in Socks \ {s} : select_waiting'[x] = select_waiting[x]
    BY <2>1 DEF TypeOK
  <2> QED BY <1>3, <2>2, <2>3, <2>4
<1>6. ASSUME UNCHANGED select_waiting, \A s \in Socks : Counted(t, s)' <=> Counted(t, s)
      PROVE  Waiting'
  BY <1>1, <1>6, WaitingStill
<1>7. ASSUME NEW s \in Socks, Rescan(t, s) PROVE Waiting'
  <2>1. /\ pc[t] = "rescan" /\ UNCHANGED select_waiting
        /\ Visited(t, s, IF found'[t] THEN "uncount" ELSE "wait")
    BY <1>7 DEF Rescan
  <2>2. \/ pc'[t] \in {"rescan", "wait"}
        \/ pc'[t] = "uncount" /\ todo'[t] = Set(t)
    BY <1>2, <2>1
  <2> QED BY <1>6, <2>1, <2>2 DEF Counted
<1>8. CASE Insert(t)
  <2>1. pc[t] = "insert" /\ pc'[t] = "count" /\ todo'[t] = Set(t) /\ UNCHANGED select_waiting
    BY <1>8 DEF Insert, TypeOK
  <2> QED BY <1>6, <2>1 DEF Counted
<1>9. CASE SemTaken(t) \/ Timeout(t)
  <2>1. /\ pc[t] = "wait" /\ pc'[t] = "uncount" /\ todo'[t] = todo[t]
        /\ UNCHANGED select_waiting
    BY <1>9 DEF SemTaken, Timeout, TypeOK
  <2>2. todo[t] = Set(t) BY <2>1 DEF Loops
  <2> QED BY <1>6, <2>1, <2>2 DEF Counted
<1>10. CASE Select(t) \/ Unlink(t) \/ Scan(t)
  <2>1. pc[t] \in {"idle", "unlink", "scan"} /\ pc'[t] \in {"idle", "insert", "scan"}
        /\ UNCHANGED select_waiting
    BY <1>10 DEF Select, Unlink, Leave, Scan, TypeOK
  <2> QED BY <1>6, <2>1 DEF Counted
<1> QED BY <1>4, <1>5, <1>7, <1>8, <1>9, <1>10 DEF Selects, Selecting

-----------------------------------------------------------------------------
(* Nobody sleeps while its socket is ready. *)

\* While a task is in lwip_select, its sockets only become more ready, and only by
\* event_callback.
LEMMA SocketKept ==
  ASSUME TypeOK, Callbacks, Loops, Quiet, Next,
         NEW u \in Tasks, pc[u] \in Inside, NEW s \in Set(u)
  PROVE  /\ s \in Socks /\ conn'[s] = "open" /\ lastdata'[s] = lastdata[s]
         /\ rcvevent'[s] >= rcvevent[s] /\ (sendevent[s] => sendevent'[s])
         /\ \/ rcvevent'[s] = rcvevent[s] /\ sendevent'[s] = sendevent[s]
            \/ \E r \in Runners : SetEvent(r) /\ event[r].s = s
<1>0. s \in Socks /\ conn[s] = "open" /\ rcvevent[s] \in Int BY OwnerIs DEF Quiet, TypeOK
<1> DEFINE Same == /\ conn'[s] = "open" /\ lastdata'[s] = lastdata[s]
                   /\ rcvevent'[s] = rcvevent[s] /\ sendevent'[s] = sendevent[s]
<1>1. CASE Stack
  <2>1. Same BY <1>0, <1>1 DEF Stack, NewConn, Deliver, Sent, sockets, TypeOK
  <2> QED BY <1>0, <2>1
<1>2. ASSUME NEW r \in Runners, CallbackStep(r)
      PROVE  Same \/ (SetEvent(r) /\ event[r].s = s /\ conn'[s] = "open"
                      /\ lastdata'[s] = lastdata[s] /\ rcvevent'[s] >= rcvevent[s]
                      /\ (sendevent[s] => sendevent'[s]))
  <2>1. CASE NextEntry(r) BY <1>0, <2>1 DEF NextEntry, sockets
  <2>2. CASE SetEvent(r)
    <3>1. event[r].at = "set" /\ UNCHANGED <<conn, lastdata>> BY <2>2, SetEventIs
    <3>2. CASE event[r].s # s
      <4>1. rcvevent'[s] = rcvevent[s] /\ sendevent'[s] = sendevent[s]
        <5>1. CASE UNCHANGED <<rcvevent, sendevent>> BY <5>1
        <5>2. CASE conn[event[r].s] \notin {"backlog", "alloc"}
          <6>1. event[r].s \in Socks BY <3>1, EventIs DEF TypeOK
          <6>2. \E n : rcvevent' = [rcvevent EXCEPT ![event[r].s] = n]
            BY <2>2, <5>2, SetEventIs
          <6>3. \E n : sendevent' = [sendevent EXCEPT ![event[r].s] = n]
            BY <2>2, <5>2, SetEventIs
          <6> QED BY <1>0, <3>2, <6>2, <6>3 DEF TypeOK
        <5> QED BY <2>2, <5>1, <5>2, SetEventIs
      <4> QED BY <1>0, <3>1, <4>1
    <3>3. CASE event[r].s = s
      <4>1. event[r].evt \notin {"RCVMINUS", "SENDMINUS"}
        <5>1. ASSUME event[r].evt \in {"RCVMINUS", "SENDMINUS"} PROVE FALSE
          <6>1. event[r].task \in Tasks BY <3>1, <5>1 DEF Callbacks
          <6>2. pc[event[r].task] = "event" /\ s \in Set(event[r].task)
            BY <3>1, <3>3, <6>1 DEF Callbacks
          <6> QED BY <1>0, <6>1, <6>2, OwnerIs DEF Inside
        <5> QED BY <5>1
      <4>2. conn[s] \notin {"backlog", "alloc"} BY <1>0
      <4>3. \/ rcvevent' = [rcvevent EXCEPT ![s] = rcvevent[s] + 1]
            \/ rcvevent' = [rcvevent EXCEPT ![s] = rcvevent[s]]
        BY <2>2, <3>3, <4>1, <4>2, SetEventIs
      <4>4. \/ sendevent' = [sendevent EXCEPT ![s] = TRUE]
            \/ sendevent' = [sendevent EXCEPT ![s] = sendevent[s]]
        BY <2>2, <3>3, <4>1, <4>2, SetEventIs
      <4>5. rcvevent'[s] \in {rcvevent[s], rcvevent[s] + 1} BY <1>0, <4>3 DEF TypeOK
      <4>6. sendevent'[s] \in {sendevent[s], TRUE} BY <1>0, <4>4 DEF TypeOK
      <4>7. rcvevent'[s] >= rcvevent[s] BY <1>0, <4>5
      <4>8. sendevent[s] => sendevent'[s] BY <4>6
      <4>9. conn'[s] = "open" /\ lastdata'[s] = lastdata[s] BY <1>0, <3>1
      <4> QED BY <2>2, <3>3, <4>7, <4>8, <4>9
    <3> QED BY <3>2, <3>3
  <2> QED BY <1>2, <2>1, <2>2 DEF CallbackStep
<1>3. ASSUME NEW t \in Tasks, Use(t) PROVE Same
  <2>1. u # t BY <1>3, UseIs DEF Inside
  <2>2. PICK z \in Set(t) : \A x \in Socks \ {z} :
          /\ conn'[x] = conn[x] /\ lastdata'[x] = lastdata[x]
          /\ rcvevent'[x] = rcvevent[x] /\ sendevent'[x] = sendevent[x]
    BY <1>3, UseIs
  <2>3. s # z BY <1>0, <2>1, OwnerIs
  <2> QED BY <1>0, <2>2, <2>3
<1>4. ASSUME NEW t \in Tasks, Selects(t) PROVE Same
  BY <1>0, <1>4, SelectsIs DEF sockets
<1>5. Same => rcvevent'[s] >= rcvevent[s] BY <1>0
<1> QED BY <1>0, <1>1, <1>2, <1>3, <1>4, <1>5, NextIs DEF Outside

\* Ready, for a socket of a task in lwip_select.
LEMMA ReadyIs ==
  ASSUME TypeOK, ListOK, Callbacks, Loops, Quiet, Waiting, Next,
         NEW u \in Tasks, pc[u] \in Inside, NEW s \in Set(u)
  PROVE  /\ Ready(u, s) => Ready(u, s)'
         /\ Ready(u, s)' => Wakes(u, s)
         /\ Wakes(u, s) => Ready(u, s)'
         /\ Ready(u, s)' /\ ~Ready(u, s) => \E r \in Runners : SetEvent(r) /\ event[r].s = s
<1>1. s \in Socks /\ conn[s] = "open" /\ (s \in ReadSet[u] => ~lastdata[s])
  BY OwnerIs DEF Quiet
<1>2. /\ conn'[s] = "open" /\ lastdata'[s] = lastdata[s]
      /\ rcvevent'[s] >= rcvevent[s] /\ (sendevent[s] => sendevent'[s])
      /\ \/ rcvevent'[s] = rcvevent[s] /\ sendevent'[s] = sendevent[s]
         \/ \E r \in Runners : SetEvent(r) /\ event[r].s = s
  BY SocketKept
<1>3. rcvevent[s] \in Int BY <1>1 DEF TypeOK
<1>4. Ready(u, s) <=> (s \in ReadSet[u] /\ rcvevent[s] > 0) \/ (s \in WriteSet[u] /\ sendevent[s])
  BY <1>1 DEF Ready
<1>5. Ready(u, s)' <=> (s \in ReadSet[u] /\ rcvevent'[s] > 0) \/ (s \in WriteSet[u] /\ sendevent'[s])
  BY <1>1, <1>2 DEF Ready
<1>6. rcvevent'[s] \in Int BY <1>1, TypeNext DEF TypeOK
<1> QED BY <1>2, <1>3, <1>4, <1>5, <1>6 DEF Wakes

\* the task is past its look at s
Looked(t, s) == pc[t] = "wait" \/ (pc[t] = "rescan" /\ s \notin todo[t] /\ ~found[t])

\* A callback for s wakes the entry it comes to, or has it ahead.
LEMMA WalkWakes ==
  ASSUME TypeOK, ListOK, Callbacks, Loops, Quiet, Signals, Waiting, Next,
         NEW r \in Runners, NEW scb \in Tasks, Walk(r, scb), UNCHANGED select_cb_list,
         NEW t \in Tasks, NEW s \in Set(t), pc[t] \in {"rescan", "wait"},
         event[r].s = s, t \in {scb} \cup RestOf(scb), Ready(t, s)'
  PROVE  Woken(t, s)'
<1>1. CASE t = scb
  <2>1. Wakes(t, s) BY ReadyIs DEF Inside
  <2>2. sem_signalled[t] => sem[t] BY DEF Signals
  <2>3. sem'[t] BY <1>1, <2>1, <2>2, VisitIs
  <2> QED BY <2>3 DEF Woken
<1>2. CASE t \in RestOf(scb)
  <2>1. /\ event'[r].at = "walk" /\ event'[r].s = s /\ event'[r].scb = scb
        /\ r \notin outdated'
    BY VisitIs DEF TypeOK
  <2>2. RestOf(scb)' = RestOf(scb) BY DEF RestOf, Place
  <2>3. Ahead(r)' = RestOf(scb)' BY <2>1 DEF Ahead, RestOf, Place
  <2> QED BY <1>2, <2>1, <2>2, <2>3 DEF Woken
<1> QED BY <1>1, <1>2

\* A runner that does not move keeps the same entries ahead.
LEMMA AheadStill ==
  ASSUME UNCHANGED select_cb_list, NEW r \in Runners, event'[r] = event[r],
         r \in outdated' <=> r \in outdated
  PROVE  Ahead(r)' = Ahead(r)
BY DEF Ahead, Place

LEMMA NoLostCallback ==
  ASSUME TypeOK, ListOK, WalkOnList, Signals, Quiet, Loops, Callbacks, Waiting, NoLost, Next,
         NEW r \in Runners, CallbackStep(r)
  PROVE  NoLost'
<1> SUFFICES ASSUME NEW t \in Tasks, NEW s \in Set(t), Looked(t, s)', Ready(t, s)'
             PROVE  Woken(t, s)'
  BY DEF NoLost, Looked
<1>1. UNCHANGED <<select_cb_list, found, todo>> BY DEF CallbackStep, SetEvent, NextEntry
<1>2. Looked(t, s) /\ pc[t] \in {"rescan", "wait"}
  <2>1. Outside BY DEF Outside
  <2>2. pc'[t] = pc[t] BY <2>1, OutsideIs DEF Looked, Inside
  <2> QED BY <1>1, <2>2 DEF Looked
<1>3. s \in Socks /\ conn[s] = "open" BY <1>2, OwnerIs DEF Quiet, Inside
<1>4. CASE /\ event[r].at = "set" /\ conn[event[r].s] \in {"backlog", "alloc"}
           /\ Finish(r) /\ UNCHANGED <<sem, sem_signalled, outdated>>
  <2>1. event[r].s # s BY <1>3, <1>4
  <2>2. UNCHANGED <<rcvevent, sendevent, lastdata, conn>>
    BY <1>4, SetEventIs DEF CallbackStep, NextEntry
  <2>3. Ready(t, s) BY <2>2 DEF Ready
  <2>4. Woken(t, s) BY <1>2, <2>3 DEF NoLost, Looked
  <2>5. \A q \in Runners \ {r} : event'[q] = event[q] BY <1>4, FinishEvent
  <2>6. \A q \in Runners \ {r} : Ahead(q)' = Ahead(q) BY <1>1, <1>4, <2>5, AheadStill
  <2> QED BY <1>4, <2>4, <2>5, <2>6 DEF Woken
<1>5. ASSUME NEW scb,
             event[r].at \in {"set", "walk"},
             event[r].at = "set" => conn[event[r].s] \notin {"backlog", "alloc"},
             Walk(r, scb),
             event[r].at = "walk" =>
               Ahead(r) = IF scb \in Tasks THEN {scb} \cup RestOf(scb) ELSE {},
             event[r].at = "set" /\ select_waiting[event[r].s] # 0 =>
               ToSet(select_cb_list) = IF scb \in Tasks THEN {scb} \cup RestOf(scb) ELSE {}
      PROVE  Woken(t, s)'
  <2>1. CASE /\ scb \in Tasks /\ t \in {scb} \cup RestOf(scb) /\ event[r].s = s
    BY <1>1, <1>2, <1>5, <2>1, WalkWakes
  <2>2. CASE Woken(t, s) /\ ~(event[r].at = "walk" /\ event[r].s = s /\ t \in Ahead(r))
    <3>1. \A q \in Runners \ {r} : event'[q] = event[q]
      BY <1>5, VisitIs, FinishEvent DEF Walk, TypeOK
    <3>2. outdated' = outdated \ {r} BY <1>5 DEF Walk
    <3>3. \A q \in Runners \ {r} : Ahead(q)' = Ahead(q) BY <1>1, <3>1, <3>2, AheadStill
    <3>4. sem[t] => sem'[t] BY <1>5, VisitIs DEF Walk
    <3> QED BY <2>2, <3>1, <3>3, <3>4 DEF Woken
  <2>3. CASE Ready(t, s)
    <3>1. Woken(t, s) BY <1>2, <2>3 DEF NoLost, Looked
    <3>2. event[r].at = "walk" /\ t \in Ahead(r) => scb \in Tasks /\ t \in {scb} \cup RestOf(scb)
      BY <1>5
    <3> QED BY <2>1, <2>2, <3>1, <3>2
  <2>4. CASE ~Ready(t, s)
    <3>1. event[r].at = "set" /\ event[r].s = s
      <4>1. PICK q \in Runners : SetEvent(q) /\ event[q].s = s
        BY <1>2, <2>4, ReadyIs DEF Inside
      <4>2. event[q].at = "set" BY <4>1, SetEventIs
      <4>3. event'[q] # event[q]
        <5>1. CASE conn[s] \notin {"backlog", "alloc"}
          <6>1. Walk(q, IF select_waiting[s] = 0 THEN Tcpip ELSE First)
            BY <4>1, <5>1, SetEventIs
          <6> QED BY <4>2, <6>1, FinishEvent DEF Walk, TypeOK
        <5> QED BY <1>3, <5>1
      <4>4. \A x \in Runners \ {r} : event'[x] = event[x]
        BY <1>5, VisitIs, FinishEvent DEF Walk, TypeOK
      <4> QED BY <4>1, <4>2, <4>3, <4>4
    <3>2. select_waiting[s] = 1 BY <1>2, <1>3 DEF Waiting, Counted, Looked
    <3>3. t \in ToSet(select_cb_list) BY <1>2 DEF ListOK, Listed
    <3>4. scb \in Tasks /\ t \in {scb} \cup RestOf(scb) BY <1>5, <3>1, <3>2, <3>3
    <3> QED BY <2>1, <3>1, <3>4
  <2> QED BY <2>3, <2>4
<1> QED BY <1>4, <1>5, CallbackIs

LEMMA NoLostNext ==
  ASSUME TypeOK, ListOK, WalkOnList, Signals, Quiet, Loops, Callbacks, Waiting, NoLost, Next
  PROVE  NoLost'
<1>1. ASSUME Stack \/ \E u \in Tasks : Use(u) PROVE NoLost'
  <2> SUFFICES ASSUME NEW t \in Tasks, NEW s \in Set(t), Looked(t, s)', Ready(t, s)'
               PROVE  Woken(t, s)'
    BY DEF NoLost, Looked
  <2>1. Outside BY <1>1 DEF Outside
  <2>2. pc'[t] = pc[t] /\ todo'[t] = todo[t] /\ UNCHANGED <<found, select_cb_list>>
    BY <2>1, OutsideIs DEF Looked, Inside
  <2>3. Looked(t, s) BY <2>2 DEF Looked
  <2>4. UNCHANGED <<sem, outdated>>
    BY <1>1, UseIs DEF Stack, NewConn, Deliver, Sent, selects
  <2>5. \A r \in Runners : event'[r] = event[r] \/ event[r].at = "none"
    <3>1. CASE Stack
      BY <3>1 DEF Stack, NewConn, Deliver, Sent, CallBack, Idle, TypeOK
    <3>2. CASE \E u \in Tasks : Use(u)
      BY <3>2 DEF Use, AllocSocket, Adopt, Recv, Received, Write, Written, Close, FreeSocket,
                  CallBack, Idle, TypeOK
    <3> QED BY <1>1, <3>1, <3>2
  <2>6. Ready(t, s)
    <3>1. ASSUME NEW r \in Runners, SetEvent(r) PROVE event'[r] # event[r]
      <4>1. event[r].at = "set" BY <3>1, SetEventIs
      <4>2. Finish(r) \/ \E scb : Walk(r, scb) BY <3>1 DEF SetEvent
      <4> QED BY <4>1, <4>2, FinishEvent DEF Walk, TypeOK
    <3>2. ASSUME NEW r \in Runners PROVE ~SetEvent(r)
      BY <2>5, <3>1, SetEventIs
    <3> QED BY <2>3, <3>2, ReadyIs DEF Looked, Inside
  <2>7. Woken(t, s) BY <2>3, <2>6 DEF NoLost, Looked
  <2>8. \A r \in Runners : event[r].at = "walk" => event'[r] = event[r] /\ Ahead(r)' = Ahead(r)
    BY <2>2, <2>4, <2>5, AheadStill
  <2> QED BY <2>4, <2>7, <2>8 DEF Woken
<1>2. ASSUME NEW u \in Tasks, Selects(u) PROVE NoLost'
  <2> SUFFICES ASSUME NEW t \in Tasks, NEW s \in Set(t), Looked(t, s)', Ready(t, s)'
               PROVE  Woken(t, s)'
    BY DEF NoLost, Looked
  <2>1. UNCHANGED <<sockets, event>> BY <1>2, SelectsIs
  <2>2. Ready(t, s) BY <2>1 DEF Ready, sockets
  <2>3. ASSUME Looked(t, s), sem'[t] = sem[t] PROVE Woken(t, s)'
    <3>1. Woken(t, s) BY <2>2, <2>3 DEF NoLost, Looked
    <3>2. ASSUME NEW r \in Runners, event[r].at = "walk", t \in Ahead(r) PROVE t \in Ahead(r)'
      <4>1. CASE UNCHANGED <<select_cb_list, outdated>>
        BY <2>1, <3>2, <4>1, AheadStill
      <4>2. CASE Changed
        <5>1. r \in outdated' BY <3>2, <4>2 DEF Changed
        <5>2. ListOK' BY ListNext
        <5>3. t \in ToSet(select_cb_list)' BY <5>2 DEF ListOK, Looked, Listed
        <5> QED BY <5>1, <5>3 DEF Ahead
      <4>3. UNCHANGED <<select_cb_list, outdated>> \/ Changed
        BY <1>2 DEF Selects, Selecting, Select, Insert, Count, Rescan, SemTaken, Timeout, Uncount,
                    Unlink, Scan, selects
      <4> QED BY <4>1, <4>2, <4>3
    <3> QED BY <2>1, <2>3, <3>1, <3>2 DEF Woken
  <2>4. CASE t # u
    <3>1. Looked(t, s) /\ sem'[t] = sem[t] BY <1>2, <2>4, SelectsIs DEF Looked
    <3> QED BY <2>3, <3>1
  <2>5. CASE t = u
    <3> USE DEF At, Goto, Loop, selects
    <3>1. ASSUME NEW x \in Socks, Rescan(t, x) PROVE Woken(t, s)'
      <4>1. /\ pc[t] = "rescan" /\ UNCHANGED sem
            /\ found'[t] = (found[t] \/ Ready(t, x))
        BY <3>1 DEF Rescan, TypeOK
      <4>2. x \in todo[t] /\ \/ todo[t] = {x} /\ pc'[t] = IF found'[t] THEN "uncount" ELSE "wait"
                             \/ pc'[t] = pc[t] /\ todo'[t] = todo[t] \ {x}
        BY <3>1 DEF Rescan, Visited, TypeOK
      <4>3. ~found'[t] BY <4>1, <4>2 DEF Looked
      <4>4. ~found[t] /\ s # x BY <2>2, <4>1, <4>3
      <4>5. s \notin todo[t] BY <4>1, <4>2, <4>4 DEF Looked
      <4> QED BY <2>3, <4>1, <4>4, <4>5 DEF Looked
    <3>2. ASSUME NEW x \in Socks, Count(t, x) \/ Uncount(t, x) PROVE FALSE
      <4>1. \/ pc'[t] \in {"count", "uncount", "unlink"}
            \/ pc'[t] = "rescan" /\ todo'[t] = Set(t)
        BY <3>2 DEF Count, Uncount, Visited, TypeOK
      <4> QED BY <4>1 DEF Looked
    <3>3. ASSUME \/ Select(t) \/ Insert(t) \/ SemTaken(t) \/ Timeout(t) \/ Unlink(t) \/ Scan(t)
          PROVE  FALSE
      <4>1. pc'[t] \in {"insert", "count", "uncount", "idle", "scan"}
        BY <3>3 DEF Select, Insert, SemTaken, Timeout, Unlink, Leave, Scan, TypeOK
      <4> QED BY <4>1 DEF Looked
    <3> QED BY <1>2, <2>5, <3>1, <3>2, <3>3 DEF Selects, Selecting
  <2> QED BY <2>4, <2>5
<1> QED BY <1>1, <1>2, NoLostCallback, NextIs DEF Outside

-----------------------------------------------------------------------------
(* No wake-up without a reason. *)

\* t was woken or has found something
Why(t) == \/ sem[t] /\ pc[t] \in {"count", "rescan", "wait"}
          \/ found[t]
          \/ pc[t] \in {"uncount", "unlink"} /\ ~timedout[t]
          \/ pc[t] = "scan"

LEMMA ReasonsNext ==
  ASSUME TypeOK, ListOK, WalkOnList, Signals, Quiet, Loops, Callbacks, Waiting, Reasons, Next
  PROVE  Reasons'
<1> SUFFICES ASSUME NEW t \in Tasks, Why(t)' PROVE \E s \in Set(t) : Ready(t, s)'
  BY DEF Reasons, Why
\* what was ready still is
<1>1. ASSUME Why(t) PROVE \E s \in Set(t) : Ready(t, s)'
  <2>1. pc[t] \in Inside BY <1>1 DEF Why, Signals, Inside
  <2>2. PICK s \in Set(t) : Ready(t, s) BY <1>1 DEF Reasons, Why
  <2> QED BY <2>1, <2>2, ReadyIs
<1>2. CASE Outside
  <2>1. UNCHANGED <<found, timedout>>
        /\ (pc[t] \in Inside \/ pc'[t] \in Inside => pc'[t] = pc[t])
    BY <1>2, OutsideIs
  <2>2. CASE sem'[t] = sem[t]
    BY <1>1, <2>1, <2>2 DEF Why, Signals, Inside
  <2>3. CASE sem'[t] # sem[t]
    <3>1. PICK r \in Runners : CallbackStep(r)
      BY <1>2, <2>3, UseIs DEF Outside, Stack, NewConn, Deliver, Sent, selects
    <3>2. PICK scb \in Tasks : Walk(r, scb) /\ scb \in ToSet(select_cb_list)
      BY <2>3, <3>1, CallbackIs DEF Walk
    <3>3. t = scb BY <2>3, <3>2, VisitIs
    <3>4. pc[t] \in Inside BY <3>2, <3>3 DEF ListOK, Listed, Inside
    <3>5. Wakes(t, event[r].s)
      <4>1. sem'[t] \in BOOLEAN /\ sem[t] \in BOOLEAN BY TypeNext DEF TypeOK
      <4>2. sem'[t] <=> sem[t] \/ (~sem_signalled[t] /\ Wakes(t, event[r].s))
        BY <3>2, <3>3, VisitIs
      <4> HIDE DEF Wakes
      <4> QED BY <2>3, <4>1, <4>2
    <3>6. event[r].s \in Set(t) BY <3>5 DEF Wakes, Set
    <3> QED BY <3>4, <3>5, <3>6, ReadyIs
  <2> QED BY <2>2, <2>3
<1>3. ASSUME NEW u \in Tasks, Selects(u), u # t PROVE \E s \in Set(t) : Ready(t, s)'
  BY <1>1, <1>3, SelectsIs DEF Why
<1>4. ASSUME Selects(t) PROVE \E s \in Set(t) : Ready(t, s)'
  <2> USE DEF At, Goto, Loop, selects
  <2>0. /\ sem[t] => pc[t] \in {"count", "rescan", "wait", "uncount", "unlink"}
        /\ found[t] => pc[t] \in {"rescan", "uncount", "unlink"}
    BY DEF Signals, Listed
  <2>1. ASSUME NEW x \in Socks, Rescan(t, x) PROVE \E s \in Set(t) : Ready(t, s)'
    <3>1. /\ pc[t] = "rescan" /\ UNCHANGED <<sem, sockets>>
          /\ found'[t] = (found[t] \/ Ready(t, x))
          /\ x \in todo[t] /\ (pc'[t] = pc[t] \/ pc'[t] = IF found'[t] THEN "uncount" ELSE "wait")
      BY <2>1 DEF Rescan, Visited, TypeOK
    <3>2. CASE Ready(t, x)
      BY <3>1, <3>2 DEF Ready, Loops, sockets
    <3>3. CASE ~Ready(t, x)
      BY <1>1, <3>1, <3>3 DEF Why
    <3> QED BY <3>2, <3>3
  <2>2. ASSUME NEW x \in Socks, Count(t, x) PROVE Why(t)
    <3>1. pc[t] = "count" /\ UNCHANGED <<sem, found>> /\ pc'[t] \in {"count", "rescan"}
      BY <2>2 DEF Count, Visited, TypeOK
    <3> QED BY <3>1 DEF Why
  <2>3. ASSUME NEW x \in Socks, Uncount(t, x) PROVE Why(t)
    <3>1. pc[t] = "uncount" /\ UNCHANGED <<found, timedout>> /\ pc'[t] \in {"uncount", "unlink"}
      BY <2>3 DEF Uncount, Visited, TypeOK
    <3> QED BY <3>1 DEF Why
  <2>4. CASE SemTaken(t) BY <1>1, <2>4 DEF SemTaken, Why, TypeOK
  <2>5. CASE Timeout(t) BY <2>0, <2>5 DEF Timeout, Why, TypeOK
  <2>6. CASE Unlink(t) BY <1>1, <2>6 DEF Unlink, Leave, Why, TypeOK
  <2>7. CASE Select(t) BY <2>0, <2>7 DEF Select, Why, TypeOK
  <2>8. CASE Insert(t) BY <2>0, <2>8 DEF Insert, Why, TypeOK
  <2>9. CASE Scan(t) BY <2>0, <2>9 DEF Scan, Why, TypeOK
  <2> QED BY <1>1, <1>4, <2>1, <2>2, <2>3, <2>4, <2>5, <2>6, <2>7, <2>8, <2>9 DEF Selects, Selecting
<1> QED BY <1>2, <1>3, <1>4, NextIs

-----------------------------------------------------------------------------
(* The counter and the mailbox. *)

\* what Matches says of one socket
MatchOf(s) ==
  /\ conn[s] \in {"backlog", "alloc"} => early[s] + Plus(s) = recvmbox[s]
  /\ conn[s] = "open" => rcvevent[s] + Plus(s) - Minus(s) = recvmbox[s]
  /\ conn[s] = "alloc" => rcvevent[s] = 0

LEMMA MatchKept ==
  ASSUME NEW s, MatchOf(s), conn'[s] = conn[s], early'[s] = early[s],
         recvmbox'[s] = recvmbox[s], rcvevent'[s] = rcvevent[s],
         Plus(s)' = Plus(s), Minus(s)' = Minus(s)
  PROVE  MatchOf(s)'
BY DEF MatchOf

\* Which events may be under way for a socket.
LEMMA EventsAre ==
  ASSUME TypeOK, Callbacks, NEW s \in Socks
  PROVE  /\ Plus(s) \in {0, 1} /\ Minus(s) \in {0, 1}
         /\ Idle(Tcpip) \/ conn[s] = "none" => Plus(s) = 0
         /\ Minus(s) = 1 => conn[s] = "open"
         /\ \A t \in Tasks : event[t].at = "set" =>
              event[t].task = t /\ pc[t] = "event" /\ event[t].s \in Set(t)
<1>1. Tcpip \in Runners /\ Tasks \subseteq Runners BY DEF Runners
<1>2. \A t \in Tasks : event[t].at = "set" =>
        /\ event[t].task = t /\ pc[t] = "event" /\ event[t].s \in Set(t)
        /\ conn[event[t].s] = "open"
  BY <1>1 DEF Callbacks
<1>3. event[Tcpip].at = "set" => conn[event[Tcpip].s] # "none" BY <1>1 DEF Callbacks
<1> QED BY <1>2, <1>3 DEF Plus, Minus, Idle

\* A step of the tcpip thread that only calls back.
LEMMA PlusMinusCall ==
  ASSUME TypeOK, NEW evt, NEW z, NEW t, NEW then,
         event' = [event EXCEPT ![Tcpip] = Event(evt, z, t, then)]
  PROVE  \A s : /\ Minus(s)' = Minus(s)
                /\ Plus(s)' = IF evt = "RCVPLUS" /\ z = s THEN 1 ELSE 0
<1>1. event'[Tcpip] = Event(evt, z, t, then) /\ \A u \in Tasks : event'[u] = event[u]
  BY OwnerIs DEF TypeOK, Runners
<1> QED BY <1>1 DEF Plus, Minus, Event

LEMMA MatchesStack ==
  ASSUME TypeOK, Callbacks, Matches, Stack
  PROVE  Matches'
<1> SUFFICES ASSUME NEW s \in Socks PROVE MatchOf(s)' BY DEF Matches, MatchOf
<1>0. MatchOf(s) BY DEF Matches, MatchOf
<1>1. ASSUME NEW z \in Socks, NewConn(z) PROVE MatchOf(s)'
  <2>1. Plus(s)' = Plus(s) /\ Minus(s)' = Minus(s) BY <1>1 DEF NewConn, Plus, Minus
  <2>2. CASE s = z
    <3>1. Plus(s) = 0 BY <1>1, <2>2, EventsAre DEF NewConn
    <3>2. conn'[s] = "backlog" /\ early'[s] = 0 /\ recvmbox'[s] = 0
      BY <1>1, <2>2 DEF NewConn, TypeOK
    <3> QED BY <2>1, <3>1, <3>2 DEF MatchOf
  <2>3. CASE s # z
    BY <1>0, <1>1, <2>1, <2>3, MatchKept DEF NewConn, TypeOK
  <2> QED BY <2>2, <2>3
<1>2. ASSUME NEW z \in Socks, Deliver(z) PROVE MatchOf(s)'
  <2>1. Minus(s)' = Minus(s) /\ Plus(s)' = IF z = s THEN 1 ELSE 0
    BY <1>2, PlusMinusCall DEF Deliver, CallBack
  <2>2. Plus(s) = 0 BY <1>2, EventsAre DEF Deliver, CallBack
  <2>3. conn'[s] = conn[s] /\ early'[s] = early[s] /\ rcvevent'[s] = rcvevent[s]
    BY <1>2 DEF Deliver
  <2>4. CASE s = z
    <3>1. recvmbox'[s] = recvmbox[s] + 1 BY <1>2, <2>4 DEF Deliver, TypeOK
    <3>2. early[s] \in Int /\ rcvevent[s] \in Int /\ recvmbox[s] \in Int /\ Minus(s) \in Int
      BY SetAssumption, EventsAre DEF TypeOK
    <3> QED BY <1>0, <2>1, <2>2, <2>3, <2>4, <3>1, <3>2 DEF MatchOf
  <2>5. CASE s # z
    <3>1. recvmbox'[s] = recvmbox[s] BY <1>2, <2>5 DEF Deliver, TypeOK
    <3> QED BY <1>0, <2>1, <2>2, <2>3, <2>5, <3>1, MatchKept
  <2> QED BY <2>4, <2>5
<1>3. ASSUME NEW z \in Socks, Sent(z) PROVE MatchOf(s)'
  <2>1. Minus(s)' = Minus(s) /\ Plus(s)' = 0
    <3>1. event' = [event EXCEPT ![Tcpip] = Event("SENDPLUS", z, Tcpip, "idle")]
      BY <1>3 DEF Sent, CallBack
    <3>2. Minus(s)' = Minus(s) /\ Plus(s)' = IF "SENDPLUS" = "RCVPLUS" /\ z = s THEN 1 ELSE 0
      BY ONLY <3>1, TypeOK, PlusMinusCall
    <3> QED BY <3>2
  <2>2. Plus(s) = 0 BY <1>3, EventsAre DEF Sent, CallBack
  <2> QED BY <1>0, <1>3, <2>1, <2>2, MatchKept DEF Sent, sockets
<1> QED BY <1>1, <1>2, <1>3 DEF Stack

\* A callback that has counted its event, or goes on along the list.
LEMMA PlusMinusStep ==
  ASSUME TypeOK, ListOK, WalkOnList, Callbacks, NEW r \in Runners, CallbackStep(r), NEW s \in Socks
  PROVE  /\ r = Tcpip => Minus(s)' = Minus(s) /\ (conn[s] # "closing" => Plus(s)' = 0)
         /\ r # Tcpip => Plus(s)' = Plus(s)
         /\ r # Tcpip /\ event[r].s = s /\ event[r].at = "set" => Minus(s) = 1 /\ Minus(s)' = 0
         /\ r # Tcpip /\ (event[r].s # s \/ event[r].at # "set") => Minus(s)' = Minus(s)
<1>1. /\ \A q \in Runners \ {r} : event'[q] = event[q]
      /\ r # Tcpip => event'[r].at # "set"
      /\ conn[s] # "closing" => event'[r].at # "set" \/ event'[r].s # s
  <2>0. event[r].at # "none" BY CallbackIs
  <2>1. CASE Finish(r)
    <3>1. \A q \in Runners \ {r} : event'[q] = event[q] BY <2>0, <2>1, FinishEvent
    <3>2. CASE event'[r] = NoEvent BY <3>1, <3>2 DEF NoEvent
    <3>3. CASE \/ /\ event[r].then = "rcvplus"
                  /\ event'[r] = Event("RCVPLUS", event[r].s, event[r].task, "sendplus")
               \/ /\ event[r].then = "sendplus"
                  /\ event'[r] = Event("SENDPLUS", event[r].s, event[r].task, "freesocket")
      <4>1. event[r].then \in Closing /\ event'[r].s = event[r].s BY <3>3 DEF Closing, Event
      <4>2. r = Tcpip /\ conn[event[r].s] = "closing" BY <2>0, <4>1 DEF Callbacks
      <4> QED BY <3>1, <4>1, <4>2
    <3> QED BY <2>0, <2>1, <3>2, <3>3, FinishEvent
  <2>2. ASSUME NEW scb \in Tasks, Walk(r, scb)
        PROVE  event'[r].at # "set" /\ \A q \in Runners \ {r} : event'[q] = event[q]
    BY <2>2, VisitIs DEF TypeOK
  <2>3. Finish(r) \/ \E scb \in Tasks : Walk(r, scb) BY CallbackIs DEF Walk
  <2> QED BY <2>1, <2>2, <2>3
<1>2. CASE r = Tcpip
  BY <1>1, <1>2, OwnerIs DEF Plus, Minus, Runners
<1>3. CASE r # Tcpip
  <2>1. r \in Tasks /\ event'[Tcpip] = event[Tcpip] /\ \A t \in Tasks \ {r} : event'[t] = event[t]
    BY <1>1, <1>3 DEF Runners
  <2>2. Plus(s)' = Plus(s) BY <2>1 DEF Plus
  <2>3. CASE event[r].s = s /\ event[r].at = "set"
    <3>1. Minus(s) = 1 BY <2>1, <2>3 DEF Minus
    <3>2. \A t \in Tasks \ {r} : event[t].at = "set" => event[t].s # s
      BY <2>1, <2>3, EventsAre, OwnerIs
    <3>3. Minus(s)' = 0 BY <1>1, <1>3, <2>1, <3>2 DEF Minus
    <3> QED BY <1>3, <2>2, <2>3, <3>1, <3>3
  <2>4. CASE event[r].s # s \/ event[r].at # "set"
    <3>1. Minus(s)' = Minus(s) BY <1>1, <2>1, <2>4 DEF Minus
    <3> QED BY <1>3, <2>2, <2>4, <3>1
  <2> QED BY <2>3, <2>4
<1> QED BY <1>2, <1>3

LEMMA MatchesCallback ==
  ASSUME TypeOK, ListOK, WalkOnList, Callbacks, Matches, NEW r \in Runners, CallbackStep(r)
  PROVE  Matches'
<1> SUFFICES ASSUME NEW s \in Socks PROVE MatchOf(s)' BY DEF Matches, MatchOf
<1>0. MatchOf(s) BY DEF Matches, MatchOf
<1>1. /\ early[s] \in Int /\ rcvevent[s] \in Int /\ recvmbox[s] \in Int
      /\ Minus(s) \in {0, 1} /\ Plus(s) \in {0, 1}
  BY SetAssumption, EventsAre DEF TypeOK
<1>2. UNCHANGED <<conn, recvmbox>> BY DEF CallbackStep, SetEvent, NextEntry, sockets
\* the counters of a closing socket match nothing
<1> SUFFICES ASSUME conn[s] # "closing" PROVE MatchOf(s)'
  BY <1>2 DEF MatchOf
<1>3. CASE NextEntry(r)
  <2>1. event[r].at = "walk" /\ UNCHANGED sockets BY <1>3 DEF NextEntry
  <2>2. r = Tcpip => Plus(s) = 0 BY <2>1 DEF Plus
  <2>3. Plus(s)' = Plus(s) /\ Minus(s)' = Minus(s) BY <2>1, <2>2, PlusMinusStep
  <2> QED BY <1>0, <2>1, <2>3, MatchKept DEF sockets
<1>4. CASE SetEvent(r)
  <2> DEFINE e == event[r]
  <2>1. e.at = "set" BY <1>4, SetEventIs
  <2>2. CASE s # e.s
    <3>1. early'[s] = early[s] /\ rcvevent'[s] = rcvevent[s]
      BY <1>4, <2>2 DEF SetEvent, TypeOK
    <3>2. r = Tcpip => Plus(s) = 0 BY <2>2 DEF Plus
    <3>3. Plus(s)' = Plus(s) /\ Minus(s)' = Minus(s) BY <2>2, <3>2, PlusMinusStep
    <3> QED BY <1>0, <1>2, <3>1, <3>3, MatchKept
  <2>3. CASE s = e.s /\ r # Tcpip
    <3>1. r \in Tasks /\ e.evt = "RCVMINUS" /\ conn[s] = "open"
      BY <2>1, <2>3 DEF Callbacks, Runners
    <3>2. rcvevent'[s] = rcvevent[s] - 1
      <4>1. rcvevent' = [rcvevent EXCEPT ![s] = rcvevent[s] - 1]
        BY <1>4, <2>3, <3>1, SetEventIs
      <4> QED BY <4>1 DEF TypeOK
    <3>3. Plus(s)' = Plus(s) /\ Minus(s) = 1 /\ Minus(s)' = 0 BY <2>1, <2>3, PlusMinusStep
    <3>4. rcvevent[s] + Plus(s) - 1 = recvmbox[s] BY <1>0, <3>1, <3>3 DEF MatchOf
    <3>5. (rcvevent[s] - 1) + Plus(s) - 0 = recvmbox[s] BY <1>1, <3>4
    <3> QED BY <1>2, <3>1, <3>2, <3>3, <3>5 DEF MatchOf
  <2>4. CASE s = e.s /\ r = Tcpip
    <3>1. Minus(s)' = Minus(s) /\ Plus(s)' = 0 BY <2>4, PlusMinusStep
    <3>2. e.evt # "RCVMINUS" BY <2>1, <2>4, OwnerIs DEF Callbacks
    <3>3. CASE e.evt = "RCVPLUS"
      <4>1. Plus(s) = 1 BY <2>1, <2>4, <3>3 DEF Plus
      <4>2. CASE conn[s] \in {"backlog", "alloc"}
        <5>1. early' = [early EXCEPT ![s] = early[s] + 1] /\ UNCHANGED rcvevent
          BY <1>4, <2>4, <3>3, <4>2, SetEventIs
        <5>2. early'[s] = early[s] + 1 BY <5>1 DEF TypeOK
        <5> QED BY <1>0, <1>1, <1>2, <3>1, <4>1, <4>2, <5>1, <5>2 DEF MatchOf
      <4>3. CASE conn[s] \notin {"backlog", "alloc"}
        <5>1. rcvevent'[s] = rcvevent[s] + 1 BY <1>4, <2>4, <3>3, <4>3, SetEventIs DEF TypeOK
        <5> QED BY <1>0, <1>1, <1>2, <3>1, <4>1, <4>3, <5>1 DEF MatchOf
      <4> QED BY <4>2, <4>3
    <3>4. CASE e.evt # "RCVPLUS"
      <4>1. Plus(s) = 0 BY <2>4, <3>4 DEF Plus
      <4>2. early'[s] = early[s] /\ rcvevent'[s] = rcvevent[s]
        BY <1>4, <2>4, <3>2, <3>4, SetEventIs DEF TypeOK
      <4> QED BY <1>0, <1>2, <3>1, <4>1, <4>2, MatchKept
    <3> QED BY <3>3, <3>4
  <2> QED BY <2>2, <2>3, <2>4
<1> QED BY <1>3, <1>4 DEF CallbackStep

LEMMA MatchesUse ==
  ASSUME TypeOK, Callbacks, Loops, Matches, NEW t \in Tasks, Use(t)
  PROVE  Matches'
<1> SUFFICES ASSUME NEW s \in Socks PROVE MatchOf(s)' BY DEF Matches, MatchOf
<1>0. MatchOf(s) BY DEF Matches, MatchOf
<1>1. /\ early[s] \in Int /\ rcvevent[s] \in Int /\ recvmbox[s] \in Int
      /\ Minus(s) \in {0, 1} /\ Plus(s) \in {0, 1}
  BY SetAssumption, EventsAre DEF TypeOK
<1> PICK z \in Socks :
      \/ AllocSocket(t, z) \/ Adopt(t, z)
      \/ Recv(t, z) \/ Received(t, z) \/ Write(t, z) \/ Written(t, z)
      \/ Close(t, z) \/ FreeSocket(t, z)
  BY DEF Use
<1> USE DEF At, Goto, Ends, Call, Mine
<1>2. z \in Set(t) /\ pc[t] # "event"
  BY DEF AllocSocket, Adopt, Recv, Received, Write, Written, Close, FreeSocket, Loops
<1>3. s # z => /\ conn'[s] = conn[s] /\ early'[s] = early[s] /\ recvmbox'[s] = recvmbox[s]
               /\ rcvevent'[s] = rcvevent[s]
  BY DEF AllocSocket, Adopt, Recv, Received, Write, Written, Close, FreeSocket, sockets, TypeOK
\* nobody receives from the socket while its task is at rest
<1>4. \A u \in Tasks : event[u].at = "set" => event[u].s # z
  BY <1>2, EventsAre, OwnerIs
<1>5. Minus(z) = 0 BY <1>4 DEF Minus
<1>6. CASE AllocSocket(t, z)
  <2>1. Plus(s)' = Plus(s) /\ Minus(s)' = Minus(s) BY <1>6 DEF AllocSocket, Plus, Minus
  <2>2. CASE s = z
    <3>1. /\ conn[s] = "backlog" /\ conn'[s] = "alloc" /\ rcvevent'[s] = 0
          /\ early'[s] = early[s] /\ recvmbox'[s] = recvmbox[s]
      BY <1>6, <2>2 DEF AllocSocket, TypeOK
    <3> QED BY <1>0, <2>1, <3>1 DEF MatchOf
  <2> QED BY <1>0, <1>3, <2>1, <2>2, MatchKept
<1>7. CASE Adopt(t, z)
  <2>1. Plus(s)' = Plus(s) /\ Minus(s)' = Minus(s) BY <1>7 DEF Adopt, Plus, Minus
  <2>2. CASE s = z
    <3>1. conn[s] = "alloc" BY <1>7, <2>2 DEF Adopt, Loops
    <3>2. /\ rcvevent' = [rcvevent EXCEPT ![s] = rcvevent[s] + early[s]]
          /\ conn' = [conn EXCEPT ![s] = "open"] /\ UNCHANGED recvmbox
      BY <1>7, <2>2 DEF Adopt
    <3>3. rcvevent'[s] = rcvevent[s] + early[s] /\ conn'[s] = "open" /\ recvmbox'[s] = recvmbox[s]
      BY <3>2 DEF TypeOK
    <3>4. rcvevent[s] = 0 /\ early[s] + Plus(s) = recvmbox[s] BY <1>0, <3>1 DEF MatchOf
    <3>5. rcvevent'[s] + Plus(s) - Minus(s) = recvmbox[s] BY <1>1, <1>5, <2>2, <3>3, <3>4
    <3> QED BY <2>1, <3>3, <3>5 DEF MatchOf
  <2> QED BY <1>0, <1>3, <2>1, <2>2, MatchKept
<1>8. CASE Recv(t, z) /\ recvmbox' = [recvmbox EXCEPT ![z] = @ - 1]
                      /\ CallBack(t, "RCVMINUS", z, t, "received")
  <2>1. event'[t] = Event("RCVMINUS", z, t, "received")
        /\ event'[Tcpip] = event[Tcpip] /\ \A u \in Tasks \ {t} : event'[u] = event[u]
    BY <1>8, OwnerIs DEF CallBack, TypeOK, Runners
  <2>2. Plus(s)' = Plus(s) BY <2>1 DEF Plus
  <2>3. CASE s = z
    <3>1. Minus(s)' = 1 BY <2>1, <2>3 DEF Minus, Event
    <3>2. /\ conn[s] = "open" /\ UNCHANGED <<conn, early, rcvevent>>
          /\ recvmbox'[s] = recvmbox[s] - 1
      BY <1>8, <2>3 DEF Recv, TypeOK
    <3>3. rcvevent[s] + Plus(s) - 1 = recvmbox[s] - 1
      BY <1>0, <1>1, <1>5, <2>3, <3>2 DEF MatchOf
    <3> QED BY <2>2, <3>1, <3>2, <3>3 DEF MatchOf
  <2>4. CASE s # z
    <3>1. Minus(s)' = Minus(s)
      <4>1. event[t].at = "none" BY <1>8 DEF CallBack, Idle
      <4> QED BY <2>1, <2>4, <4>1 DEF Minus, Event
    <3> QED BY <1>0, <1>3, <2>2, <2>4, <3>1, MatchKept
  <2> QED BY <2>3, <2>4
<1>9. CASE \/ Recv(t, z) /\ UNCHANGED <<recvmbox, event>>
           \/ Received(t, z) \/ Written(t, z)
  <2>1. UNCHANGED <<conn, early, recvmbox, rcvevent, event>>
    BY <1>9 DEF Recv, Received, Written, sockets
  <2> QED BY <1>0, <2>1, MatchKept DEF Plus, Minus
<1>10. CASE Write(t, z)
  <2>1. event' = [event EXCEPT ![Tcpip] = Event("SENDMINUS", z, t, "written")] /\ Idle(Tcpip)
        /\ UNCHANGED <<conn, early, recvmbox, rcvevent>>
    BY <1>10 DEF Write, CallBack, sockets
  <2>2. Minus(s)' = Minus(s) /\ Plus(s)' = IF "SENDMINUS" = "RCVPLUS" /\ z = s THEN 1 ELSE 0
    BY ONLY <2>1, TypeOK, PlusMinusCall
  <2>3. Plus(s) = 0 BY <2>1, EventsAre
  <2> QED BY <1>0, <2>1, <2>2, <2>3, MatchKept
<1>11. CASE Close(t, z)
  <2>1. event' = [event EXCEPT ![Tcpip] = Event("ERROR", z, t, "rcvplus")] /\ Idle(Tcpip)
        /\ conn' = [conn EXCEPT ![z] = "closing"]
    BY <1>11 DEF Close, CallBack
  <2>2. CASE s = z
    <3>1. conn'[s] = "closing" BY <2>1, <2>2 DEF TypeOK
    <3> QED BY <3>1 DEF MatchOf
  <2>3. CASE s # z
    <3>1. Minus(s)' = Minus(s) /\ Plus(s)' = IF "ERROR" = "RCVPLUS" /\ z = s THEN 1 ELSE 0
      BY ONLY <2>1, TypeOK, PlusMinusCall
    <3>2. Plus(s) = 0 BY <2>1, EventsAre
    <3> QED BY <1>0, <1>3, <2>3, <3>1, <3>2, MatchKept
  <2> QED BY <2>2, <2>3
<1>12. CASE FreeSocket(t, z)
  <2>1. Plus(s)' = Plus(s) /\ Minus(s)' = Minus(s) BY <1>12 DEF FreeSocket, Plus, Minus
  <2>2. CASE s = z
    <3>1. conn'[s] = "none" BY <1>12, <2>2 DEF FreeSocket, TypeOK
    <3> QED BY <3>1 DEF MatchOf
  <2> QED BY <1>0, <1>3, <2>1, <2>2, MatchKept
<1>13. Recv(t, z) => \/ recvmbox' = [recvmbox EXCEPT ![z] = @ - 1]
                        /\ CallBack(t, "RCVMINUS", z, t, "received")
                     \/ UNCHANGED <<recvmbox, event>>
  BY DEF Recv
<1> QED BY <1>6, <1>7, <1>8, <1>9, <1>10, <1>11, <1>12, <1>13

LEMMA MatchesNext ==
  ASSUME TypeOK, ListOK, WalkOnList, Callbacks, Loops, Matches, Next
  PROVE  Matches'
<1>1. ASSUME NEW t \in Tasks, Selects(t) PROVE Matches'
  <2>1. UNCHANGED <<conn, early, recvmbox, rcvevent, event>>
    BY <1>1, SelectsIs DEF sockets
  <2> QED BY <2>1 DEF Matches, Plus, Minus
<1> QED BY <1>1, NextIs, MatchesStack, MatchesCallback, MatchesUse DEF Outside

-----------------------------------------------------------------------------
(* The invariant. *)

LEMMA InitInv ==
  ASSUME Init
  PROVE  IInv
<1> USE DEF Init, NoEvent
<1> USE SetAssumption
<1>1. TypeOK
  <2>1. select_cb_list \in Seq(Tasks) OBVIOUS
  <2>2. event \in [Runners -> EventRec] BY EventTyped
  <2> QED BY <2>1, <2>2 DEF TypeOK, Places
<1>2. ListOK /\ WalkOnList
  BY DEF ListOK, WalkOnList, Distinct, ToSet, Listed
<1>3. Signals /\ Quiet /\ Loops /\ Callbacks
  BY DEF Signals, Quiet, Loops, Callbacks, Inside, Listed, Runners
<1>4. Waiting /\ NoLost /\ Reasons
  BY DEF Waiting, Counted, NoLost, Reasons
<1>5. Matches
  <2>1. \A s \in Socks : Plus(s) = 0 /\ Minus(s) = 0 BY DEF Plus, Minus, Runners
  <2> QED BY <2>1 DEF Matches
<1> QED BY <1>1, <1>2, <1>3, <1>4, <1>5 DEF IInv

LEMMA StepInv ==
  ASSUME IInv, [Next]_vars
  PROVE  IInv'
<1>1. CASE Next
  <2> USE <1>1 DEF IInv
  <2>1. Waiting' BY NextIs, WaitingOutside, WaitingSelects
  <2> QED BY <2>1, TypeNext, ListNext, WalkOnListNext, SignalsNext, QuietNext, LoopsNext,
             CallbacksNext, NoLostNext, ReasonsNext, MatchesNext
<1>2. CASE UNCHANGED vars
  <2> USE <1>2 DEF IInv, vars, sockets, selects, locals
  <2>1. TypeOK' BY DEF TypeOK
  <2>2. ListOK' /\ WalkOnList' BY DEF ListOK, WalkOnList
  <2>3. Signals' /\ Quiet' /\ Loops' BY DEF Signals, Quiet, Loops
  <2>4. Callbacks' BY DEF Callbacks
  <2>5. Waiting' BY DEF Waiting, Counted
  <2>6. NoLost' /\ Reasons'
    <3>1. \A t \in Tasks, s \in Socks : Ready(t, s)' <=> Ready(t, s) BY DEF Ready
    <3>2. \A t \in Tasks, s \in Socks : Woken(t, s)' <=> Woken(t, s)
      <4>1. \A r \in Runners : Ahead(r)' = Ahead(r) BY DEF Ahead, Place
      <4> QED BY <4>1 DEF Woken
    <3> QED BY <3>1, <3>2, OwnerIs DEF NoLost, Reasons
  <2>7. Matches' BY DEF Matches, Plus, Minus
  <2> QED BY <2>1, <2>2, <2>3, <2>4, <2>5, <2>6, <2>7
<1> QED BY <1>1, <1>2

\* The invariant the results below rest on: types, the list, what a select_cb says, the
\* calls and callbacks under way, and the five facts the runs check.
THEOREM SocketsInductive == Spec => []IInv
BY InitInv, StepInv, PTL DEF Spec

\* The state of the socket layer keeps its types, and no counter of waiting tasks is
\* ever counted below zero (sockets.c:1160-1203).
THEOREM SocketsTypeCorrect == Spec => []TypeOK
<1>1. IInv => TypeOK BY DEF IInv
<1> QED BY <1>1, SocketsInductive, PTL

\* event_callback never follows the next pointer of an entry that is not in the list
\* (sockets.c:1368-1376), for any number of tasks and of callbacks at the same time.
THEOREM WalksStayOnList == Spec => []WalkOnList
<1>1. IInv => WalkOnList BY DEF IInv
<1> QED BY <1>1, SocketsInductive, PTL

\* Nobody sleeps in select over a ready socket without a wake-up under way
\* (sockets.c:1116-1190, 1318-1378).
THEOREM NobodySleepsReady == Spec => []NoLostWakeup
<1>1. IInv => NoLostWakeup BY DEF IInv, NoLost, NoLostWakeup, Woken, At
<1> QED BY <1>1, SocketsInductive, PTL

\* select_waiting is the number of tasks that wait for the socket
\* (sockets.c:1160-1203, 1318).
THEOREM WaitingIsCounted == Spec => []WaitingCounted
<1>1. ASSUME IInv PROVE WaitingCounted
  <2> SUFFICES ASSUME NEW s \in Socks
               PROVE  select_waiting[s] = Cardinality({t \in Tasks : Counted(t, s)})
    BY DEF WaitingCounted, Counted
  <2>1. Waiting BY <1>1 DEF IInv
  <2>2. CASE \E t \in Tasks : Counted(t, s)
    <3>1. PICK t \in Tasks : Counted(t, s) BY <2>2
    <3>2. {u \in Tasks : Counted(u, s)} = {t} BY <3>1, OwnerIs DEF Counted
    <3> QED BY <2>1, <3>1, <3>2, FS_Singleton DEF Waiting
  <2>3. CASE \A t \in Tasks : ~Counted(t, s)
    <3>1. {u \in Tasks : Counted(u, s)} = {} BY <2>3
    <3> QED BY <2>1, <2>3, <3>1, FS_EmptySet DEF Waiting
  <2> QED BY <2>2, <2>3
<1> QED BY <1>1, SocketsInductive, PTL

\* A select that was woken finds a socket that is ready (sockets.c:1222-1231, 1332-1356).
THEOREM WokenSelectsFind == Spec => []SelectFindsReady
<1>1. IInv => SelectFindsReady BY DEF IInv, Reasons, SelectFindsReady, At
<1> QED BY <1>1, SocketsInductive, PTL

\* The counter of events of an open socket, and the early count of a connection without
\* one, is what waits in its mailbox up to the callbacks under way
\* (sockets.c:392-400, 1269-1303).
THEOREM CountersFollowMbox == Spec => []EventsMatchMbox
<1>1. ASSUME IInv PROVE EventsMatchMbox
  <2> SUFFICES ASSUME NEW s \in Socks, conn[s] \in {"backlog", "alloc", "open"}
               PROVE  (IF conn[s] = "open" THEN rcvevent[s] ELSE early[s])
                        + Coming("RCVPLUS", s) - Coming("RCVMINUS", s) = recvmbox[s]
    BY DEF EventsMatchMbox
  <2>1. TypeOK /\ Callbacks /\ Matches BY <1>1 DEF IInv
  <2>2. \A r \in Runners : event[r].at = "set" => (r \in Tasks <=> event[r].evt = "RCVMINUS")
    BY <2>1 DEF Callbacks
  <2>3. Coming("RCVPLUS", s) = Plus(s)
    <3> DEFINE R == {r \in Runners : event[r].at = "set" /\ event[r].evt = "RCVPLUS"
                                     /\ event[r].s = s}
    <3>1. R \subseteq {Tcpip} BY <2>2 DEF Runners
    <3>2. Tcpip \in R <=> Plus(s) = 1 BY DEF Plus, Runners
    <3>3. Plus(s) = 1 \/ Plus(s) = 0 BY DEF Plus
    <3>4. CASE Plus(s) = 1
      <4>1. R = {Tcpip} BY <3>1, <3>2, <3>4
      <4> QED BY <3>4, <4>1, FS_Singleton DEF Coming
    <3>5. CASE Plus(s) = 0
      <4>1. R = {} BY <3>1, <3>2, <3>5
      <4> QED BY <3>5, <4>1, FS_EmptySet DEF Coming
    <3> QED BY <3>3, <3>4, <3>5
  <2>4. Coming("RCVMINUS", s) = Minus(s)
    <3> DEFINE R == {r \in Runners : event[r].at = "set" /\ event[r].evt = "RCVMINUS"
                                     /\ event[r].s = s}
    <3>1. R = {t \in Tasks : event[t].at = "set" /\ event[t].s = s} BY <2>2 DEF Runners
    <3>2. CASE \E t \in Tasks : event[t].at = "set" /\ event[t].s = s
      <4>1. PICK t \in Tasks : event[t].at = "set" /\ event[t].s = s BY <3>2
      <4>2. R = {t} BY <2>1, <3>1, <4>1, EventsAre, OwnerIs
      <4>3. Minus(s) = 1 BY <3>2 DEF Minus
      <4> QED BY <4>2, <4>3, FS_Singleton DEF Coming
    <3>3. CASE ~\E t \in Tasks : event[t].at = "set" /\ event[t].s = s
      <4>1. R = {} BY <3>1, <3>3
      <4>2. Minus(s) = 0 BY <3>3 DEF Minus
      <4> QED BY <4>1, <4>2, FS_EmptySet DEF Coming
    <3> QED BY <3>2, <3>3
  <2>5. CASE conn[s] = "open"
    BY <2>1, <2>3, <2>4, <2>5 DEF Matches
  <2>6. CASE conn[s] # "open"
    <3>1. Minus(s) = 0 BY <2>1, <2>6, EventsAre
    <3>2. early[s] + Plus(s) = recvmbox[s] BY <2>1, <2>6 DEF Matches
    <3>3. early[s] \in Int /\ Plus(s) \in {0, 1} BY <2>1, EventsAre DEF TypeOK
    <3> QED BY <2>3, <2>4, <2>6, <3>1, <3>2, <3>3
  <2> QED BY <2>5, <2>6
<1> QED BY <1>1, SocketsInductive, PTL

=============================================================================
