--------------------------- MODULE NetconnProofs ---------------------------
(***************************************************************************)
(* Proofs about Netconn, for any number of unread messages.                 *)
(***************************************************************************)
EXTENDS Netconn, TLAPS

Live  == pcb.state # "freed"
Opens == {"CLOSED", "SYN_SENT", "ESTABLISHED", "FIN_WAIT"}   \* no FIN has come
Sends == {"ESTABLISHED", "CLOSE_WAIT"}

\* the end of the data waits in the mailbox
Tells(s) == \E i \in DOMAIN s : s[i] = "end"

\* Data stop at the bound; the end of the data comes once, and then an error.
Fits ==
  Len(recvmbox) <= MaxUnread + (IF pcb.state \in Opens THEN 0 ELSE IF Live THEN 1 ELSE 2)

\* A pcb that lives calls back the netconn it belongs to, or nobody.
Attached ==
  Live => IF conn.pcb THEN pcb.arg /\ pcb.err /\ pcb.poll
          ELSE ~pcb.arg /\ ~pcb.recv /\ ~pcb.sent /\ ~pcb.poll /\ ~pcb.err

Flags ==
  /\ conn.current_msg <=> Blocked
  /\ ~conn.pcb => conn.state = "NONE"
  /\ conn.nonblocking_connect => conn.state = "CONNECT" \/ ~conn.pcb
  /\ conn.partly => conn.state = "WRITE" \/ ~conn.pcb

\* What the netconn does is what its task asked for, on a pcb that permits it.
Operation ==
  /\ conn.state = "CONNECT" <=> pcb.state = "SYN_SENT"
  /\ conn.state = "CONNECT" /\ conn.current_msg => call = "connect"
  /\ conn.state = "WRITE" => pcb.state \in Sends /\ call = "write"
  /\ conn.state = "CLOSE" => call \in Shuts
  /\ conn.state = "CLOSE" /\ call # "shut_wr" => pcb.state \in Sends /\ ~conn.mbox

\* A call that is under way has its answer, or its message is kept, never both.
Caller ==
  /\ conn.current_msg => phase = "inside" /\ ~sem
  /\ phase = "inside" => sem \/ conn.current_msg
  /\ sem => phase = "inside"

Deleted ==
  /\ phase = "gone" => ~conn.pcb /\ ~conn.mbox
  /\ phase = "inside" /\ call = "delete" => ~conn.mbox /\ (sem => ~conn.pcb)

\* A task that may read has a pcb that will tell it the end, or the end waits for it;
\* it has taken the end and not yet noted it only within do_recv.
EndTold ==
  /\ conn.mbox /\ ~conn.last_err /\ ~(call = "recved_end" /\ phase \in {"posted", "inside"})
       => Tells(recvmbox) \/ (conn.pcb /\ pcb.recv /\ pcb.state \in Opens)
  /\ phase = "fetch" => conn.mbox /\ (conn.last_err => Tells(recvmbox))

IInv == TypeOK /\ Fits /\ Attached /\ Flags /\ Operation /\ Caller /\ Deleted /\ EndTold

-----------------------------------------------------------------------------
(* The mailbox. *)

Item == {"data", "end"}

\* A message that arrives makes the mailbox longer by one and keeps what is in it.
LEMMA AppendTells ==
  ASSUME NEW s \in Seq(Item), NEW m \in Item
  PROVE  /\ Append(s, m) \in Seq(Item) /\ Len(Append(s, m)) = Len(s) + 1
         /\ Tells(s) \/ m = "end" => Tells(Append(s, m))
<1>1. /\ Append(s, m) \in Seq(Item) /\ Len(s) \in Nat
      /\ Len(Append(s, m)) = Len(s) + 1
      /\ DOMAIN s = 1..Len(s) /\ DOMAIN Append(s, m) = 1..(Len(s) + 1)
      /\ Append(s, m)[Len(s) + 1] = m
      /\ \A i \in 1..Len(s) : Append(s, m)[i] = s[i]
  OBVIOUS
<1>2. \A i \in 1..Len(s) : i \in 1..(Len(s) + 1)
  BY <1>1
<1>3. QED BY <1>1, <1>2 DEF Tells

\* A message that is taken out leaves the end of the data unless it was the end.
LEMMA TailTells ==
  ASSUME NEW s \in Seq(Item), s # <<>>
  PROVE  /\ Tail(s) \in Seq(Item) /\ Len(Tail(s)) <= Len(s) /\ Head(s) \in Item
         /\ Tells(s) /\ Head(s) # "end" => Tells(Tail(s))
<1>1. /\ Tail(s) \in Seq(Item) /\ Head(s) \in Item /\ Len(s) \in Nat
      /\ Len(Tail(s)) = Len(s) - 1
      /\ DOMAIN s = 1..Len(s) /\ DOMAIN Tail(s) = 1..(Len(s) - 1)
      /\ Head(s) = s[1]
      /\ \A i \in 1..(Len(s) - 1) : Tail(s)[i] = s[i + 1]
  OBVIOUS
<1>2. ASSUME Tells(s), Head(s) # "end" PROVE Tells(Tail(s))
  <2>1. PICK i \in 1..Len(s) : s[i] = "end"
    BY <1>1, <1>2 DEF Tells
  <2>2. i - 1 \in 1..(Len(s) - 1) /\ (i - 1) + 1 = i
    BY <2>1, <1>1, <1>2
  <2>3. QED BY <2>1, <2>2, <1>1 DEF Tells
<1>3. QED BY <1>1, <1>2

-----------------------------------------------------------------------------
(* The start. *)

LEMMA InitIInv == Init => IInv
<1> SUFFICES ASSUME Init PROVE IInv
  OBVIOUS
<1>1. TypeOK
  <2>1. conn \in Conn BY DEF Init, Conn
  <2>2. PICK s \in {"CLOSED", "ESTABLISHED"} :
          pcb = setup_tcp([state |-> s, rxclosed |-> FALSE, arg |-> FALSE, recv |-> FALSE,
                           sent |-> FALSE, poll |-> FALSE, err |-> FALSE])
    BY DEF Init
  <2>3. pcb \in Pcb BY <2>2 DEF setup_tcp, Pcb, Active
  <2>4. recvmbox \in Seq({"data", "end"}) /\ Len(recvmbox) = 0 BY DEF Init
  <2>5. Len(recvmbox) <= MaxUnread + 2 BY <2>4, UnreadAssumption
  <2>6. QED BY <2>1, <2>3, <2>4, <2>5 DEF Init, TypeOK, Calls, Shuts
<1>2. Fits
  BY UnreadAssumption DEF Init, Fits, Opens, setup_tcp
<1>3. Attached /\ Flags /\ Operation /\ Caller /\ Deleted /\ EndTold
  BY DEF Init, setup_tcp, Attached, Flags, Blocked, Operation, Caller, Deleted, EndTold,
         Live, Opens
<1>4. QED BY <1>1, <1>2, <1>3 DEF IInv

-----------------------------------------------------------------------------
(* The task. *)

LEMMA AskKeeps == ASSUME IInv, NEW c \in Calls, Ask(c) PROVE IInv'
<1> USE DEF IInv, Ask
<1>1. TypeOK' BY DEF TypeOK
<1>2. Fits' /\ Attached' /\ Flags' BY DEF Fits, Attached, Flags, Live, Blocked
<1>3. Operation' /\ Caller' BY DEF Operation, Caller, Flags, Blocked
<1>4. Deleted' /\ EndTold' BY DEF Deleted, EndTold, Calls, Shuts
<1>5. QED BY <1>1, <1>2, <1>3, <1>4

\* A reader goes to its mailbox, knowing of no error.
LEMMA RecvKeeps == ASSUME IInv, Recv PROVE IInv'
<1> USE DEF IInv, Recv
<1>1. TypeOK' BY DEF TypeOK
<1>2. Fits' /\ Attached' /\ Flags' BY DEF Fits, Attached, Flags, Live, Blocked
<1>3. Operation' /\ Caller' BY DEF Operation, Caller, Flags, Blocked
<1>4. Deleted' /\ EndTold' BY DEF Deleted, EndTold
<1>5. QED BY <1>1, <1>2, <1>3, <1>4

\* It takes a message, and with the end of the data it is bound to note it.
LEMMA FetchKeeps == ASSUME IInv, Fetch PROVE IInv'
<1> USE DEF IInv, Fetch
<1> DEFINE h == Head(recvmbox)
<1>1. /\ recvmbox' \in Seq(Item) /\ Len(recvmbox') <= Len(recvmbox) /\ h \in Item
      /\ Tells(recvmbox) /\ h # "end" => Tells(recvmbox')
      /\ Len(recvmbox') \in Nat /\ Len(recvmbox) \in Nat
  BY TailTells DEF TypeOK, Item
<1>2. TypeOK' BY <1>1, UnreadAssumption DEF TypeOK, Recved, Item
<1>3. Fits' BY <1>1, UnreadAssumption DEF Fits, Live
<1>4. Attached' /\ Flags' BY DEF Attached, Flags, Live, Blocked
<1>5. Operation' /\ Caller' BY DEF Operation, Caller, Flags, Blocked
<1>6. Deleted' BY DEF Deleted
<1>7. EndTold'
  <2>1. CASE h = "end" BY <2>1 DEF EndTold
  <2>2. CASE h # "end" BY <2>2, <1>1 DEF EndTold
  <2>3. QED BY <2>1, <2>2
<1>8. QED BY <1>2, <1>3, <1>4, <1>5, <1>6, <1>7

\* A call ends with its answer; the task notes an error and the end of the data.
LEMMA ReturnKeeps == ASSUME IInv, Return PROVE IInv'
<1> USE DEF IInv, Return
<1> DEFINE e == conn.last_err \/ fatal \/ call = "recved_end"
<1>1. conn' \in Conn
  <2>1. conn \in Conn /\ e \in BOOLEAN BY DEF TypeOK
  <2>2. conn' = [conn EXCEPT !.last_err = e] OBVIOUS
  <2> HIDE DEF e
  <2>3. QED BY <2>1, <2>2 DEF Conn
<1>2. /\ conn'.state = conn.state /\ conn'.current_msg = conn.current_msg
      /\ conn'.pcb = conn.pcb /\ conn'.partly = conn.partly /\ conn'.mbox = conn.mbox
      /\ conn'.nonblocking_connect = conn.nonblocking_connect
      /\ conn'.last_err = e
  BY DEF TypeOK, Conn
<1>3. TypeOK' BY <1>1 DEF TypeOK
<1>4. Fits' /\ Attached' /\ Flags' BY <1>2 DEF Fits, Attached, Flags, Live, Blocked
<1>5. Operation' /\ Caller' BY <1>2 DEF Operation, Caller, Flags, Blocked
<1>6. Deleted' BY <1>2 DEF Deleted, Caller
<1>7. EndTold' BY <1>2 DEF EndTold
<1>8. QED BY <1>3, <1>4, <1>5, <1>6, <1>7
-----------------------------------------------------------------------------
(* The handlers. *)

\* An answer without effect ends a call other than delete.
LEMMA AnswerKeeps ==
  ASSUME IInv, Handled, NEW b \in BOOLEAN, Answer(b), call' = call, call # "delete"
  PROVE  IInv'
<1> USE DEF IInv, Handled, Answer
<1>1. TypeOK' BY DEF TypeOK
<1>2. Fits' /\ Attached' /\ Flags' BY DEF Fits, Attached, Flags, Live, Blocked
<1>3. ~conn.current_msg BY DEF Caller
<1>4. Operation' /\ Caller' BY <1>3 DEF Operation, Caller, Flags, Blocked
<1>5. Deleted' /\ EndTold' BY DEF Deleted, EndTold
<1>6. QED BY <1>1, <1>2, <1>4, <1>5

LEMMA RecvedKeeps == ASSUME IInv, do_recv PROVE IInv'
BY AnswerKeeps DEF do_recv, Recved

\* what setup_tcp leaves as it was, and what it sets
LEMMA SetupTcp ==
  ASSUME NEW p \in Pcb
  PROVE  /\ setup_tcp(p) \in Pcb
         /\ setup_tcp(p).state = p.state
         /\ setup_tcp(p).arg /\ setup_tcp(p).recv /\ setup_tcp(p).sent
         /\ setup_tcp(p).poll /\ setup_tcp(p).err
         /\ \A s \in {"SYN_SENT", "ESTABLISHED"} :
              LET q == [setup_tcp(p) EXCEPT !.state = s]
              IN  q \in Pcb /\ q.state = s /\ q.arg /\ q.recv /\ q.sent /\ q.poll /\ q.err
BY DEF setup_tcp, Pcb, Active

LEMMA ConnectKeeps == ASSUME IInv, do_connect PROVE IInv'
<1> USE DEF IInv, Handled
<1>1. CASE ~conn.pcb /\ Answer(TRUE)
  BY <1>1, AnswerKeeps DEF do_connect
<1>2. CASE conn.pcb /\ conn.state # "NONE" /\ Answer(FALSE)
  BY <1>2, AnswerKeeps DEF do_connect
<1> DEFINE Refused == /\ conn.pcb /\ conn.state = "NONE"
                      /\ pcb' = setup_tcp(pcb) /\ sem' = TRUE
                      /\ UNCHANGED <<conn, fatal, recvmbox>>
           nb == call = "connect_nb"
           Tried == /\ conn.pcb /\ conn.state = "NONE" /\ pcb.state = "CLOSED"
                    /\ pcb' = [setup_tcp(pcb) EXCEPT !.state = "SYN_SENT"]
                    /\ conn' = [conn EXCEPT !.state = "CONNECT", !.nonblocking_connect = nb,
                                            !.current_msg = ~nb]
                    /\ sem' = nb
                    /\ UNCHANGED <<fatal, recvmbox>>
<1>3. /\ phase = "posted" /\ ~Dangling /\ phase' = "inside" /\ call' = call
      /\ call \in {"connect", "connect_nb"}
  BY DEF do_connect
<1>4. ~conn.current_msg /\ ~sem BY <1>3 DEF Caller
<1>5. CASE Refused
  <2>1. /\ pcb' \in Pcb /\ pcb'.state = pcb.state
        /\ pcb'.arg /\ pcb'.recv /\ pcb'.poll /\ pcb'.err
    BY <1>5, SetupTcp DEF TypeOK
  <2>2. TypeOK' BY <1>3, <1>5, <2>1 DEF TypeOK
  <2>3. Fits' /\ Attached' /\ Flags' BY <1>5, <2>1 DEF Fits, Attached, Flags, Live, Blocked
  <2>4. Operation' /\ Caller' BY <1>3, <1>4, <1>5, <2>1 DEF Operation, Caller
  <2>5. Deleted' /\ EndTold' BY <1>3, <1>5, <2>1 DEF Deleted, EndTold
  <2>6. QED BY <2>2, <2>3, <2>4, <2>5
<1>6. CASE Tried
  <2>1. /\ pcb' \in Pcb /\ pcb'.state = "SYN_SENT"
        /\ pcb'.arg /\ pcb'.recv /\ pcb'.poll /\ pcb'.err
    BY <1>6, SetupTcp DEF TypeOK
  <2>2. /\ conn' \in Conn /\ conn'.state = "CONNECT" /\ conn'.nonblocking_connect = nb
        /\ conn'.current_msg = ~nb /\ conn'.pcb = conn.pcb /\ conn'.partly = conn.partly
        /\ conn'.last_err = conn.last_err /\ conn'.mbox = conn.mbox
    BY <1>6 DEF TypeOK, Conn
  <2>3. TypeOK' BY <1>3, <1>6, <2>1, <2>2 DEF TypeOK
  <2>4. Fits' BY <1>6, <2>1 DEF Fits, Live, Opens
  <2>5. Attached' BY <1>6, <2>1, <2>2 DEF Attached
  <2>6. Flags' BY <1>6, <2>2 DEF Flags, Blocked
  <2>7. Operation' /\ Caller' BY <1>3, <1>6, <2>1, <2>2 DEF Operation, Caller
  <2>8. Deleted' BY <1>3, <2>2 DEF Deleted
  <2>9. EndTold' BY <1>3, <1>6, <2>1, <2>2 DEF EndTold, Opens
  <2>10. QED BY <2>3, <2>4, <2>5, <2>6, <2>7, <2>8, <2>9
<1>7. (~conn.pcb /\ Answer(TRUE)) \/ (conn.pcb /\ conn.state # "NONE" /\ Answer(FALSE))
        \/ Refused \/ Tried
  BY DEF do_connect
<1>8. QED BY <1>1, <1>2, <1>5, <1>6, <1>7

\* A netconn that writes a message of its task, and the step that takes it up
Writing(c) ==
  /\ c \in Conn /\ c.pcb /\ conn.pcb /\ conn.state \in {"NONE", "WRITE"}
  /\ c.state = "WRITE" /\ c.current_msg /\ ~c.nonblocking_connect
  /\ c.last_err = conn.last_err /\ c.mbox = conn.mbox
  /\ call \in {"write", "write_nb"} /\ call' = call
  /\ phase \in {"posted", "inside"} /\ phase' = "inside" /\ ~sem
  /\ fatal' \in BOOLEAN /\ UNCHANGED <<pcb, recvmbox>>

LEMMA WriteDoneKeeps == ASSUME IInv, NEW c, Writing(c), WriteDone(c) PROVE IInv'
<1> USE DEF IInv, Writing, WriteDone
<1>1. /\ conn' \in Conn /\ conn'.state = "NONE" /\ conn'.current_msg = FALSE
      /\ conn'.partly = FALSE /\ conn'.nonblocking_connect = FALSE /\ conn'.pcb
      /\ conn'.last_err = conn.last_err /\ conn'.mbox = conn.mbox
  BY DEF Conn
<1>2. TypeOK' BY <1>1 DEF TypeOK
<1>3. Fits' /\ Attached' /\ Flags' BY <1>1 DEF Fits, Attached, Flags, Live, Blocked
<1>4. Operation' /\ Caller' BY <1>1 DEF Operation, Caller
<1>5. Deleted' BY <1>1 DEF Deleted
<1>6. EndTold' BY <1>1 DEF EndTold
<1>7. QED BY <1>2, <1>3, <1>4, <1>5, <1>6

LEMMA WriteWaitsKeeps == ASSUME IInv, NEW c, Writing(c), WriteWaits(c) PROVE IInv'
<1> USE DEF IInv, Writing, WriteWaits
<1>1. PICK b \in BOOLEAN : conn' = [c EXCEPT !.partly = @ \/ b]
  OBVIOUS
<1>2. c.partly \in BOOLEAN /\ (c.partly \/ b) \in BOOLEAN BY DEF Conn
<1>3. /\ conn' \in Conn /\ conn'.state = "WRITE" /\ conn'.current_msg
      /\ conn'.nonblocking_connect = FALSE /\ conn'.pcb
      /\ conn'.last_err = conn.last_err /\ conn'.mbox = conn.mbox
  BY <1>1, <1>2 DEF Conn
<1>4. TypeOK' BY <1>3 DEF TypeOK
<1>5. Fits' /\ Attached' /\ Flags' BY <1>3 DEF Fits, Attached, Flags, Live, Blocked
<1>6. Operation' /\ Caller' BY <1>3 DEF Operation, Caller, Sends
<1>7. Deleted' BY <1>3 DEF Deleted
<1>8. EndTold' BY <1>3 DEF EndTold
<1>9. QED BY <1>4, <1>5, <1>6, <1>7, <1>8

LEMMA WriteKeeps == ASSUME IInv, do_write PROVE IInv'
<1> USE DEF IInv
<1> DEFINE c == [conn EXCEPT !.state = "WRITE", !.current_msg = TRUE, !.partly = FALSE]
           Works == /\ ~conn.last_err /\ conn.state = "NONE" /\ conn.pcb
                    /\ WriteDone(c) \/ WriteWaits(c)
                    /\ fatal' = (pcb.state \notin {"ESTABLISHED", "CLOSE_WAIT"})
                    /\ UNCHANGED <<pcb, recvmbox>>
<1>1. /\ phase = "posted" /\ ~Dangling /\ phase' = "inside" /\ call' = call
      /\ call \in {"write", "write_nb"}
  BY DEF do_write, Handled
<1>2. Answer(TRUE) \/ Answer(FALSE) \/ Works
  BY DEF do_write
<1>3. CASE Answer(TRUE) \/ Answer(FALSE)
  BY <1>1, <1>3, AnswerKeeps DEF Handled
<1>4. CASE Works
  <2>1. /\ c \in Conn /\ c.state = "WRITE" /\ c.current_msg /\ c.pcb = conn.pcb
        /\ c.nonblocking_connect = conn.nonblocking_connect
        /\ c.last_err = conn.last_err /\ c.mbox = conn.mbox
    BY DEF TypeOK, Conn
  <2>2. ~conn.nonblocking_connect BY <1>4 DEF Flags
  <2>3. ~sem BY <1>1 DEF Caller
  <2>4. Writing(c) BY <1>1, <1>4, <2>1, <2>2, <2>3 DEF Writing
  <2> HIDE DEF c
  <2>5. QED BY <1>4, <2>4, WriteDoneKeeps, WriteWaitsKeeps
<1>5. QED BY <1>2, <1>3, <1>4

\* what tcp_close and tcp_shutdown make of a pcb
LEMMA ShutFacts ==
  ASSUME NEW p \in Pcb, NEW c \in Shuts, NEW r \in Shut(p, c)
  PROVE  /\ r \in Pcb /\ r.arg = p.arg /\ r.recv = p.recv /\ r.sent = p.sent
         /\ r.poll = p.poll /\ r.err = p.err
         /\ c = "shut_rd" => r.state = p.state
         /\ c = "shut_wr" => \/ p.state = "ESTABLISHED" /\ r.state = "FIN_WAIT"
                             \/ p.state = "CLOSE_WAIT" /\ r.state = "LAST_ACK"
         /\ Both(c) => \/ r.state = "freed"
                       \/ r.state = p.state /\ p.state \notin {"CLOSED", "SYN_SENT"}
                       \/ p.state = "ESTABLISHED" /\ r.state \in {"FIN_WAIT", "TIME_WAIT"}
                       \/ p.state = "CLOSE_WAIT" /\ r.state = "LAST_ACK"
<1>1. \A s \in Active \cup {"CLOSED", "TIME_WAIT", "freed"} :
        LET q == [p EXCEPT !.state = s]
        IN  q \in Pcb /\ q.state = s /\ q.arg = p.arg /\ q.recv = p.recv
            /\ q.sent = p.sent /\ q.poll = p.poll /\ q.err = p.err
  BY DEF Pcb
<1>2. \A s \in Active \cup {"CLOSED", "TIME_WAIT", "freed"} :
        LET q == [p EXCEPT !.state = s, !.rxclosed = TRUE]
        IN  q \in Pcb /\ q.state = s /\ q.arg = p.arg /\ q.recv = p.recv
            /\ q.sent = p.sent /\ q.poll = p.poll /\ q.err = p.err
  BY DEF Pcb
<1>3. p.state \in Active \cup {"CLOSED", "TIME_WAIT", "freed"} BY DEF Pcb
<1>4. CASE c = "shut_rd"
  <2>1. r = [p EXCEPT !.state = p.state, !.rxclosed = TRUE]
    BY <1>4 DEF Shut
  <2>2. ~Both(c) /\ c # "shut_wr" BY <1>4 DEF Both
  <2>3. QED BY <1>2, <1>3, <2>1, <2>2
<1>5. CASE c = "shut_wr"
  <2>1. \/ p.state = "ESTABLISHED" /\ r = [p EXCEPT !.state = "FIN_WAIT"]
        \/ p.state = "CLOSE_WAIT" /\ r = [p EXCEPT !.state = "LAST_ACK"]
    BY <1>5 DEF Shut
  <2>2. ~Both(c) /\ c # "shut_rd" BY <1>5 DEF Both
  <2>3. PICK s \in Active :
          /\ r = [p EXCEPT !.state = s]
          /\ \/ p.state = "ESTABLISHED" /\ s = "FIN_WAIT"
             \/ p.state = "CLOSE_WAIT" /\ s = "LAST_ACK"
    BY <2>1 DEF Active
  <2>4. QED BY <1>1, <1>5, <2>2, <2>3
<1>6. CASE c \in {"close", "delete"}
  <2>1. PICK s \in Active \cup {"CLOSED", "TIME_WAIT", "freed"} :
          /\ r = [p EXCEPT !.state = s, !.rxclosed = TRUE]
          /\ \/ s = "freed"
             \/ s = p.state /\ p.state \notin {"CLOSED", "SYN_SENT"}
             \/ p.state = "ESTABLISHED" /\ s \in {"FIN_WAIT", "TIME_WAIT"}
             \/ p.state = "CLOSE_WAIT" /\ s = "LAST_ACK"
    <3>1. CASE p.state \in {"CLOSED", "SYN_SENT"} BY <1>6, <3>1 DEF Shut
    <3>2. CASE p.state = "ESTABLISHED" BY <1>6, <3>2 DEF Shut, Active
    <3>3. CASE p.state = "CLOSE_WAIT" BY <1>6, <3>3 DEF Shut, Active
    <3>4. CASE p.state \notin {"CLOSED", "SYN_SENT", "ESTABLISHED", "CLOSE_WAIT"}
      BY <1>3, <1>6, <3>4 DEF Shut
    <3>5. QED BY <3>1, <3>2, <3>3, <3>4
  <2>2. c # "shut_rd" /\ c # "shut_wr" BY <1>6
  <2>3. QED BY <1>2, <2>1, <2>2
<1>7. QED BY <1>4, <1>5, <1>6 DEF Shuts

\* the callbacks that stay on while a close is tried, and after one that failed
LEMMA QuietFacts ==
  ASSUME NEW p \in Pcb, NEW c \in Shuts
  PROVE  LET q == Quiet(p, c)  r == Restored(q, c) IN
         /\ q \in Pcb /\ q.state = p.state
         /\ Both(c) => ~q.arg /\ ~q.poll /\ ~q.err /\ ~q.recv /\ ~q.sent
         /\ ~Both(c) => q.arg = p.arg /\ q.poll = p.poll /\ q.err = p.err
         /\ c = "shut_wr" => q.recv = p.recv
         /\ r \in Pcb /\ r.state = p.state
         /\ r.arg /\ r.poll /\ r.err /\ r.recv = q.recv
<1> DEFINE b == Both(c)
           w == c = "shut_wr"
           d == c = "shut_rd"
           q == Quiet(p, c)
<1>1. b \in BOOLEAN /\ w \in BOOLEAN /\ d \in BOOLEAN BY DEF Both
<1>2. q = [p EXCEPT !.arg = @ /\ ~b, !.poll = @ /\ ~b, !.err = @ /\ ~b,
                    !.recv = @ /\ w, !.sent = @ /\ d]
  BY DEF Quiet
<1>3. b => ~w /\ ~d BY DEF Both
<1> HIDE DEF b, w, d, q
<1>4. /\ q \in Pcb /\ q.state = p.state
      /\ q.arg = (p.arg /\ ~b) /\ q.poll = (p.poll /\ ~b) /\ q.err = (p.err /\ ~b)
      /\ q.recv = (p.recv /\ w) /\ q.sent = (p.sent /\ d)
  <2> DEFINE arg == p.arg /\ ~b  poll == p.poll /\ ~b  err == p.err /\ ~b
             recv == p.recv /\ w  sent == p.sent /\ d
  <2>1. q = [p EXCEPT !.arg = arg, !.poll = poll, !.err = err, !.recv = recv, !.sent = sent]
    BY <1>2
  <2>2. /\ arg \in BOOLEAN /\ poll \in BOOLEAN /\ err \in BOOLEAN
        /\ recv \in BOOLEAN /\ sent \in BOOLEAN
    OBVIOUS
  <2> HIDE DEF arg, poll, err, recv, sent
  <2>3. q \in Pcb
    <3>1. [p EXCEPT !.arg = arg, !.poll = poll, !.err = err] \in Pcb
      BY <2>2 DEF Pcb
    <3>2. q = [[p EXCEPT !.arg = arg, !.poll = poll, !.err = err]
                 EXCEPT !.recv = recv, !.sent = sent]
      BY <2>1
    <3>3. QED BY <2>2, <3>1, <3>2 DEF Pcb
  <2>4. q.state = p.state /\ q.arg = arg /\ q.poll = poll BY <2>1, <2>2 DEF Pcb
  <2>5. q.err = err /\ q.recv = recv /\ q.sent = sent BY <2>1, <2>2 DEF Pcb
  <2>6. QED BY <2>3, <2>4, <2>5 DEF arg, poll, err, recv, sent
<1>5. p.arg \in BOOLEAN /\ p.poll \in BOOLEAN /\ p.err \in BOOLEAN /\ p.recv \in BOOLEAN
  BY DEF Pcb
<1> DEFINE r == Restored(q, c)
<1>6. r = [q EXCEPT !.rxclosed = @ \/ b, !.arg = TRUE, !.sent = TRUE, !.poll = TRUE,
                    !.err = TRUE]
  BY DEF Restored, b
<1> HIDE DEF r
<1>7. r \in Pcb /\ r.state = q.state /\ r.arg /\ r.poll /\ r.err /\ r.recv = q.recv
  BY <1>1, <1>4, <1>6 DEF Pcb
<1>8. QED BY <1>1, <1>3, <1>4, <1>5, <1>7 DEF b, w, d, q, r

\* A netconn that closes at the request of its task, and the step that takes it up
Closing(c) ==
  /\ c \in Conn /\ c.pcb /\ conn.pcb /\ Live
  /\ c.state = "CLOSE" /\ c.current_msg /\ ~c.partly
  /\ c.last_err = conn.last_err /\ c.nonblocking_connect = conn.nonblocking_connect
  /\ c.mbox <=> conn.mbox /\ call = "shut_wr"
  /\ call \in Shuts /\ call' = call
  /\ phase \in {"posted", "inside"} /\ phase' = "inside" /\ ~sem
  /\ pcb.state = "SYN_SENT" => call = "delete"
  /\ conn.nonblocking_connect => pcb.state = "SYN_SENT"
  /\ recvmbox' \in {recvmbox, <<>>} /\ (call = "shut_wr" => recvmbox' = recvmbox)
  /\ fatal' = fatal

LEMMA MailboxFits ==
  ASSUME IInv, recvmbox' \in {recvmbox, <<>>}, Live, pcb'.state \in Opens => pcb.state \in Opens
  PROVE  recvmbox' \in Seq(Item) /\ Len(recvmbox') <= MaxUnread + 2 /\ Fits'
<1>1. /\ recvmbox' \in Seq(Item) /\ Len(recvmbox') \in Nat /\ Len(recvmbox) \in Nat
      /\ Len(recvmbox') <= Len(recvmbox)
  <2>1. recvmbox \in Seq(Item) /\ <<>> \in Seq(Item) /\ Len(<<>>) = 0 /\ Len(recvmbox) \in Nat
    BY DEF IInv, TypeOK, Item
  <2>2. CASE recvmbox' = recvmbox BY <2>1, <2>2
  <2>3. CASE recvmbox' = <<>> BY <2>1, <2>3
  <2>4. QED BY <2>2, <2>3
<1>2. Len(recvmbox') <= MaxUnread + 2
  BY <1>1, UnreadAssumption DEF IInv, TypeOK
<1>3. Len(recvmbox) <= MaxUnread + (IF pcb.state \in Opens THEN 0 ELSE 1)
  BY DEF IInv, Fits
<1>4. Fits'
  <2>1. CASE pcb'.state \in Opens
    BY <1>1, <1>3, <2>1, UnreadAssumption DEF Fits
  <2>2. CASE pcb'.state \notin Opens
    <3>1. Len(recvmbox') <= MaxUnread + 1 BY <1>1, <1>3, UnreadAssumption
    <3>2. QED BY <1>1, <3>1, <2>2, UnreadAssumption DEF Fits
  <2>3. QED BY <2>1, <2>2
<1>5. QED BY <1>1, <1>2, <1>4

LEMMA CloseDoneKeeps == ASSUME IInv, NEW c, Closing(c), CloseDone(c) PROVE IInv'
<1> USE DEF Closing
<1>1. pcb \in Pcb BY DEF IInv, TypeOK
<1> DEFINE q == Quiet(pcb, call)
<1>2. /\ q \in Pcb /\ q.state = pcb.state
      /\ Both(call) => ~q.arg /\ ~q.poll /\ ~q.err /\ ~q.recv /\ ~q.sent
      /\ ~Both(call) => q.arg = pcb.arg /\ q.poll = pcb.poll /\ q.err = pcb.err
      /\ call = "shut_wr" => q.recv = pcb.recv
  BY <1>1, QuietFacts
<1>3. pcb' \in Shut(q, call) BY DEF CloseDone
<1> HIDE DEF q
<1>4. /\ pcb' \in Pcb /\ pcb'.arg = q.arg /\ pcb'.recv = q.recv /\ pcb'.sent = q.sent
      /\ pcb'.poll = q.poll /\ pcb'.err = q.err
      /\ call = "shut_rd" => pcb'.state = pcb.state
      /\ call = "shut_wr" => \/ pcb.state = "ESTABLISHED" /\ pcb'.state = "FIN_WAIT"
                             \/ pcb.state = "CLOSE_WAIT" /\ pcb'.state = "LAST_ACK"
      /\ Both(call) =>
           \/ pcb'.state = "freed"
           \/ pcb'.state = pcb.state /\ pcb.state \notin {"CLOSED", "SYN_SENT"}
           \/ pcb.state = "ESTABLISHED" /\ pcb'.state \in {"FIN_WAIT", "TIME_WAIT"}
           \/ pcb.state = "CLOSE_WAIT" /\ pcb'.state = "LAST_ACK"
  BY <1>2, <1>3, ShutFacts
<1> DEFINE b == conn'.pcb
<1>5. conn' = [c EXCEPT !.state = "NONE", !.current_msg = FALSE, !.pcb = @ /\ ~Both(call)]
  BY DEF CloseDone
<1>6. (c.pcb /\ ~Both(call)) \in BOOLEAN OBVIOUS
<1>7. /\ conn' \in Conn /\ conn'.state = "NONE" /\ conn'.current_msg = FALSE
      /\ conn'.pcb = (c.pcb /\ ~Both(call)) /\ conn'.mbox = c.mbox
      /\ conn'.last_err = conn.last_err /\ conn'.partly = c.partly
      /\ conn'.nonblocking_connect = conn.nonblocking_connect
  BY <1>5, <1>6 DEF Conn
<1>8. conn'.pcb <=> ~Both(call) BY <1>7
<1>9. sem' = TRUE BY DEF CloseDone
<1>10. call = "shut_rd" \/ call = "shut_wr" \/ Both(call) BY DEF Shuts, Both
<1>11. call \in {"shut_rd", "shut_wr"} => ~Both(call) BY DEF Both
<1>12. call = "delete" => Both(call) BY DEF Both
<1>13. pcb'.state \in Opens => pcb.state \in Opens
  BY <1>4, <1>10 DEF Opens
<1>14. recvmbox' \in Seq(Item) /\ Len(recvmbox') <= MaxUnread + 2 /\ Fits'
  BY <1>13, MailboxFits
<1>15. TypeOK'
  BY <1>4, <1>7, <1>9, <1>14 DEF IInv, TypeOK, Item
<1>16. Attached'
  BY <1>2, <1>4, <1>8 DEF IInv, Attached, Live
<1>17. Flags'
  BY <1>7, <1>8, <1>12 DEF Flags, Blocked
<1>18. Operation'
  BY <1>4, <1>7, <1>10, <1>11, <1>12 DEF Operation
<1>19. Caller' BY <1>7, <1>9 DEF Caller
<1>20. Deleted' BY <1>7, <1>8, <1>12 DEF Deleted
<1>21. EndTold'
  <2>1. CASE conn'.mbox /\ ~conn'.last_err
    <3>1. /\ conn.mbox /\ ~conn.last_err /\ call = "shut_wr" /\ recvmbox' = recvmbox
          /\ conn'.pcb
      BY <1>7, <1>8, <1>11, <2>1
    <3>2. Tells(recvmbox) \/ (pcb.recv /\ pcb.state \in Opens)
      BY <3>1 DEF IInv, EndTold
    <3>3. Tells(recvmbox') \/ (pcb'.recv /\ pcb'.state \in Opens)
      BY <1>2, <1>4, <3>1, <3>2 DEF Opens
    <3>4. QED BY <3>1, <3>3 DEF EndTold
  <2>2. CASE ~(conn'.mbox /\ ~conn'.last_err)
    BY <2>2 DEF EndTold
  <2>3. QED BY <2>1, <2>2
<1>22. QED BY <1>14, <1>15, <1>16, <1>17, <1>18, <1>19, <1>20, <1>21 DEF IInv

LEMMA CloseFailedKeeps == ASSUME IInv, NEW c, Closing(c), CloseFailed(c) PROVE IInv'
<1> USE DEF Closing
<1>1. pcb \in Pcb BY DEF IInv, TypeOK
<1>2. pcb' = Restored(Quiet(pcb, call), call) /\ conn' = c /\ sem' = sem
  BY DEF CloseFailed
<1>3. /\ pcb' \in Pcb /\ pcb'.state = pcb.state
      /\ pcb'.arg /\ pcb'.poll /\ pcb'.err
      /\ call = "shut_wr" => pcb'.recv = pcb.recv
  BY <1>1, <1>2, QuietFacts
<1>4. call = "shut_wr" \/ (Both(call) /\ pcb.state \in Sends)
  BY DEF CloseFailed, ShutFails, Sends
<1>5. pcb.state # "SYN_SENT" BY <1>4 DEF Sends
<1>6. recvmbox' \in Seq(Item) /\ Len(recvmbox') <= MaxUnread + 2 /\ Fits'
  BY <1>3, MailboxFits
<1>7. TypeOK' BY <1>2, <1>3, <1>6 DEF IInv, TypeOK, Item
<1>8. Attached' BY <1>2, <1>3 DEF Attached
<1>9. Flags' BY <1>2, <1>5 DEF Flags, Blocked
<1>10. Operation' BY <1>2, <1>3, <1>4, <1>5 DEF Operation
<1>11. Caller' BY <1>2 DEF Caller
<1>12. Deleted' BY <1>2 DEF Deleted
<1>13. EndTold'
  <2>1. CASE conn'.mbox /\ ~conn'.last_err
    <3>1. /\ conn.mbox /\ ~conn.last_err /\ call = "shut_wr" /\ recvmbox' = recvmbox
          /\ conn'.pcb
      BY <1>2, <2>1
    <3>2. Tells(recvmbox) \/ (pcb.recv /\ pcb.state \in Opens)
      BY <3>1 DEF IInv, EndTold
    <3>3. QED BY <1>3, <3>1, <3>2 DEF EndTold
  <2>2. CASE ~(conn'.mbox /\ ~conn'.last_err)
    BY <2>2 DEF EndTold
  <2>3. QED BY <2>1, <2>2
<1>14. QED BY <1>6, <1>7, <1>8, <1>9, <1>10, <1>11, <1>12, <1>13 DEF IInv

LEMMA CloseKeeps == ASSUME IInv, do_close PROVE IInv'
<1> USE DEF IInv
<1> DEFINE drains == call # "shut_wr"
           kept   == [conn EXCEPT !.mbox = @ /\ ~drains]
           c      == [kept EXCEPT !.state = "CLOSE", !.current_msg = TRUE]
           Refused == (~Open \/ ~conn.pcb) /\ call # "delete" /\ Answer(FALSE)
           Drained == /\ Open /\ ~conn.pcb /\ call = "delete"
                      /\ conn' = kept /\ recvmbox' = <<>> /\ sem' = TRUE
                      /\ UNCHANGED <<fatal, pcb>>
           Tried == /\ Open /\ conn.pcb
                    /\ CloseDone(c) \/ CloseFailed(c)
                    /\ recvmbox' = IF drains THEN <<>> ELSE recvmbox
                    /\ UNCHANGED fatal
<1>1. /\ phase = "posted" /\ ~Dangling /\ phase' = "inside" /\ call' = call
      /\ call \in Shuts
  BY DEF do_close, Handled
<1>2. Refused \/ Drained \/ Tried
  BY DEF do_close
<1>3. (conn.mbox /\ ~drains) \in BOOLEAN OBVIOUS
<1>4. /\ kept \in Conn /\ kept.state = conn.state /\ kept.current_msg = conn.current_msg
      /\ kept.pcb = conn.pcb /\ kept.partly = conn.partly /\ kept.last_err = conn.last_err
      /\ kept.nonblocking_connect = conn.nonblocking_connect
      /\ kept.mbox = (conn.mbox /\ ~drains)
  BY <1>3 DEF TypeOK, Conn
<1>5. ~conn.current_msg /\ ~sem BY <1>1 DEF Caller
<1>6. CASE Refused
  BY <1>1, <1>6, AnswerKeeps DEF Handled
<1>7. CASE Drained
  <2>1. ~conn'.mbox BY <1>4, <1>7
  <2>2. recvmbox' \in Seq({"data", "end"}) /\ Len(recvmbox') = 0 BY <1>7
  <2>3. TypeOK' BY <1>1, <1>4, <1>7, <2>2, UnreadAssumption DEF TypeOK
  <2>4. Fits' BY <1>7, <2>2, UnreadAssumption DEF Fits
  <2>5. Attached' /\ Flags' BY <1>4, <1>7 DEF Attached, Flags, Live, Blocked
  <2>6. Operation' /\ Caller' BY <1>1, <1>4, <1>5, <1>7 DEF Operation, Caller, Flags
  <2>7. Deleted' BY <1>1, <1>4, <1>7, <2>1 DEF Deleted
  <2>8. EndTold' BY <1>1, <2>1 DEF EndTold
  <2>9. QED BY <2>3, <2>4, <2>5, <2>6, <2>7, <2>8
<1>8. CASE Tried
  <2>1. /\ c \in Conn /\ c.state = "CLOSE" /\ c.current_msg /\ c.pcb = kept.pcb
        /\ c.partly = kept.partly /\ c.last_err = kept.last_err /\ c.mbox = kept.mbox
        /\ c.nonblocking_connect = kept.nonblocking_connect
    BY <1>4 DEF Conn
  <2>2. Live BY <1>1, <1>8 DEF Dangling, Live
  <2>3. conn.state = "NONE" \/ (conn.state = "CONNECT" /\ call = "delete")
    BY <1>8 DEF Open
  <2>4. ~conn.partly BY <1>8, <2>3 DEF Flags
  <2>5. /\ pcb.state = "SYN_SENT" => call = "delete"
        /\ conn.nonblocking_connect => pcb.state = "SYN_SENT"
    BY <1>8, <2>3 DEF Operation, Flags
  <2>6. recvmbox' \in {recvmbox, <<>>} /\ (call = "shut_wr" => recvmbox' = recvmbox)
    BY <1>8
  <2> HIDE DEF c, kept
  <2>7. Closing(c)
    BY <1>1, <1>4, <1>5, <1>8, <2>1, <2>2, <2>4, <2>5, <2>6 DEF Closing
  <2>8. QED BY <1>8, <2>7, CloseDoneKeeps, CloseFailedKeeps
<1>9. QED BY <1>2, <1>6, <1>7, <1>8

-----------------------------------------------------------------------------
(* The callbacks. *)

\* The pcb is gone; if its netconn could hear of it, whoever waits does, too.
LEMMA DiesKeeps == ASSUME IInv, Live, Dies PROVE IInv'
<1> USE DEF IInv, Dies
<1>1. pcb' \in Pcb /\ pcb'.state = "freed" BY DEF TypeOK, Pcb
<1>2. CASE pcb.err
  <2>1. /\ conn' = [conn EXCEPT !.state = "NONE", !.pcb = FALSE, !.last_err = TRUE,
                                !.current_msg = FALSE, !.nonblocking_connect = FALSE]
        /\ recvmbox' = IF conn.mbox THEN Append(recvmbox, "end") ELSE recvmbox
        /\ sem' = (sem \/ Blocked)
        /\ phase' = phase /\ call' = call /\ fatal' = fatal
    BY <1>2
  <2>2. /\ conn' \in Conn /\ conn'.state = "NONE" /\ conn'.pcb = FALSE
        /\ conn'.last_err = TRUE /\ conn'.current_msg = FALSE
        /\ conn'.nonblocking_connect = FALSE /\ conn'.mbox = conn.mbox
    BY <2>1 DEF TypeOK, Conn
  <2>3. /\ recvmbox' \in Seq(Item) /\ Len(recvmbox) \in Nat
        /\ Len(recvmbox') \in Nat /\ Len(recvmbox') <= Len(recvmbox) + 1
        /\ conn.mbox => Tells(recvmbox')
    <3>1. recvmbox \in Seq(Item) /\ Len(recvmbox) \in Nat BY DEF TypeOK, Item
    <3>2. CASE conn.mbox BY <2>1, <3>1, <3>2, AppendTells DEF Item
    <3>3. CASE ~conn.mbox BY <2>1, <3>1, <3>3
    <3>4. QED BY <3>1, <3>2, <3>3
  <2>4. Len(recvmbox) <= MaxUnread + 1
    BY <2>3, UnreadAssumption DEF Fits
  <2>5. Len(recvmbox') <= MaxUnread + 2
    BY <2>3, <2>4, UnreadAssumption
  <2>6. sem' \in BOOLEAN BY <2>1 DEF TypeOK
  <2>7. TypeOK' BY <1>1, <2>1, <2>2, <2>3, <2>5, <2>6 DEF TypeOK, Item
  <2>8. Fits' BY <1>1, <2>5 DEF Fits, Opens, Live
  <2>9. Attached' /\ Flags' BY <1>1, <2>2 DEF Attached, Flags, Live, Blocked
  <2>10. Operation' BY <1>1, <2>2 DEF Operation
  <2>11. Caller' BY <2>1, <2>2 DEF Caller, Flags
  <2>12. Deleted' /\ EndTold' BY <2>1, <2>2, <2>3 DEF Deleted, EndTold, Caller
  <2>13. QED BY <2>7, <2>8, <2>9, <2>10, <2>11, <2>12
<1>3. CASE ~pcb.err
  <2>1. ~conn.pcb /\ conn.state = "NONE" BY <1>3 DEF Attached, Flags
  <2>2. UNCHANGED <<phase, call, fatal, sem, conn, recvmbox>> BY <1>3
  <2>3. TypeOK' BY <1>1, <2>2 DEF TypeOK
  <2>4. Fits'
    <3>1. recvmbox' = recvmbox /\ Len(recvmbox) \in Nat BY <2>2 DEF TypeOK
    <3>2. QED BY <1>1, <3>1, UnreadAssumption DEF Fits, Opens, Live
  <2>5. Attached' /\ Flags' BY <1>1, <2>2 DEF Attached, Flags, Live, Blocked
  <2>6. Operation' /\ Caller' BY <1>1, <2>1, <2>2 DEF Operation, Caller
  <2>7. Deleted' /\ EndTold' BY <2>1, <2>2 DEF Deleted, EndTold
  <2>8. QED BY <2>3, <2>4, <2>5, <2>6, <2>7
<1>4. QED BY <1>2, <1>3

LEMMA ResetKeeps == ASSUME IInv, Reset PROVE IInv'
BY DiesKeeps DEF Reset, Live, Active

LEMMA ConnectedKeeps == ASSUME IInv, Connected PROVE IInv'
<1> USE DEF IInv, Connected
<1>1. /\ pcb' \in Pcb /\ pcb'.state = "ESTABLISHED" /\ pcb'.arg /\ pcb'.recv
      /\ pcb'.poll /\ pcb'.err
  BY SetupTcp DEF TypeOK
<1>2. /\ conn' = [conn EXCEPT !.state = "NONE", !.current_msg = FALSE,
                              !.nonblocking_connect = FALSE]
      /\ sem' = (sem \/ ~conn.nonblocking_connect)
      /\ phase' = phase /\ call' = call /\ fatal' = fatal /\ recvmbox' = recvmbox
  OBVIOUS
<1>3. /\ conn' \in Conn /\ conn'.state = "NONE" /\ conn'.current_msg = FALSE
      /\ conn'.nonblocking_connect = FALSE /\ conn'.pcb = conn.pcb
      /\ conn'.partly = conn.partly /\ conn'.last_err = conn.last_err
      /\ conn'.mbox = conn.mbox
  BY <1>2 DEF TypeOK, Conn
<1>4. conn.state = "CONNECT" /\ conn.pcb BY DEF Operation, Flags
<1>5. ~conn.nonblocking_connect => conn.current_msg BY <1>4 DEF Flags, Blocked
<1>6. sem' \in BOOLEAN BY <1>2 DEF TypeOK
<1>7. TypeOK' BY <1>1, <1>2, <1>3, <1>6 DEF TypeOK
<1>8. Fits' BY <1>1, <1>2 DEF Fits, Opens, Live
<1>9. Attached' BY <1>1, <1>3, <1>4 DEF Attached
<1>10. Flags' BY <1>3, <1>4 DEF Flags, Blocked
<1>11. Operation' BY <1>1, <1>3 DEF Operation
<1>12. Caller'
  <2>1. conn.current_msg => ~conn.nonblocking_connect BY DEF Flags, Blocked
  <2>2. conn.current_msg => phase = "inside" BY DEF Caller
  <2>3. sem => phase = "inside" BY DEF Caller
  <2>4. phase = "inside" => sem \/ conn.current_msg BY DEF Caller
  <2>5. QED BY <1>2, <1>3, <1>5, <2>1, <2>2, <2>3, <2>4 DEF Caller
<1>13. Deleted'
  <2>1. phase # "gone" BY <1>4 DEF Deleted
  <2>2. ASSUME phase = "inside", call = "delete" PROVE FALSE
    <3>1. ~sem BY <1>4, <2>2 DEF Deleted
    <3>2. conn.current_msg BY <2>2, <3>1 DEF Caller
    <3>3. QED BY <1>4, <2>2, <3>2 DEF Operation
  <2>3. QED BY <1>2, <2>1, <2>2 DEF Deleted
<1>14. EndTold' BY <1>1, <1>2, <1>3, <1>4 DEF EndTold, Opens
<1>15. QED BY <1>7, <1>8, <1>9, <1>10, <1>11, <1>12, <1>13, <1>14

\* what recv_tcp does with a message to the mailbox
LEMMA RecvTcp ==
  ASSUME IInv, NEW m \in Item, recv_tcp(m)
  PROVE  /\ recvmbox' \in Seq(Item) /\ Len(recvmbox) \in Nat /\ Len(recvmbox') \in Nat
         /\ Len(recvmbox') <= Len(recvmbox) + 1
         /\ Tells(recvmbox) => Tells(recvmbox')
         /\ m = "end" /\ pcb.recv /\ conn.mbox => Tells(recvmbox')
<1>1. recvmbox \in Seq(Item) /\ Len(recvmbox) \in Nat BY DEF IInv, TypeOK, Item
<1>2. CASE pcb.recv /\ conn.mbox
  BY <1>1, <1>2, AppendTells DEF recv_tcp
<1>3. CASE ~(pcb.recv /\ conn.mbox)
  BY <1>1, <1>3 DEF recv_tcp
<1>4. QED BY <1>2, <1>3

LEMMA DataKeeps == ASSUME IInv, Data PROVE IInv'
<1> USE DEF IInv, Data
<1>1. CASE pcb.rxclosed
  BY <1>1, DiesKeeps DEF Live
<1>2. CASE ~pcb.rxclosed
  <2>1. recv_tcp("data") /\ UNCHANGED <<phase, call, fatal, sem, conn, pcb>>
    BY <1>2
  <2>2. /\ recvmbox' \in Seq(Item) /\ Len(recvmbox) \in Nat /\ Len(recvmbox') \in Nat
        /\ Len(recvmbox') <= Len(recvmbox) + 1
        /\ Tells(recvmbox) => Tells(recvmbox')
    BY <2>1, RecvTcp DEF Item
  <2>3. Len(recvmbox') <= MaxUnread BY <2>2, UnreadAssumption
  <2>4. TypeOK' BY <2>1, <2>2, <2>3, UnreadAssumption DEF TypeOK, Item
  <2>5. Fits' BY <2>1, <2>2, <2>3, UnreadAssumption DEF Fits, Opens
  <2>6. Attached' /\ Flags' BY <2>1 DEF Attached, Flags, Live, Blocked
  <2>7. Operation' /\ Caller' /\ Deleted' BY <2>1 DEF Operation, Caller, Deleted
  <2>8. EndTold' BY <2>1, <2>2 DEF EndTold
  <2>9. QED BY <2>4, <2>5, <2>6, <2>7, <2>8
<1>3. QED BY <1>1, <1>2

\* A FIN comes once, and the mailbox has room for it behind the data.
LEMMA FinKeeps == ASSUME IInv, Fin PROVE IInv'
<1> USE DEF IInv, Fin
<1>1. /\ pcb.state \in {"ESTABLISHED", "FIN_WAIT"}
      /\ pcb' \in Pcb /\ pcb'.arg = pcb.arg /\ pcb'.recv = pcb.recv
      /\ pcb'.sent = pcb.sent /\ pcb'.poll = pcb.poll /\ pcb'.err = pcb.err
      /\ pcb.state = "ESTABLISHED" => pcb'.state = "CLOSE_WAIT"
      /\ pcb.state = "FIN_WAIT" => pcb'.state \in {"CLOSING", "TIME_WAIT"}
  BY DEF TypeOK, Pcb, Active
<1>2. /\ recvmbox' \in Seq(Item) /\ Len(recvmbox) \in Nat /\ Len(recvmbox') \in Nat
      /\ Len(recvmbox') <= Len(recvmbox) + 1
      /\ Tells(recvmbox) => Tells(recvmbox')
      /\ pcb.recv /\ conn.mbox => Tells(recvmbox')
  BY RecvTcp DEF Item
<1>3. Len(recvmbox') <= MaxUnread + 1
  BY <1>1, <1>2, UnreadAssumption DEF Fits, Opens
<1>4. TypeOK' BY <1>1, <1>2, <1>3, UnreadAssumption DEF TypeOK, Item
<1>5. Fits' BY <1>1, <1>3 DEF Fits, Opens, Live
<1>6. Attached' /\ Flags' BY <1>1 DEF Attached, Flags, Live, Blocked
<1>7. Operation' BY <1>1 DEF Operation, Sends
<1>8. Caller' /\ Deleted' BY DEF Caller, Deleted
<1>9. EndTold' BY <1>2 DEF EndTold
<1>10. QED BY <1>4, <1>5, <1>6, <1>7, <1>8, <1>9

\* A pcb whose peer's FIN was reported goes its way behind the back of its netconn.
LEMMA UnseenKeeps ==
  ASSUME IInv, pcb.state \in {"CLOSING", "LAST_ACK", "TIME_WAIT"},
         NEW s \in {"TIME_WAIT", "freed"}, pcb' = [pcb EXCEPT !.state = s],
         UNCHANGED <<phase, call, fatal, sem, conn, recvmbox>>
  PROVE  IInv'
<1> USE DEF IInv
<1>1. /\ pcb' \in Pcb /\ pcb'.state = s /\ pcb'.arg = pcb.arg /\ pcb'.recv = pcb.recv
      /\ pcb'.sent = pcb.sent /\ pcb'.poll = pcb.poll /\ pcb'.err = pcb.err
  BY DEF TypeOK, Pcb
<1>2. TypeOK' BY <1>1 DEF TypeOK
<1>3. Fits'
  <2>1. recvmbox' = recvmbox /\ Len(recvmbox) \in Nat BY DEF TypeOK
  <2>2. QED BY <1>1, <2>1, UnreadAssumption DEF Fits, Opens, Live
<1>4. Attached' /\ Flags' BY <1>1 DEF Attached, Flags, Live, Blocked
<1>5. Operation' BY <1>1 DEF Operation, Sends
<1>6. Caller' /\ Deleted' BY DEF Caller, Deleted
<1>7. EndTold' BY DEF EndTold, Opens
<1>8. QED BY <1>2, <1>3, <1>4, <1>5, <1>6, <1>7

LEMMA LastAckKeeps == ASSUME IInv, LastAck PROVE IInv'
<1>1. CASE pcb.rxclosed BY <1>1, UnseenKeeps DEF LastAck
<1>2. CASE ~pcb.rxclosed BY <1>2, DiesKeeps DEF LastAck, Live
<1>3. QED BY <1>1, <1>2

LEMMA TimeWaitKeeps == ASSUME IInv, TimeWaitEnds PROVE IInv'
BY UnseenKeeps DEF TimeWaitEnds

LEMMA ClosingKeeps == ASSUME IInv, ClosingAcked PROVE IInv'
BY UnseenKeeps DEF ClosingAcked

\* sent_tcp and poll_tcp find the netconn in the middle of what its task waits for.
LEMMA AgainKeeps == ASSUME IInv, Again PROVE IInv'
<1> USE DEF IInv
<1>1. /\ Live /\ UNCHANGED <<phase, call, fatal, recvmbox>>
      /\ \/ conn.state = "WRITE" /\ (WriteDone(conn) \/ WriteWaits(conn)) /\ UNCHANGED pcb
         \/ conn.state = "CLOSE" /\ (CloseDone(conn) \/ CloseFailed(conn))
  BY DEF Again, Live, Active
<1>2. /\ conn \in Conn /\ fatal \in BOOLEAN
      /\ recvmbox' = recvmbox /\ fatal' = fatal /\ call' = call /\ phase' = phase
  BY <1>1 DEF TypeOK
<1>3. CASE conn.state = "WRITE"
  <2>1. conn.pcb /\ ~conn.nonblocking_connect /\ conn.current_msg
    BY <1>3 DEF Flags, Blocked
  <2>2. phase = "inside" /\ ~sem BY <2>1 DEF Caller
  <2>3. call = "write" BY <1>3 DEF Operation
  <2>4. UNCHANGED pcb /\ (WriteDone(conn) \/ WriteWaits(conn)) BY <1>1, <1>3
  <2>5. Writing(conn) BY <1>2, <1>3, <2>1, <2>2, <2>3, <2>4 DEF Writing
  <2>6. QED BY <2>4, <2>5, WriteDoneKeeps, WriteWaitsKeeps
<1>4. CASE conn.state = "CLOSE"
  <2>1. conn.pcb /\ ~conn.nonblocking_connect /\ conn.current_msg /\ ~conn.partly
    BY <1>4 DEF Flags, Blocked
  <2>2. phase = "inside" /\ ~sem BY <2>1 DEF Caller
  <2>3. /\ call \in Shuts /\ pcb.state # "SYN_SENT"
        /\ conn.mbox <=> conn.mbox /\ call = "shut_wr"
    BY <1>4 DEF Operation
  <2>4. Closing(conn) BY <1>1, <1>2, <1>4, <2>1, <2>2, <2>3 DEF Closing
  <2>5. QED BY <1>1, <1>4, <2>4, CloseDoneKeeps, CloseFailedKeeps
<1>5. QED BY <1>1, <1>3, <1>4

-----------------------------------------------------------------------------
(* The theorems. *)

\* What the netconn is at any time follows from its past by the invariant: every
\* handler, callback and step of the task keeps it.
THEOREM NetconnInductive == Spec => []IInv
<1>1. Init => IInv BY InitIInv
<1>2. IInv /\ [Next]_vars => IInv'
  <2> SUFFICES ASSUME IInv, [Next]_vars PROVE IInv' OBVIOUS
  <2>1. CASE \E c \in Calls : Ask(c) BY <2>1, AskKeeps
  <2>2. CASE Recv \/ Fetch \/ Return BY <2>2, RecvKeeps, FetchKeeps, ReturnKeeps
  <2>3. CASE do_connect \/ do_write BY <2>3, ConnectKeeps, WriteKeeps
  <2>4. CASE do_close \/ do_recv BY <2>4, CloseKeeps, RecvedKeeps
  <2>5. CASE Reset \/ Connected \/ Data BY <2>5, ResetKeeps, ConnectedKeeps, DataKeeps
  <2>6. CASE Fin \/ LastAck BY <2>6, FinKeeps, LastAckKeeps
  <2>7. CASE ClosingAcked \/ TimeWaitEnds \/ Again
    BY <2>7, ClosingKeeps, TimeWaitKeeps, AgainKeeps
  <2>8. CASE UNCHANGED vars
    BY <2>8 DEF vars, IInv, TypeOK, Fits, Attached, Flags, Operation, Caller, Deleted,
                EndTold, Live, Blocked
  <2>9. QED BY <2>1, <2>2, <2>3, <2>4, <2>5, <2>6, <2>7, <2>8 DEF Next
<1>3. QED BY <1>1, <1>2, PTL DEF Spec

\* The values a netconn, its pcb and its mailbox take, and that the mailbox has room
\* for the end of the data and for an error behind the data (api_msg.c:216-262, 349-376).
THEOREM NetconnTypeCorrect == Spec => []TypeOK
<1>1. IInv => TypeOK BY DEF IInv
<1>2. QED BY <1>1, NetconnInductive, PTL

\* A blocked caller has its answer or somebody who will give it, and no answer is left
\* for a later call; a blocked reader will hear of the end (api_msg.c:349-398, 700-830).
THEOREM CallersAreWoken == Spec => []CallerWakes
<1>1. IInv => CallerWakes
  <2> SUFFICES ASSUME IInv PROVE CallerWakes OBVIOUS
  <2> USE DEF IInv
  <2>1. sem => phase = "inside" /\ ~conn.current_msg BY DEF Caller
  <2>2. ASSUME phase = "inside", ~sem
        PROVE  /\ conn.current_msg
               /\ Stuck \/ Dangling \/
                    /\ pcb.state \in Active /\ pcb.arg /\ pcb.err
                    /\ conn.state # "CONNECT" => pcb.poll
                    /\ conn.state = "CONNECT" => pcb.state = "SYN_SENT"
    <3>1. conn.current_msg BY <2>2 DEF Caller
    <3>2. conn.pcb /\ conn.state \in {"WRITE", "CLOSE", "CONNECT"}
      BY <3>1 DEF Flags, Blocked
    <3>3. pcb.state \in {"ESTABLISHED", "CLOSE_WAIT", "SYN_SENT"} \/ Stuck
      BY <3>2 DEF Operation, Sends, Stuck
    <3>4. CASE Dangling BY <3>1, <3>4
    <3>5. CASE ~Dangling
      <4>1. pcb.arg /\ pcb.err /\ pcb.poll BY <3>2, <3>5 DEF Dangling, Attached, Live
      <4>2. conn.state = "CONNECT" => pcb.state = "SYN_SENT" BY DEF Operation
      <4>3. QED BY <3>1, <3>3, <4>1, <4>2 DEF Active
    <3>6. QED BY <3>4, <3>5
  <2>3. ASSUME phase = "fetch", recvmbox = <<>>
        PROVE  /\ pcb.state \in {"CLOSED", "SYN_SENT", "ESTABLISHED", "FIN_WAIT"}
               /\ pcb.arg /\ pcb.recv /\ pcb.err
    <3>1. ~Tells(recvmbox) BY <2>3 DEF Tells
    <3>2. conn.pcb /\ pcb.recv /\ pcb.state \in Opens BY <2>3, <3>1 DEF EndTold
    <3>3. QED BY <3>2 DEF Attached, Live, Opens
  <2>4. QED BY <2>1, <2>2, <2>3 DEF CallerWakes
<1>2. QED BY <1>1, NetconnInductive, PTL

\* What the callbacks of TCP find when they run, so that none follows a pointer to a
\* netconn that is gone or an answer already given (api_msg.c:216-398).
THEOREM CallbacksAreSound == Spec => []CallbacksSound
<1>1. IInv => CallbacksSound
  BY DEF IInv, CallbacksSound, Attached, Flags, Operation, Deleted, Live, Blocked
<1>2. QED BY <1>1, NetconnInductive, PTL

-----------------------------------------------------------------------------
(* Netconn implements Rpc. *)

\* what Rpc sees of the task's call
CallOf == IF phase \notin {"posted", "inside"} THEN "none"
          ELSE IF sem THEN "answered" ELSE "asked"

\* Every step of the handlers and of the callbacks leaves a call under way, and an
\* answer that was given is still there.
Serves == /\ phase' = phase \/ (phase = "posted" /\ phase' = "inside")
          /\ sem => sem'

LEMMA HandlersServe ==
  ASSUME IInv, do_connect \/ do_write \/ do_close \/ do_recv
  PROVE  Serves
<1>1. phase = "posted" /\ phase' = "inside"
  BY DEF do_connect, do_write, do_close, do_recv, Handled
<1>2. ~sem
  BY <1>1 DEF IInv, Caller
<1> QED
  BY <1>1, <1>2 DEF Serves

LEMMA CallbacksServe ==
  ASSUME IInv,
         \/ Reset \/ Connected \/ Data \/ Fin \/ ClosingAcked \/ LastAck \/ TimeWaitEnds
         \/ Again
  PROVE  Serves
<1>1. ASSUME Dies PROVE Serves
  BY <1>1 DEF Dies, Serves, IInv, TypeOK
<1>2. CASE Again
  BY <1>2 DEF Again, WriteDone, WriteWaits, CloseDone, CloseFailed, Serves
<1>3. CASE Connected
  BY <1>3 DEF Connected, Serves
<1>4. CASE Reset \/ Data \/ Fin \/ ClosingAcked \/ LastAck \/ TimeWaitEnds
  BY <1>1, <1>4 DEF Reset, Data, Fin, ClosingAcked, LastAck, TimeWaitEnds, Serves
<1> QED
  BY <1>2, <1>3, <1>4

LEMMA Simulates ==
  ASSUME IInv, IInv', [Next]_vars
  PROVE  [Served!Next]_[t \in {"task"} |-> CallOf]
<1> DEFINE Bar == [t \in {"task"} |-> CallOf]
<1>1. ASSUME CallOf' = CallOf PROVE Bar' = Bar
  BY <1>1
<1>2. ASSUME CallOf = "none", CallOf' = "asked" PROVE Served!Next
  BY <1>2 DEF Served!Next, Served!Ask, Served!Move, CallOf
<1>3. ASSUME CallOf = "asked", CallOf' = "answered" PROVE Served!Next
  BY <1>3 DEF Served!Next, Served!Answer, Served!Move, CallOf
<1>4. ASSUME CallOf = "answered", CallOf' = "none" PROVE Served!Next
  BY <1>4 DEF Served!Next, Served!Return, Served!Move, CallOf
<1> HIDE DEF Bar
<1>5. /\ sem => phase = "inside"
      /\ sem' => phase' = "inside"
  BY DEF IInv, Caller
<1>6. CASE (\E c \in Calls : Ask(c)) \/ Fetch
  <2>1. CallOf = "none" /\ phase' = "posted" /\ sem' = sem /\ ~sem
    BY <1>5, <1>6 DEF Ask, Fetch, CallOf
  <2> QED
    BY <1>2, <2>1 DEF CallOf
<1>7. CASE Return
  BY <1>4, <1>7 DEF Return, CallOf
<1>8. CASE Recv
  BY <1>1, <1>8 DEF Recv, CallOf
<1>9. ASSUME Serves PROVE Served!Next \/ Bar' = Bar
  <2>1. CASE sem \/ ~sem' \/ phase' \notin {"posted", "inside"}
    BY <1>1, <1>5, <1>9, <2>1 DEF Serves, CallOf
  <2>2. CASE ~sem /\ sem'
    BY <1>3, <1>5, <1>9, <2>2 DEF Serves, CallOf
  <2> QED
    BY <2>1, <2>2
<1>10. CASE do_connect \/ do_write \/ do_close \/ do_recv
  BY <1>9, <1>10, HandlersServe DEF Bar
<1>11. CASE \/ Reset \/ Connected \/ Data \/ Fin \/ ClosingAcked \/ LastAck
             \/ TimeWaitEnds \/ Again
  BY <1>9, <1>11, CallbacksServe DEF Bar
<1>12. CASE UNCHANGED vars
  BY <1>1, <1>12 DEF vars, CallOf
<1> QED
  BY <1>6, <1>7, <1>8, <1>10, <1>11, <1>12 DEF Next, Bar

\* For the task, a call that a callback answers much later, after retries or a reset, is
\* the same as one that its handler answers: asked once, answered once, over.
\* TcpipCalls takes this of each call (api_msg.c:398-404, 806-814).
THEOREM NetconnImplementsRpc == Spec => ImplementsRpc
<1>1. Init => Served!Init
  BY DEF Init, Served!Init
<1>2. IInv /\ IInv' /\ [Next]_vars => [Served!Next]_[t \in {"task"} |-> CallOf]
  BY Simulates
<1> QED
  BY <1>1, <1>2, NetconnInductive, PTL DEF Spec, ImplementsRpc, Served!Spec, CallOf

-----------------------------------------------------------------------------
(* The end of the data. *)

\* the states of a pcb whose peer has sent its FIN, and of one that is gone
Over  == {"CLOSE_WAIT", "CLOSING", "LAST_ACK", "TIME_WAIT", "freed"}
\* the task has taken the end and do_recv has not returned
Ended == phase \in {"posted", "inside"} /\ call = "recved_end"

AllEnd(s) == \A i \in DOMAIN s : s[i] = "end"
EndLast(s) == \A i, j \in DOMAIN s : i < j /\ s[i] = "end" => s[j] = "end"

\* An end that waits or was taken comes from a pcb that delivers no data any more.
EndInv ==
  /\ EndLast(recvmbox)
  /\ Ended => AllEnd(recvmbox)
  /\ Tells(recvmbox) \/ Ended => pcb.state \in Over

LEMMA AppendEnd ==
  ASSUME NEW s \in Seq(Item), NEW m \in Item, EndLast(s), Tells(s) => m = "end"
  PROVE  /\ EndLast(Append(s, m))
         /\ AllEnd(s) /\ m = "end" => AllEnd(Append(s, m))
         /\ Tells(Append(s, m)) => Tells(s) \/ m = "end"
<1>1. /\ Len(s) \in Nat
      /\ DOMAIN s = 1..Len(s) /\ DOMAIN Append(s, m) = 1..(Len(s) + 1)
      /\ Append(s, m)[Len(s) + 1] = m
      /\ \A i \in 1..Len(s) : Append(s, m)[i] = s[i]
  OBVIOUS
<1>2. \A i \in 1..(Len(s) + 1) : i \in 1..Len(s) \/ i = Len(s) + 1
  BY <1>1
<1>3. ASSUME NEW i \in 1..(Len(s) + 1), NEW j \in 1..(Len(s) + 1), i < j,
             Append(s, m)[i] = "end"
      PROVE  Append(s, m)[j] = "end"
  <2>1. i \in 1..Len(s) /\ s[i] = "end"
    BY <1>1, <1>3
  <2>2. m = "end"
    BY <1>1, <2>1 DEF Tells
  <2> QED
    BY <1>1, <1>2, <1>3, <2>1, <2>2 DEF EndLast
<1> QED
  BY <1>1, <1>2, <1>3 DEF EndLast, AllEnd, Tells

LEMMA TailEnd ==
  ASSUME NEW s \in Seq(Item), s # <<>>, EndLast(s)
  PROVE  /\ EndLast(Tail(s))
         /\ Head(s) = "end" \/ AllEnd(s) => AllEnd(Tail(s))
         /\ Tells(Tail(s)) \/ Head(s) = "end" => Tells(s)
<1>1. /\ Len(s) \in Nat /\ Len(s) > 0
      /\ DOMAIN s = 1..Len(s) /\ DOMAIN Tail(s) = 1..(Len(s) - 1)
      /\ Head(s) = s[1]
      /\ \A i \in 1..(Len(s) - 1) : Tail(s)[i] = s[i + 1]
  OBVIOUS
<1>2. /\ \A i \in 1..(Len(s) - 1) : i + 1 \in 1..Len(s) /\ 1 < i + 1
      /\ \A i, j \in 1..(Len(s) - 1) : i < j => i + 1 < j + 1
      /\ 1 \in 1..Len(s)
  BY <1>1
<1>3. EndLast(Tail(s))
  BY <1>1, <1>2 DEF EndLast
<1>4. Head(s) = "end" \/ AllEnd(s) => AllEnd(Tail(s))
  BY <1>1, <1>2 DEF EndLast, AllEnd
<1>5. Tells(Tail(s)) \/ Head(s) = "end" => Tells(s)
  BY <1>1, <1>2 DEF Tells
<1> QED
  BY <1>3, <1>4, <1>5

\* A pcb that delivers no data any more does not come back to a state that does
\* (tcp_close, tcp_shutdown, and a tcp_connect that refuses).
LEMMA StaysOver ==
  ASSUME IInv, [Next]_vars, pcb.state \in Over
  PROVE  pcb'.state \in Over
<1> USE DEF IInv, Over
<1>1. ASSUME Dies PROVE pcb'.state \in Over
  BY <1>1 DEF Dies, TypeOK, Pcb
<1>2. ASSUME NEW c, call \in Shuts, CloseDone(c) \/ CloseFailed(c) PROVE pcb'.state \in Over
  <2>1. pcb \in Pcb /\ Quiet(pcb, call) \in Pcb /\ Quiet(pcb, call).state = pcb.state
        /\ Restored(Quiet(pcb, call), call).state = pcb.state
    BY <1>2, QuietFacts DEF TypeOK
  <2>2. CASE CloseDone(c)
    <3>1. PICK r \in Shut(Quiet(pcb, call), call) : pcb' = r
      BY <2>2 DEF CloseDone
    <3>2. PICK q \in Pcb : q = Quiet(pcb, call) /\ q.state \in Over
      BY <2>1
    <3>3. call \in {"shut_rd", "shut_wr"} \/ Both(call)
      BY <1>2 DEF Shuts, Both
    <3> QED
      BY <1>2, <3>1, <3>2, <3>3, ShutFacts
  <2>3. CASE CloseFailed(c)
    BY <2>1, <2>3 DEF CloseFailed
  <2> QED
    BY <1>2, <2>2, <2>3
<1>3. CASE (\E c \in Calls : Ask(c)) \/ Recv \/ Fetch \/ Return \/ UNCHANGED vars
  BY <1>3 DEF Ask, Recv, Fetch, Return, vars
<1>4. CASE do_connect
  BY <1>4, SetupTcp DEF do_connect, Answer, TypeOK
<1>5. CASE do_write \/ do_recv
  BY <1>5 DEF do_write, do_recv, Answer
<1>6. CASE do_close
  BY <1>2, <1>6 DEF do_close, Answer
<1>7. CASE Reset \/ ClosingAcked \/ LastAck \/ TimeWaitEnds
  BY <1>1, <1>7 DEF Reset, ClosingAcked, LastAck, TimeWaitEnds, TypeOK, Pcb
<1>8. CASE Connected \/ Data \/ Fin
  BY <1>8 DEF Connected, Data, Fin
<1>9. CASE Again
  BY <1>2, <1>9 DEF Again, Operation
<1> QED
  BY <1>3, <1>4, <1>5, <1>6, <1>7, <1>8, <1>9 DEF Next

\* Nothing arrives, or an end does, of a pcb that is over then.
LEMMA EndKept ==
  ASSUME IInv, EndInv, [Next]_vars, Ended' => Ended,
         \/ recvmbox' \in {recvmbox, <<>>}
         \/ recvmbox' = Append(recvmbox, "end") /\ pcb'.state \in Over
  PROVE  EndInv'
<1>1. recvmbox \in Seq(Item)
  BY DEF IInv, TypeOK, Item
<1>2. CASE recvmbox' = recvmbox
  BY <1>2, StaysOver DEF EndInv, EndLast, AllEnd, Tells
<1>3. CASE recvmbox' = <<>>
  BY <1>3, StaysOver DEF EndInv, EndLast, AllEnd, Tells
<1>4. CASE recvmbox' = Append(recvmbox, "end") /\ pcb'.state \in Over
  <2>1. PICK s \in Seq(Item) : s = recvmbox
    BY <1>1
  <2>2. "end" \in Item /\ EndLast(s) /\ (Ended => AllEnd(s))
    BY <2>1 DEF Item, EndInv
  <2>3. EndLast(Append(s, "end")) /\ (AllEnd(s) => AllEnd(Append(s, "end")))
    BY <2>2, AppendEnd
  <2>4. recvmbox' = Append(s, "end")
    BY <1>4, <2>1
  <2> QED
    BY <1>4, <2>2, <2>3, <2>4 DEF EndInv
<1> QED
  BY <1>2, <1>3, <1>4

LEMMA EndNext == ASSUME IInv, EndInv, [Next]_vars PROVE EndInv'
<1>1. recvmbox \in Seq(Item)
  BY DEF IInv, TypeOK, Item
<1>2. ASSUME Live, Dies PROVE EndInv'
  <2>1. pcb'.state = "freed" /\ UNCHANGED <<phase, call>>
    BY <1>2 DEF Dies, IInv, TypeOK, Pcb
  <2>2. recvmbox' \in {recvmbox, Append(recvmbox, "end")}
    BY <1>2 DEF Dies
  <2> QED
    BY <2>1, <2>2, EndKept DEF Over, Ended
<1>3. CASE Fetch
  <2>1. PICK s \in Seq(Item) : s = recvmbox
    BY <1>1
  <2>2. s # <<>> /\ recvmbox' = Tail(s) /\ EndLast(s)
    BY <1>3, <2>1 DEF Fetch, EndInv
  <2>3. /\ EndLast(Tail(s)) /\ (Head(s) = "end" => AllEnd(Tail(s)))
        /\ Tells(Tail(s)) \/ Head(s) = "end" => Tells(s)
    BY <2>2, TailEnd
  <2>4. Ended' => Head(s) = "end"
    <3>1. Head(s) \in Item
      BY <2>2
    <3> QED
      BY <1>3, <2>1, <3>1 DEF Fetch, Ended, Item
  <2>5. pcb' = pcb /\ (Tells(s) => pcb.state \in Over)
    BY <1>3, <2>1 DEF Fetch, EndInv
  <2> QED
    BY <2>2, <2>3, <2>4, <2>5 DEF EndInv
<1>4. CASE Data /\ ~pcb.rxclosed /\ recvmbox' # recvmbox
  <2>1. /\ recvmbox' = Append(recvmbox, "data") /\ UNCHANGED <<phase, call, pcb>>
        /\ pcb.state \notin Over
    BY <1>4 DEF Data, recv_tcp, Over
  <2>2. ~Tells(recvmbox) /\ ~Ended /\ EndLast(recvmbox)
    BY <2>1 DEF EndInv
  <2>3. PICK s \in Seq(Item) : s = recvmbox
    BY <1>1
  <2>4. EndLast(Append(s, "data")) /\ ~Tells(Append(s, "data"))
    BY <2>2, <2>3, AppendEnd DEF Item
  <2>5. recvmbox' = Append(s, "data") /\ ~Ended'
    BY <2>1, <2>2, <2>3 DEF Ended
  <2> QED
    BY <2>4, <2>5 DEF EndInv
<1>5. CASE Data /\ ~pcb.rxclosed /\ recvmbox' = recvmbox
  BY <1>5, EndKept DEF Data, Ended
<1>6. CASE Data /\ pcb.rxclosed
  BY <1>2, <1>6 DEF Data, Live
<1>7. CASE Fin
  <2>1. /\ pcb'.state \in Over /\ UNCHANGED <<phase, call>>
        /\ recvmbox' \in {recvmbox, Append(recvmbox, "end")}
    BY <1>7 DEF Fin, recv_tcp, IInv, TypeOK, Pcb, Over
  <2> QED
    BY <2>1, EndKept DEF Ended
<1>8. CASE Reset
  BY <1>2, <1>8 DEF Reset, Active, Live
<1>9. CASE LastAck
  <2>1. CASE pcb.rxclosed
    BY <1>9, <2>1, EndKept DEF LastAck, Ended
  <2>2. CASE ~pcb.rxclosed
    BY <1>2, <1>9, <2>2 DEF LastAck, Live
  <2> QED
    BY <2>1, <2>2
<1>10. CASE do_connect \/ do_write \/ do_close \/ do_recv
  <2>1. Ended' => Ended
    BY <1>10 DEF do_connect, do_write, do_close, do_recv, Handled, Ended
  <2>2. recvmbox' \in {recvmbox, <<>>}
    BY <1>10 DEF do_connect, do_write, do_close, do_recv, Answer
  <2> QED
    BY <2>1, <2>2, EndKept
<1>11. CASE (\E c \in Calls : Ask(c)) \/ Recv \/ Return
  BY <1>11, EndKept DEF Ask, Recv, Return, Ended, Calls, Shuts
<1>12. CASE Connected \/ ClosingAcked \/ TimeWaitEnds \/ Again \/ UNCHANGED vars
  BY <1>12, EndKept DEF Connected, ClosingAcked, TimeWaitEnds, Again, vars, Ended
<1> QED
  BY <1>3, <1>4, <1>5, <1>6, <1>7, <1>8, <1>9, <1>10, <1>11, <1>12 DEF Next

\* A reader never finds data behind the end of the data, with FINs, resets, closes and
\* shutdowns in any order and any number of unread messages: what it takes for the end
\* is the end (api_msg.c:216-262, 349-376; api_lib.c:356-399).
THEOREM EndComesLast == Spec => []EndIsLast
<1>1. Init => EndInv
  BY DEF Init, EndInv, EndLast, AllEnd, Tells, Ended
<1>2. IInv /\ EndInv /\ [Next]_vars => EndInv'
  BY EndNext
<1>3. EndInv => EndIsLast
  BY DEF EndInv, EndIsLast, EndLast, AllEnd, Ended
<1> QED
  BY <1>1, <1>2, <1>3, NetconnInductive, PTL DEF Spec

=============================================================================
