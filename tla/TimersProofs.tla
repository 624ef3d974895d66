---------------------------- MODULE TimersProofs ----------------------------
(***************************************************************************)
(* Proofs about Timers, for any timers, intervals, pool and mailbox.        *)
(*                                                                          *)
(* The induction over the entries of the list uses that a set of naturals    *)
(* has a least element.                                                      *)
(***************************************************************************)
EXTENDS Timers, NaturalsInduction, FiniteSetTheorems, TLAPS

Rec == [h : Handler, time : Nat, age : Nat, msgs : Nat]

-----------------------------------------------------------------------------
(* Sums over the list. *)

\* Counting up reaches every number.
LEMMA UpTo ==
  ASSUME NEW n \in Nat, NEW T, 0 \in T, \A k \in 1 .. n : k - 1 \in T => k \in T
  PROVE  \A k \in 0 .. n : k \in T
<1> SUFFICES ASSUME (0 .. n) \ T # {} PROVE FALSE OBVIOUS
<1> DEFINE R == {p \in Nat \X Nat : p[1] < p[2]}
<1>1. IsWellFoundedOn(R, Nat)
  BY NatLessThanWellFounded DEF OpToRel
<1>2. PICK k \in (0 .. n) \ T : \A j \in (0 .. n) \ T : <<j, k>> \notin R
  <2>1. (0 .. n) \ T \subseteq Nat OBVIOUS
  <2> HIDE DEF R
  <2> QED BY <1>1, <2>1, WFMin
<1>3. k # 0 /\ k - 1 \in 0 .. n /\ <<k - 1, k>> \in R OBVIOUS
<1>4. k - 1 \in T BY <1>2, <1>3
<1> QED BY <1>2, <1>3, <1>4

\* What the first entries add up to.
LEMMA AheadIs ==
  ASSUME NEW q, Len(q) \in Nat, \A i \in 1 .. Len(q) : q[i].time \in Int
  PROVE  /\ Ahead(q, 0) = 0
         /\ \A i \in 0 .. Len(q) : Ahead(q, i) \in Int
         /\ \A i \in 1 .. Len(q) : Ahead(q, i) = Ahead(q, i - 1) + q[i].time
<1> DEFINE n == Len(q)
           Sums(k, f) == /\ f \in [0 .. k -> Int] /\ f[0] = 0
                         /\ \A i \in 1 .. k : f[i] = f[i - 1] + q[i].time
           T == {k \in 0 .. n : \E f : Sums(k, f)}
<1>1. 0 \in T
  <2> DEFINE g == [i \in 0 .. 0 |-> 0]
  <2>1. g \in [0 .. 0 -> Int] /\ g[0] = 0 /\ 1 .. 0 = {} OBVIOUS
  <2> HIDE DEF g
  <2>2. Sums(0, g) BY <2>1
  <2>3. 0 \in 0 .. n OBVIOUS
  <2> QED BY <2>2, <2>3
<1>2. ASSUME NEW k \in 1 .. n, k - 1 \in T PROVE k \in T
  <2>1. PICK f : Sums(k - 1, f) BY <1>2
  <2> DEFINE g == [i \in 0 .. k |-> IF i = k THEN f[k - 1] + q[k].time ELSE f[i]]
  <2>2. Sums(k, g)
    <3>1. k - 1 \in 0 .. k - 1 OBVIOUS
    <3>2. f[k - 1] \in Int /\ q[k].time \in Int BY <2>1, <3>1
    <3>3. g \in [0 .. k -> Int] BY <2>1, <3>2
    <3>4. g[0] = 0 BY <2>1
    <3>5. ASSUME NEW i \in 1 .. k PROVE g[i] = g[i - 1] + q[i].time
      <4>1. CASE i = k BY <4>1
      <4>2. CASE i # k BY <2>1, <4>2
      <4> QED BY <4>1, <4>2
    <3> QED BY <3>3, <3>4, <3>5
  <2> HIDE DEF g
  <2>3. k \in 0 .. n /\ \E f2 : Sums(k, f2) BY <2>2
  <2> HIDE DEF Sums
  <2> QED BY <2>3
<1>3. n \in T
  <2>1. n \in Nat /\ n \in 0 .. n OBVIOUS
  <2> HIDE DEF T, n
  <2>2. \A k \in 1 .. n : k - 1 \in T => k \in T BY <1>2
  <2> QED BY <1>1, <2>1, <2>2, UpTo
<1>4. PICK f : Sums(n, f) BY <1>3
<1> DEFINE sum == CHOOSE s : s = [i \in 0 .. n |-> IF i = 0 THEN 0 ELSE s[i - 1] + q[i].time]
<1>5. f = [i \in 0 .. n |-> IF i = 0 THEN 0 ELSE f[i - 1] + q[i].time] BY <1>4
<1>6. sum = [i \in 0 .. n |-> IF i = 0 THEN 0 ELSE sum[i - 1] + q[i].time] BY <1>5
<1>7. \A k : Ahead(q, k) = sum[k] BY DEF Ahead
<1> HIDE DEF sum
<1>8. \A k \in 0 .. n : sum[k] \in Int
  <2> DEFINE U == {k \in 0 .. n : sum[k] \in Int}
  <2>1. 0 \in U BY <1>6
  <2>2. ASSUME NEW k \in 1 .. n, k - 1 \in U PROVE k \in U
    BY <1>6, <2>2
  <2> HIDE DEF U
  <2>3. \A k \in 0 .. n : k \in U BY <2>1, <2>2, UpTo
  <2> QED BY <2>3 DEF U
<1>9. 0 \in 0 .. n /\ \A i \in 1 .. n : i \in 0 .. n /\ i # 0 OBVIOUS
<1>10. sum[0] = 0 /\ \A i \in 1 .. n : sum[i] = sum[i - 1] + q[i].time BY <1>6, <1>9
<1> HIDE DEF n
<1> QED BY <1>7, <1>8, <1>10 DEF n

\* The m entries of p behind the first a have the times of those of q behind the first
\* b, and start c later.
Parallel(p, a, q, b, m, c) ==
  /\ m \in Nat /\ a \in Nat /\ b \in Nat /\ c \in Int
  /\ a + m <= Len(p) /\ b + m <= Len(q)
  /\ Ahead(p, a) = Ahead(q, b) + c
  /\ \A i \in 1 .. m : p[a + i].time = q[b + i].time

\* Lists whose entries agree on a stretch add up alike on it.
LEMMA Alongside ==
  ASSUME NEW p \in Seq(Rec), NEW q \in Seq(Rec), NEW m, NEW a, NEW b, NEW c,
         Parallel(p, a, q, b, m, c)
  PROVE  \A i \in 0 .. m : Ahead(p, a + i) = Ahead(q, b + i) + c
<1> USE DEF Parallel
<1>4. /\ Len(p) \in Nat /\ \A i \in 1 .. Len(p) : p[i].time \in Int
      /\ Len(q) \in Nat /\ \A i \in 1 .. Len(q) : q[i].time \in Int
  <2>1. (\A i \in 1 .. Len(p) : p[i] \in Rec) /\ (\A i \in 1 .. Len(q) : q[i] \in Rec) OBVIOUS
  <2>2. \A e \in Rec : e.time \in Int BY DEF Rec
  <2> QED BY ONLY <2>1, <2>2, p \in Seq(Rec), q \in Seq(Rec)
<1> DEFINE T == {i \in 0 .. m : Ahead(p, a + i) = Ahead(q, b + i) + c}
<1>1. 0 \in T OBVIOUS
<1>2. ASSUME NEW k \in 1 .. m, k - 1 \in T PROVE k \in T
  <2>1. a + k \in 1 .. Len(p) /\ b + k \in 1 .. Len(q) BY <1>4
  <2>2. (a + k) - 1 = a + (k - 1) /\ (b + k) - 1 = b + (k - 1)
        /\ a + (k - 1) \in 0 .. Len(p) /\ b + (k - 1) \in 0 .. Len(q)
    BY <1>4
  <2>3. Ahead(p, a + k) = Ahead(p, a + (k - 1)) + p[a + k].time BY <1>4, <2>1, <2>2, AheadIs
  <2>4. Ahead(q, b + k) = Ahead(q, b + (k - 1)) + q[b + k].time BY <1>4, <2>1, <2>2, AheadIs
  <2>5. Ahead(p, a + (k - 1)) = Ahead(q, b + (k - 1)) + c BY <1>2
  <2>6. Ahead(q, b + (k - 1)) \in Int /\ q[b + k].time \in Int
        /\ c \in Int
    BY <1>4, <2>1, <2>2, AheadIs
  <2>7. p[a + k].time = q[b + k].time OBVIOUS
  <2>8. Ahead(p, a + k) = Ahead(q, b + k) + c BY ONLY <2>3, <2>4, <2>5, <2>6, <2>7
  <2> QED BY <2>8
<1> HIDE DEF T
<1>3. \A k \in 0 .. m : k \in T BY <1>1, <1>2, UpTo
<1> QED BY <1>3 DEF T

\* No entry is due before the one in front of it.
LEMMA AheadGrows ==
  ASSUME NEW q \in Seq(Rec)
  PROVE  /\ Ahead(q, 0) = 0
         /\ \A i \in 0 .. Len(q) : Ahead(q, i) \in Nat
         /\ \A i \in 1 .. Len(q) : Ahead(q, i) = Ahead(q, i - 1) + q[i].time
         /\ \A j \in 0 .. Len(q) : \A i \in 0 .. j : Ahead(q, i) <= Ahead(q, j)
<1> DEFINE n == Len(q)
           T == {k \in 0 .. n : Ahead(q, k) \in Nat /\ \A i \in 0 .. k : Ahead(q, i) <= Ahead(q, k)}
<1>1. n \in Nat /\ \A i \in 1 .. n : q[i].time \in Nat
  <2>1. \A i \in 1 .. n : q[i] \in Rec OBVIOUS
  <2> QED BY <2>1 DEF Rec
<1>2. /\ Ahead(q, 0) = 0 /\ \A i \in 0 .. n : Ahead(q, i) \in Int
      /\ \A i \in 1 .. n : Ahead(q, i) = Ahead(q, i - 1) + q[i].time
  BY <1>1, AheadIs
<1>3. 0 \in T BY <1>1, <1>2
<1>4. ASSUME NEW k \in 1 .. n, k - 1 \in T PROVE k \in T
  <2>1. Ahead(q, k) = Ahead(q, k - 1) + q[k].time /\ q[k].time \in Nat
        /\ Ahead(q, k - 1) \in Nat /\ \A i \in 0 .. k - 1 : Ahead(q, i) <= Ahead(q, k - 1)
    BY <1>1, <1>2, <1>4
  <2>2. \A i \in 0 .. k : i \in 0 .. k - 1 \/ i = k BY <1>1
  <2>3. \A i \in 0 .. k - 1 : Ahead(q, i) \in Int BY <1>1, <1>2
  <2> QED BY <1>1, <2>1, <2>2, <2>3
<1> HIDE DEF T
<1>5. \A k \in 0 .. n : k \in T BY <1>1, <1>3, <1>4, UpTo
<1> QED BY <1>2, <1>5 DEF T

\* There is one place behind all that are due no later.
LEMMA PlaceIs ==
  ASSUME NEW q \in Seq(Rec), NEW ms \in Nat
  PROVE  /\ Place(q, ms) \in 0 .. Len(q)
         /\ \A i \in 0 .. Place(q, ms) : Ahead(q, i) <= ms
         /\ \A i \in Place(q, ms) + 1 .. Len(q) : Ahead(q, i) > ms
<1> DEFINE n == Len(q)
           Here(k) == Ahead(q, k) <= ms /\ (k < n => Ahead(q, k + 1) > ms)
<1>1. n \in Nat /\ Ahead(q, 0) = 0 /\ \A i \in 0 .. n : Ahead(q, i) \in Nat
  BY AheadGrows
<1>2. \E k \in 0 .. n : Here(k)
  <2> SUFFICES ASSUME \A k \in 0 .. n : ~Here(k) PROVE FALSE OBVIOUS
  <2> DEFINE T == {k \in 0 .. n : Ahead(q, k) <= ms}
  <2>1. 0 \in T BY <1>1
  <2>2. ASSUME NEW k \in 1 .. n, k - 1 \in T PROVE k \in T
    <3>1. k - 1 \in 0 .. n /\ k - 1 < n /\ (k - 1) + 1 = k /\ Ahead(q, k - 1) <= ms /\ k \in 0 .. n
      BY <1>1, <2>2
    <3>2. ~(Ahead(q, k) > ms) BY <3>1
    <3> QED BY <1>1, <3>1, <3>2
  <2> HIDE DEF T
  <2>3. n \in T
    <3>1. n \in 0 .. n BY <1>1
    <3> HIDE DEF n
    <3> QED BY <1>1, <2>1, <2>2, <3>1, UpTo
  <2>4. n \in 0 .. n /\ Here(n) BY <1>1, <2>3 DEF T
  <2> QED BY <2>4
<1>3. Place(q, ms) \in 0 .. n /\ Here(Place(q, ms)) BY <1>2 DEF Place
<1> DEFINE k == Place(q, ms)
<1>4. ASSUME NEW i \in 0 .. k PROVE Ahead(q, i) <= ms
  BY <1>1, <1>3, AheadGrows
<1>5. ASSUME NEW i \in k + 1 .. n PROVE Ahead(q, i) > ms
  <2>1. k + 1 \in 0 .. i /\ i \in 0 .. n /\ k + 1 \in 0 .. n /\ Ahead(q, k + 1) > ms BY <1>1, <1>3
  <2>2. Ahead(q, k + 1) <= Ahead(q, i) BY <2>1, AheadGrows
  <2> QED BY <1>1, <2>1, <2>2
<1> QED BY <1>3, <1>4, <1>5

-----------------------------------------------------------------------------
(* The changes of the list. *)

\* the same timeout, whatever time the list keeps for it
Alike(e, f) == e.h = f.h /\ e.age = f.age /\ e.msgs = f.msgs

LEMMA CloserIs ==
  ASSUME NEW q \in Seq(Rec), NEW d \in Int, q # <<>> => q[1].time - d >= 0
  PROVE  /\ Closer(q, d) \in Seq(Rec) /\ Len(Closer(q, d)) = Len(q)
         /\ \A i \in 1 .. Len(q) :
              /\ Alike(Closer(q, d)[i], q[i])
              /\ Closer(q, d)[i].time = IF i = 1 THEN q[1].time - d ELSE q[i].time
<1> DEFINE p == Closer(q, d)
<1>1. CASE q = <<>> BY <1>1 DEF Closer
<1>2. CASE q # <<>>
  <2>1. Len(q) \in Nat /\ 1 \in 1 .. Len(q) /\ \A i \in 1 .. Len(q) : q[i] \in Rec BY <1>2
  <2>2. p = [q EXCEPT ![1].time = q[1].time - d] BY <1>2 DEF Closer
  <2> HIDE DEF p
  <2>3. p = [i \in 1 .. Len(q) |->
               IF i = 1 THEN [q[1] EXCEPT !.time = q[1].time - d] ELSE q[i]]
    <3>1. DOMAIN q = 1 .. Len(q) OBVIOUS
    <3> QED BY ONLY <2>2, <3>1
  <2>8. q[1] \in Rec BY <2>1
  <2>4. q[1].time - d \in Nat
    <3>1. q[1].time \in Nat BY <2>8 DEF Rec
    <3> QED BY <1>2, <3>1
  <2>5. [q[1] EXCEPT !.time = q[1].time - d] \in Rec BY <2>8, <2>4 DEF Rec
  <2>6. p \in [1 .. Len(q) -> Rec] BY <2>1, <2>3, <2>5
  <2>7. p \in Seq(Rec) /\ Len(p) = Len(q) BY <2>1, <2>6
  <2>9. Alike(p[1], q[1]) /\ p[1].time = q[1].time - d
    BY <2>1, <2>3, <2>8 DEF Rec, Alike
  <2>10. \A i \in 1 .. Len(q) : i # 1 => p[i] = q[i] BY <2>3
  <2> QED BY <2>7, <2>9, <2>10 DEF p, Alike
<1> QED BY <1>1, <1>2

\* the tail of a list from an entry on
LEMMA TailOf ==
  ASSUME NEW S, NEW q \in Seq(S), NEW a \in 1 .. Len(q) + 1
  PROVE  /\ SubSeq(q, a, Len(q)) \in Seq(S)
         /\ Len(SubSeq(q, a, Len(q))) = Len(q) - a + 1
         /\ \A i \in 1 .. Len(q) - a + 1 : SubSeq(q, a, Len(q))[i] = q[a + i - 1]
<1>1. Len(q) \in Nat /\ \A i \in a .. Len(q) : q[i] \in S OBVIOUS
<1>2. SubSeq(q, a, Len(q)) \in Seq(S) BY <1>1
<1>3. Len(SubSeq(q, a, Len(q))) = Len(q) - a + 1 BY <1>1
<1>4. ASSUME NEW i \in 1 .. Len(q) - a + 1 PROVE SubSeq(q, a, Len(q))[i] = q[a + i - 1]
  BY <1>1
<1> QED BY <1>2, <1>3, <1>4

LEMMA HeadOf ==
  ASSUME NEW S, NEW q \in Seq(S), NEW b \in 0 .. Len(q)
  PROVE  /\ SubSeq(q, 1, b) \in Seq(S) /\ Len(SubSeq(q, 1, b)) = b
         /\ \A i \in 1 .. b : SubSeq(q, 1, b)[i] = q[i]
<1>1. Len(q) \in Nat /\ \A i \in 1 .. b : q[i] \in S OBVIOUS
<1> QED BY <1>1

LEMMA JoinOf ==
  ASSUME NEW S, NEW a \in Seq(S), NEW b \in Seq(S)
  PROVE  /\ a \o b \in Seq(S) /\ Len(a \o b) = Len(a) + Len(b)
         /\ \A i \in 1 .. Len(a) : (a \o b)[i] = a[i]
         /\ \A i \in 1 .. Len(b) : (a \o b)[Len(a) + i] = b[i]
<1>1. a \o b \in Seq(S) /\ Len(a \o b) = Len(a) + Len(b) OBVIOUS
<1>2. \A i \in 1 .. Len(a) : (a \o b)[i] = a[i] OBVIOUS
<1>3. ASSUME NEW i \in 1 .. Len(b) PROVE (a \o b)[Len(a) + i] = b[i]
  <2>1. Len(a) + i \in Len(a) + 1 .. Len(a) + Len(b) /\ (Len(a) + i) - Len(a) = i OBVIOUS
  <2> QED BY <2>1
<1> QED BY <1>1, <1>2, <1>3

\* p is q with a timeout of h behind the first k entries, ms from now.
Inserted(q, h, ms, k, p) ==
  /\ p \in Seq(Rec) /\ Len(p) = Len(q) + 1 /\ k \in 0 .. Len(q)
  /\ \A i \in 1 .. k : Alike(p[i], q[i]) /\ Ahead(p, i) = Ahead(q, i)
  /\ Alike(p[k + 1], Entry(h, ms)) /\ Ahead(p, k + 1) = ms
  /\ \A i \in k + 1 .. Len(q) : Alike(p[i + 1], q[i]) /\ Ahead(p, i + 1) = Ahead(q, i)

\* sys_timeout: the new entry, and the others with the time they had.
LEMMA InsertIs ==
  ASSUME NEW q \in Seq(Rec), NEW h \in Handler, NEW ms \in Nat
  PROVE  Inserted(q, h, ms, Place(q, ms), Insert(q, h, ms))
<1> SUFFICES ASSUME NEW k, k = Place(q, ms), NEW p, p = Insert(q, h, ms)
             PROVE  Inserted(q, h, ms, k, p)
  OBVIOUS
<1> DEFINE n   == Len(q)
           new == Entry(h, ms - Ahead(q, k))
           s1  == SubSeq(q, 1, k)
           s2  == SubSeq(q, k + 1, Len(q))
           c2  == Closer(s2, new.time)
<1>1. /\ k \in 0 .. n /\ n \in Nat /\ n = Len(q)
      /\ \A i \in 0 .. k : Ahead(q, i) <= ms
      /\ \A i \in k + 1 .. n : Ahead(q, i) > ms
  <2>1. Len(q) \in Nat OBVIOUS
  <2> QED BY <2>1, PlaceIs
<1>2. /\ Ahead(q, 0) = 0
      /\ \A i \in 0 .. n : Ahead(q, i) \in Nat
      /\ \A i \in 1 .. n : Ahead(q, i) = Ahead(q, i - 1) + q[i].time
      /\ \A i \in 1 .. n : q[i] \in Rec /\ q[i].time \in Nat
  <2>1. \A i \in 1 .. n : q[i] \in Rec OBVIOUS
  <2>2. \A i \in 1 .. n : q[i].time \in Nat BY <2>1 DEF Rec
  <2> QED BY <2>1, <2>2, AheadGrows
<1>3. new \in Rec /\ new.time = ms - Ahead(q, k) /\ Alike(new, Entry(h, ms))
  <2>1. k \in 0 .. k /\ Ahead(q, k) \in Nat /\ Ahead(q, k) <= ms BY <1>1, <1>2
  <2>2. ms - Ahead(q, k) \in Nat BY <2>1
  <2> QED BY <2>2 DEF Entry, Rec, Alike
<1>4. s1 \in Seq(Rec) /\ Len(s1) = k /\ \A i \in 1 .. k : s1[i] = q[i] BY <1>1, HeadOf
<1>5. s2 \in Seq(Rec) /\ Len(s2) = n - k /\ \A i \in 1 .. n - k : s2[i] = q[k + i]
  <2>1. k + 1 \in 1 .. Len(q) + 1 /\ Len(q) - (k + 1) + 1 = n - k BY <1>1
  <2>2. \A i \in 1 .. n - k : (k + 1) + i - 1 = k + i BY <1>1
  <2> QED BY <2>1, <2>2, TailOf
<1>6. /\ c2 \in Seq(Rec) /\ Len(c2) = n - k
      /\ \A i \in 1 .. n - k :
           /\ Alike(c2[i], q[k + i])
           /\ c2[i].time = IF i = 1 THEN q[k + 1].time - new.time ELSE q[k + i].time
  <2>1. s2 # <<>> => s2[1].time - new.time >= 0
    <3>1. CASE k = n
      <4>1. s2 \in Seq(Rec) /\ Len(s2) = 0 BY <1>1, <1>5, <3>1
      <4> HIDE DEF s2
      <4> QED BY <4>1
    <3>2. CASE k # n
      <4>1. k + 1 \in 1 .. n /\ k + 1 \in k + 1 .. n /\ 1 \in 1 .. n - k /\ (k + 1) - 1 = k
            /\ k \in 0 .. n
        BY <1>1, <3>2
      <4>2. Ahead(q, k + 1) = Ahead(q, k) + q[k + 1].time /\ Ahead(q, k + 1) > ms
            /\ Ahead(q, k) \in Nat /\ q[k + 1].time \in Nat
        BY <1>1, <1>2, <4>1
      <4>3. s2[1] = q[k + 1] BY <1>5, <4>1
      <4>4. new.time = ms - Ahead(q, k) BY <1>3
      <4> HIDE DEF s2, new
      <4> QED BY <4>2, <4>3, <4>4
    <3> QED BY <3>1, <3>2
  <2>2. new.time \in Int BY <1>3 DEF Rec
  <2> HIDE DEF s2, new
  <2>3. /\ c2 \in Seq(Rec) /\ Len(c2) = Len(s2)
        /\ \A i \in 1 .. Len(s2) :
             /\ Alike(c2[i], s2[i])
             /\ c2[i].time = IF i = 1 THEN s2[1].time - new.time ELSE s2[i].time
    BY <1>5, <2>1, <2>2, CloserIs
  <2>4. \A i \in 1 .. n - k : s2[i] = q[k + i] BY <1>5
  <2>5. n - k >= 1 => s2[1] = q[k + 1] BY <1>1, <2>4
  <2> QED BY <1>1, <1>5, <2>3, <2>4, <2>5
<1>7. p = s1 \o <<new>> \o c2 BY DEF Insert
<1> HIDE DEF s1, s2, c2, new, n
<1>8. /\ p \in Seq(Rec) /\ Len(p) = n + 1
      /\ \A i \in 1 .. k : p[i] = q[i]
      /\ p[k + 1] = new
      /\ \A i \in 1 .. n - k : p[k + 1 + i] = c2[i]
  <2>1. <<new>> \in Seq(Rec) /\ Len(<<new>>) = 1 /\ <<new>>[1] = new BY <1>3
  <2> DEFINE s0 == <<new>>
             s3 == s1 \o s0
  <2> HIDE DEF s0
  <2>2. s3 \in Seq(Rec) /\ Len(s3) = k + 1 /\ (\A i \in 1 .. k : s3[i] = q[i]) /\ s3[k + 1] = new
    <3>1. /\ s3 \in Seq(Rec) /\ Len(s3) = k + 1
          /\ \A i \in 1 .. k : s3[i] = s1[i]
          /\ \A i \in 1 .. 1 : s3[k + i] = s0[i]
      BY <1>1, <1>4, <2>1, JoinOf DEF s0
    <3>2. s3[k + 1] = new BY <2>1, <3>1 DEF s0
    <3> HIDE DEF s3
    <3> QED BY <1>4, <3>1, <3>2
  <2> HIDE DEF s3
  <2>3. p = s3 \o c2 BY <1>7 DEF s3, s0
  <2>4. /\ p \in Seq(Rec) /\ Len(p) = (k + 1) + (n - k)
        /\ \A i \in 1 .. k + 1 : p[i] = s3[i]
        /\ \A i \in 1 .. n - k : p[k + 1 + i] = c2[i]
    BY <1>6, <2>2, <2>3, JoinOf
  <2>5. (k + 1) + (n - k) = n + 1 /\ k + 1 \in 1 .. k + 1 /\ \A i \in 1 .. k : i \in 1 .. k + 1
    BY <1>1
  <2> QED BY <2>2, <2>4, <2>5
<1>9. /\ Len(p) \in Nat /\ Len(q) \in Nat /\ Ahead(p, 0) = 0
      /\ \A i \in 1 .. Len(p) : p[i].time \in Int /\ Ahead(p, i) = Ahead(p, i - 1) + p[i].time
      /\ \A i \in 1 .. Len(q) : q[i].time \in Int
  <2>1. \A i \in 1 .. Len(p) : p[i] \in Rec BY <1>8
  <2>2. \A i \in 1 .. Len(p) : p[i].time \in Int BY <2>1 DEF Rec
  <2>3. Ahead(p, 0) = 0 /\ \A i \in 1 .. Len(p) : Ahead(p, i) = Ahead(p, i - 1) + p[i].time
    BY <1>8, AheadGrows
  <2>4. \A i \in 1 .. Len(q) : q[i].time \in Int BY <1>1, <1>2
  <2> QED BY <1>1, <1>8, <2>2, <2>3, <2>4
<1>10. \A i \in 0 .. k : Ahead(p, i) = Ahead(q, i)
  <2> DEFINE a == 0
  <2>1. Parallel(p, a, q, a, k, a)
    BY <1>1, <1>2, <1>8, <1>9 DEF Parallel
  <2>2. \A i \in 0 .. k : a + i = i /\ Ahead(q, i) + a = Ahead(q, i) BY <1>1, <1>2
  <2> HIDE DEF a
  <2>3. \A i \in 0 .. k : Ahead(p, a + i) = Ahead(q, a + i) + a
    BY <1>8, <2>1, Alongside
  <2> QED BY <2>2, <2>3
<1>11. Ahead(p, k + 1) = ms
  <2>1. k + 1 \in 1 .. Len(p) /\ (k + 1) - 1 = k /\ k \in 0 .. k /\ Ahead(q, k) \in Nat
    BY <1>1, <1>2, <1>8
  <2>2. Ahead(p, k + 1) = Ahead(q, k) + new.time BY <1>8, <1>9, <1>10, <2>1
  <2> QED BY <1>3, <2>1, <2>2
<1>12. ASSUME k < n PROVE \A i \in k + 1 .. n : Ahead(p, i + 1) = Ahead(q, i)
  <2>1. k + 2 \in 1 .. Len(p) /\ (k + 2) - 1 = k + 1 /\ k + 1 + 1 = k + 2 /\ (k + 1) - 1 = k
        /\ 1 \in 1 .. n - k /\ k + 1 \in 1 .. n
    BY <1>1, <1>8, <1>12
  <2>2. p[k + 2].time = q[k + 1].time - new.time
    <3>1. p[k + 2] = c2[1] BY <1>8, <2>1
    <3>2. c2[1].time = q[k + 1].time - new.time BY <1>6, <2>1
    <3> QED BY <3>1, <3>2
  <2>3. Ahead(p, k + 2) = ms + p[k + 2].time BY <1>9, <1>11, <2>1
  <2>4. Ahead(q, k + 1) = Ahead(q, k) + q[k + 1].time /\ Ahead(q, k) \in Nat
        /\ q[k + 1].time \in Nat /\ k \in 0 .. n
    BY <1>1, <1>2, <2>1
  <2>5. Ahead(p, k + 2) = Ahead(q, k + 1) BY <1>3, <2>2, <2>3, <2>4
  <2>20. k \in Nat /\ n \in Nat /\ k < n BY <1>1, <1>12
  <2>6. ASSUME NEW i \in 1 .. n - k - 1 PROVE p[(k + 2) + i].time = q[(k + 1) + i].time
    <3>1. k + 1 + (i + 1) = (k + 2) + i /\ i + 1 \in 1 .. n - k /\ i + 1 # 1
          /\ k + (i + 1) = (k + 1) + i
      BY ONLY <2>20, i \in 1 .. n - k - 1
    <3>2. p[(k + 2) + i] = c2[i + 1] BY <1>8, <3>1
    <3>3. c2[i + 1].time = q[(k + 1) + i].time BY <1>6, <3>1
    <3> QED BY <3>2, <3>3
  <2>7. n - k - 1 \in Nat /\ k + 2 \in Nat /\ k + 1 \in Nat
        /\ (k + 2) + (n - k - 1) <= Len(p) /\ (k + 1) + (n - k - 1) <= Len(q)
        /\ Ahead(p, k + 2) = Ahead(q, k + 1) + 0
    <3>1. Len(p) = n + 1 /\ Len(q) = n /\ Ahead(q, k + 1) + 0 = Ahead(q, k + 1)
      BY <1>1, <1>8, <2>4
    <3> QED BY ONLY <2>20, <2>5, <3>1
  <2>8. \A i \in 0 .. n - k - 1 : Ahead(p, (k + 2) + i) = Ahead(q, (k + 1) + i) + 0
    <3> DEFINE m == n - k - 1
               a == k + 2
               b == k + 1
               c == 0
    <3>1. Parallel(p, a, q, b, m, c) BY <2>6, <2>7 DEF Parallel
    <3> HIDE DEF m, a, b, c
    <3>2. \A i \in 0 .. m : Ahead(p, a + i) = Ahead(q, b + i) + c
      BY <1>8, <3>1, Alongside
    <3> QED BY <3>2 DEF m, a, b, c
  <2>9. ASSUME NEW i \in k + 1 .. n PROVE Ahead(p, i + 1) = Ahead(q, i)
    <3> DEFINE j == i - k - 1
    <3>1. j \in 0 .. n - k - 1 /\ (k + 2) + j = i + 1 /\ (k + 1) + j = i /\ i \in 0 .. n
      BY ONLY <2>20, i \in k + 1 .. n
    <3> HIDE DEF j
    <3>2. Ahead(p, (k + 2) + j) = Ahead(q, (k + 1) + j) + 0 BY <2>8, <3>1
    <3>3. Ahead(p, i + 1) = Ahead(q, i) + 0 BY <3>1, <3>2
    <3> QED BY <1>2, <3>1, <3>3
  <2> QED BY <2>9
<1>13. ASSUME NEW i \in k + 1 .. n PROVE Alike(p[i + 1], q[i]) /\ Ahead(p, i + 1) = Ahead(q, i)
  <2>1. i - k \in 1 .. n - k /\ k + (i - k) = i /\ k < n /\ k + 1 + (i - k) = i + 1 BY <1>1
  <2>2. p[i + 1] = c2[i - k] BY <1>8, <2>1
  <2>3. Alike(c2[i - k], q[i]) BY <1>6, <2>1
  <2> QED BY <1>12, <2>1, <2>2, <2>3
<1>14. ASSUME NEW i \in 1 .. k PROVE Alike(p[i], q[i]) /\ Ahead(p, i) = Ahead(q, i)
  BY <1>8, <1>10 DEF Alike
<1> QED BY <1>1, <1>3, <1>8, <1>11, <1>13, <1>14 DEF Inserted

\* Lists with the same times add up alike.
LEMMA SameTimes ==
  ASSUME NEW q \in Seq(Rec), NEW p \in Seq(Rec), Len(p) = Len(q),
         \A i \in 1 .. Len(q) : p[i].time = q[i].time
  PROVE  \A i \in 0 .. Len(q) : Ahead(p, i) = Ahead(q, i)
<1> DEFINE a == 0
           n == Len(q)
<1>1. /\ Len(q) \in Nat /\ a + n = n /\ Ahead(p, 0) = 0 /\ Ahead(q, 0) = 0
      /\ \A i \in 0 .. n : a + i = i /\ Ahead(q, i) + a = Ahead(q, i)
  BY AheadGrows
<1>2. Parallel(p, a, q, a, n, a) BY <1>1 DEF Parallel
<1> HIDE DEF a, n
<1>3. \A i \in 0 .. n : Ahead(p, a + i) = Ahead(q, a + i) + a BY <1>2, Alongside
<1> QED BY <1>1, <1>3 DEF n

\* Every entry of a list whose first is moved is moved with it.
LEMMA CloserAhead ==
  ASSUME NEW q \in Seq(Rec), NEW d \in Int, q # <<>>, q[1].time - d >= 0
  PROVE  \A i \in 1 .. Len(q) : Ahead(Closer(q, d), i) = Ahead(q, i) - d
<1> DEFINE p == Closer(q, d)
           n == Len(q)
<1>1. /\ p \in Seq(Rec) /\ Len(p) = n
      /\ \A i \in 1 .. n : p[i].time = IF i = 1 THEN q[1].time - d ELSE q[i].time
  BY CloserIs
<1> HIDE DEF p
<1>2. n \in Nat /\ n >= 1 /\ 1 \in 1 .. n /\ q[1] \in Rec OBVIOUS
<1>3. q[1].time \in Nat BY <1>2 DEF Rec
<1>4. Ahead(p, 0) = 0 /\ Ahead(p, 1) = Ahead(p, 1 - 1) + p[1].time BY <1>1, <1>2, AheadGrows
<1>5. Ahead(q, 0) = 0 /\ Ahead(q, 1) = Ahead(q, 1 - 1) + q[1].time BY <1>2, AheadGrows
<1>6. Ahead(p, 1) = Ahead(q, 1) + (0 - d) BY <1>1, <1>2, <1>3, <1>4, <1>5
<1>7. ASSUME NEW i \in 1 .. n - 1 PROVE p[1 + i].time = q[1 + i].time
  <2>1. 1 + i \in 1 .. n /\ 1 + i # 1 BY <1>2
  <2> QED BY <1>1, <2>1
<1> DEFINE a == 1
           m == n - 1
           c == 0 - d
<1>8. Parallel(p, a, q, a, m, c) BY <1>1, <1>2, <1>6, <1>7 DEF Parallel
<1>9. \A i \in 1 .. n : i - 1 \in 0 .. m /\ a + (i - 1) = i BY <1>2
<1>10. \A i \in 1 .. n : Ahead(q, i) \in Int BY AheadGrows
<1> HIDE DEF a, m, n, c
<1>11. \A i \in 0 .. m : Ahead(p, a + i) = Ahead(q, a + i) + c BY <1>1, <1>8, Alongside
<1>12. ASSUME NEW i \in 1 .. n PROVE Ahead(p, i) = Ahead(q, i) - d
  <2>1. Ahead(p, a + (i - 1)) = Ahead(q, a + (i - 1)) + c BY <1>9, <1>11
  <2> QED BY <1>9, <1>10, <2>1 DEF c
<1> QED BY <1>12 DEF n, p

\* The list without its first entry.
LEMMA TailIs ==
  ASSUME NEW q \in Seq(Rec), q # <<>>, NEW p, p = Tail(q)
  PROVE  /\ p \in Seq(Rec) /\ Len(p) = Len(q) - 1
         /\ \A i \in 1 .. Len(p) : p[i] = q[i + 1] /\ Ahead(p, i) = Ahead(q, i + 1) - q[1].time
<1> DEFINE n == Len(q)
<1>1. n \in Nat /\ n >= 1 /\ 1 \in 1 .. n /\ q[1] \in Rec OBVIOUS
<1>2. q[1].time \in Nat BY <1>1 DEF Rec
<1>3. p \in Seq(Rec) /\ Len(p) = n - 1 /\ \A i \in 1 .. n - 1 : p[i] = q[i + 1] BY <1>1
<1>4. Ahead(p, 0) = 0 /\ Ahead(q, 0) = 0 /\ Ahead(q, 1) = Ahead(q, 1 - 1) + q[1].time
  BY <1>1, <1>3, AheadGrows
<1>5. Ahead(p, 0) = Ahead(q, 1) + (0 - q[1].time) BY <1>2, <1>4
<1>6. \A i \in 1 .. n - 1 : p[0 + i].time = q[1 + i].time BY <1>3
<1> DEFINE a == 0
           b == 1
           m == n - 1
           c == 0 - q[1].time
<1>7. Parallel(p, a, q, b, m, c) BY <1>1, <1>2, <1>3, <1>5, <1>6 DEF Parallel
<1>8. \A i \in 1 .. m : i \in 0 .. m /\ a + i = i /\ b + i = i + 1 BY <1>1
<1>9. \A i \in 1 .. n - 1 : Ahead(q, i + 1) \in Int
  <2>1. \A i \in 1 .. n - 1 : i + 1 \in 0 .. n BY <1>1
  <2> QED BY <2>1, AheadGrows
<1> HIDE DEF a, b, m, n, c
<1>10. \A i \in 0 .. m : Ahead(p, a + i) = Ahead(q, b + i) + c
  BY ONLY <1>3, <1>7, q \in Seq(Rec), Alongside
<1>11. ASSUME NEW i \in 1 .. m PROVE Ahead(p, i) = Ahead(q, i + 1) - q[1].time
  <2>1. Ahead(p, a + i) = Ahead(q, b + i) + c BY <1>8, <1>10
  <2>2. Ahead(q, i + 1) \in Int BY <1>9 DEF m
  <2> QED BY <1>2, <1>8, <2>1, <2>2 DEF c
<1> QED BY <1>3, <1>11 DEF m, n
\* sys_untimeout: the others keep the time they had.
LEMMA WithoutIs ==
  ASSUME NEW q \in Seq(Rec), NEW k \in 1 .. Len(q), NEW p, p = Without(q, k)
  PROVE  /\ p \in Seq(Rec) /\ Len(p) = Len(q) - 1
         /\ \A i \in 1 .. k - 1 : Alike(p[i], q[i]) /\ Ahead(p, i) = Ahead(q, i)
         /\ \A i \in k .. Len(q) - 1 : Alike(p[i], q[i + 1]) /\ Ahead(p, i) = Ahead(q, i + 1)
<1> DEFINE n  == Len(q)
           b  == k - 1
           t  == q[k].time
           s1 == SubSeq(q, 1, b)
           s2 == SubSeq(q, k + 1, n)
           c2 == Closer(s2, -t)
<1>1. /\ n \in Nat /\ n = Len(q) /\ k \in 1 .. n /\ b \in 0 .. n /\ k = b + 1
      /\ Ahead(q, 0) = 0
      /\ \A i \in 0 .. n : Ahead(q, i) \in Nat
      /\ \A i \in 1 .. n : Ahead(q, i) = Ahead(q, i - 1) + q[i].time
      /\ \A i \in 1 .. n : q[i] \in Rec /\ q[i].time \in Nat
  <2>1. \A i \in 1 .. n : q[i] \in Rec OBVIOUS
  <2>2. \A i \in 1 .. n : q[i].time \in Nat BY <2>1 DEF Rec
  <2> QED BY <2>1, <2>2, AheadGrows
<1>2. t \in Nat BY <1>1
<1>3. s1 \in Seq(Rec) /\ Len(s1) = b /\ \A i \in 1 .. b : s1[i] = q[i] BY <1>1, HeadOf
<1>4. s2 \in Seq(Rec) /\ Len(s2) = n - k /\ \A i \in 1 .. n - k : s2[i] = q[k + i]
  <2>1. k + 1 \in 1 .. Len(q) + 1 /\ Len(q) - (k + 1) + 1 = n - k BY <1>1
  <2>2. \A i \in 1 .. n - k : (k + 1) + i - 1 = k + i BY <1>1
  <2> DEFINE a == k + 1
  <2>3. a \in 1 .. Len(q) + 1 /\ s2 = SubSeq(q, a, Len(q)) /\ Len(q) - a + 1 = n - k
        /\ \A i \in 1 .. n - k : a + i - 1 = k + i
    BY <2>1, <2>2
  <2> HIDE DEF a, s2, n
  <2> QED BY <2>3, TailOf
<1>5. p = s1 \o c2 BY DEF Without
<1> HIDE DEF s1, s2, n, b, t
<1>6. /\ c2 \in Seq(Rec) /\ Len(c2) = n - k
      /\ \A i \in 1 .. n - k :
           /\ Alike(c2[i], q[k + i])
           /\ c2[i].time = IF i = 1 THEN q[k + 1].time + t ELSE q[k + i].time
  <2>1. s2 # <<>> => s2[1].time - (-t) >= 0
    <3>1. CASE n = k
      <4>1. s2 = <<>> BY <1>1, <1>4, <3>1
      <4> QED BY <4>1
    <3>2. CASE n # k
      <4>1. 1 \in 1 .. n - k /\ k + 1 \in 1 .. n BY <1>1, <3>2
      <4>2. s2[1].time \in Nat BY <1>1, <1>4, <4>1
      <4> QED BY <1>2, <4>2
    <3> QED BY <3>1, <3>2
  <2>2. -t \in Int BY <1>2
  <2>3. /\ c2 \in Seq(Rec) /\ Len(c2) = Len(s2)
        /\ \A i \in 1 .. Len(s2) :
             /\ Alike(c2[i], s2[i])
             /\ c2[i].time = IF i = 1 THEN s2[1].time - (-t) ELSE s2[i].time
    BY <1>4, <2>1, <2>2, CloserIs
  <2>4. \A i \in 1 .. n - k : s2[i] = q[k + i] BY <1>4
  <2>5. n - k >= 1 => s2[1] = q[k + 1] /\ q[k + 1].time \in Nat
    <3>1. n - k >= 1 => 1 \in 1 .. n - k /\ k + 1 \in 1 .. n BY <1>1
    <3> QED BY <1>1, <2>4, <3>1
  <2> HIDE DEF c2
  <2>6. Len(c2) = n - k BY <1>4, <2>3
  <2>7. ASSUME NEW i \in 1 .. n - k
        PROVE  /\ Alike(c2[i], q[k + i])
               /\ c2[i].time = IF i = 1 THEN q[k + 1].time + t ELSE q[k + i].time
    <3>1. n - k >= 1 /\ i \in 1 .. Len(s2) BY <1>1, <1>4
    <3>2. s2[1].time - (-t) = q[k + 1].time + t BY <1>2, <2>5, <3>1
    <3> QED BY <2>3, <2>4, <3>1, <3>2
  <2> QED BY <2>3, <2>6, <2>7
<1> HIDE DEF c2
<1>7. /\ p \in Seq(Rec) /\ Len(p) = n - 1
      /\ \A i \in 1 .. b : p[i] = q[i]
      /\ \A i \in 1 .. n - k : p[b + i] = c2[i]
  <2>1. /\ p \in Seq(Rec) /\ Len(p) = b + (n - k)
        /\ \A i \in 1 .. b : p[i] = s1[i]
        /\ \A i \in 1 .. n - k : p[b + i] = c2[i]
    <3>1. s1 \in Seq(Rec) /\ c2 \in Seq(Rec) BY <1>3, <1>6
    <3>2. /\ p \in Seq(Rec) /\ Len(p) = Len(s1) + Len(c2)
          /\ \A i \in 1 .. Len(s1) : p[i] = s1[i]
          /\ \A i \in 1 .. Len(c2) : p[Len(s1) + i] = c2[i]
      BY ONLY <3>1, <1>5, JoinOf
    <3> QED BY ONLY <1>3, <1>6, <3>2
  <2>2. b + (n - k) = n - 1 BY <1>1
  <2> QED BY <1>3, <2>1, <2>2
<1>8. /\ Ahead(p, 0) = 0
      /\ \A i \in 1 .. n - 1 : Ahead(p, i) = Ahead(p, i - 1) + p[i].time
  BY <1>7, AheadGrows
<1>9. \A i \in 0 .. b : Ahead(p, i) = Ahead(q, i)
  <2> DEFINE a == 0
  <2>1. Parallel(p, a, q, a, b, a) BY <1>1, <1>7, <1>8 DEF Parallel
  <2>2. \A i \in 0 .. b : a + i = i /\ Ahead(q, i) + a = Ahead(q, i) BY <1>1
  <2> HIDE DEF a
  <2>3. \A i \in 0 .. b : Ahead(p, a + i) = Ahead(q, a + i) + a
    BY <1>7, <2>1, Alongside
  <2> QED BY <2>2, <2>3
<1>10. ASSUME k < n PROVE \A i \in k .. n - 1 : Ahead(p, i) = Ahead(q, i + 1)
  <2>1. /\ k \in 1 .. n - 1 /\ k \in 1 .. n /\ k + 1 \in 1 .. n /\ 1 \in 1 .. n - k
        /\ k - 1 = b /\ (k + 1) - 1 = k /\ b + 1 = k /\ k \in Nat /\ n \in Nat /\ b \in 0 .. b
    BY <1>1, <1>10
  <2>2. p[k].time = q[k + 1].time + t
    <3>1. p[k] = c2[1] BY <1>7, <2>1
    <3>2. c2[1].time = q[k + 1].time + t BY <1>6, <2>1
    <3> QED BY <3>1, <3>2
  <2>3. Ahead(p, k) = Ahead(q, b) + p[k].time BY <1>8, <1>9, <2>1
  <2>4. Ahead(q, k) = Ahead(q, b) + t /\ Ahead(q, k + 1) = Ahead(q, k) + q[k + 1].time
        /\ Ahead(q, b) \in Nat /\ q[k + 1].time \in Nat
    BY <1>1, <2>1 DEF t
  <2>5. Ahead(p, k) = Ahead(q, k + 1) + 0 BY <1>2, <2>2, <2>3, <2>4
  <2>6. ASSUME NEW i \in 1 .. n - k - 1 PROVE p[k + i].time = q[(k + 1) + i].time
    <3>1. b + (i + 1) = k + i /\ i + 1 \in 1 .. n - k /\ i + 1 # 1 /\ k + (i + 1) = (k + 1) + i
      BY ONLY <2>1, i \in 1 .. n - k - 1
    <3>2. p[k + i] = c2[i + 1] BY <1>7, <3>1
    <3>3. c2[i + 1].time = q[(k + 1) + i].time BY <1>6, <3>1
    <3> QED BY <3>2, <3>3
  <2> DEFINE m == n - k - 1
             a == k + 1
             c == 0
  <2>7. Parallel(p, k, q, a, m, c)
    <3>1. Len(p) = n - 1 /\ Len(q) = n BY <1>1, <1>7
    <3>2. m \in Nat /\ a \in Nat /\ c \in Int /\ k + m <= Len(p) /\ a + m <= Len(q)
      BY ONLY <2>1, <3>1, k < n, <1>10
    <3> QED BY <2>1, <2>5, <2>6, <3>2 DEF Parallel
  <2>8. \A i \in k .. n - 1 : i - k \in 0 .. m /\ k + (i - k) = i /\ a + (i - k) = i + 1 /\ i + 1 \in 0 .. n
    BY ONLY <2>1
  <2>9. c = 0 OBVIOUS
  <2> HIDE DEF m, a, c
  <2>10. \A i \in 0 .. m : Ahead(p, k + i) = Ahead(q, a + i) + c
    BY <1>7, <2>7, Alongside
  <2>11. ASSUME NEW i \in k .. n - 1 PROVE Ahead(p, i) = Ahead(q, i + 1)
    <3>1. Ahead(p, k + (i - k)) = Ahead(q, a + (i - k)) + c BY <2>8, <2>10
    <3>2. Ahead(q, i + 1) \in Nat BY <1>1, <2>8
    <3> QED BY <2>8, <2>9, <3>1, <3>2
  <2> QED BY <2>11
<1>11. ASSUME NEW i \in k .. n - 1 PROVE Alike(p[i], q[i + 1]) /\ Ahead(p, i) = Ahead(q, i + 1)
  <2>1. i - b \in 1 .. n - k /\ b + (i - b) = i /\ k < n /\ k + (i - b) = i + 1 BY <1>1
  <2>2. p[i] = c2[i - b] BY <1>7, <2>1
  <2>3. Alike(c2[i - b], q[i + 1]) BY <1>6, <2>1
  <2> QED BY <1>10, <2>1, <2>2, <2>3
<1>12. ASSUME NEW i \in 1 .. k - 1 PROVE Alike(p[i], q[i]) /\ Ahead(p, i) = Ahead(q, i)
  <2>1. i \in 1 .. b /\ i \in 0 .. b BY <1>1
  <2> QED BY <1>7, <1>9, <2>1 DEF Alike
<1> QED BY <1>1, <1>7, <1>11, <1>12
LEMMA MinMax ==
  ASSUME NEW a \in Int, NEW b \in Int
  PROVE  Min({a, b}) = (IF a <= b THEN a ELSE b) /\ Max({a, b}) = (IF a <= b THEN b ELSE a)
<1>1. Min({a, b}) \in {a, b} /\ Min({a, b}) <= a /\ Min({a, b}) <= b
  <2>1. \E x \in {a, b} : \A y \in {a, b} : x <= y OBVIOUS
  <2> QED BY <2>1 DEF Min
<1>2. Max({a, b}) \in {a, b} /\ Max({a, b}) >= a /\ Max({a, b}) >= b
  <2>1. \E x \in {a, b} : \A y \in {a, b} : x >= y OBVIOUS
  <2> QED BY <2>1 DEF Max
<1> QED BY <1>1, <1>2

\* A tick: every entry is older.
Aged(q) == [i \in DOMAIN q |-> [q[i] EXCEPT !.age = Min({@ + 1, Interval[q[i].h]})]]

LEMMA AgedIs ==
  ASSUME NEW q \in Seq(Rec), NEW p, p = Aged(q)
  PROVE  /\ p \in Seq(Rec) /\ Len(p) = Len(q)
         /\ \A i \in 1 .. Len(q) :
              /\ p[i].h = q[i].h /\ p[i].time = q[i].time /\ p[i].msgs = q[i].msgs
              /\ p[i].age = Min({q[i].age + 1, Interval[q[i].h]})
              /\ Ahead(p, i) = Ahead(q, i)
<1>1. DOMAIN q = 1 .. Len(q) /\ Len(q) \in Nat /\ \A i \in 1 .. Len(q) : q[i] \in Rec OBVIOUS
<1>2. ASSUME NEW i \in 1 .. Len(q)
      PROVE  /\ p[i] \in Rec
             /\ p[i].h = q[i].h /\ p[i].time = q[i].time /\ p[i].msgs = q[i].msgs
             /\ p[i].age = Min({q[i].age + 1, Interval[q[i].h]})
  <2>1. p[i] = [q[i] EXCEPT !.age = Min({q[i].age + 1, Interval[q[i].h]})] BY <1>1 DEF Aged
  <2>2. q[i] \in Rec BY <1>1
  <2>5. q[i].age \in Nat /\ q[i].h \in Handler BY <2>2 DEF Rec
  <2>3. q[i].age + 1 \in Nat /\ Interval[q[i].h] \in Nat BY ONLY <2>5, IntervalAssumption
  <2>4. Min({q[i].age + 1, Interval[q[i].h]}) \in Nat BY <2>3, MinMax
  <2> QED BY <2>1, <2>2, <2>4 DEF Rec
<1>3. p \in Seq(Rec) /\ Len(p) = Len(q)
  <2>1. p = [i \in 1 .. Len(q) |-> p[i]] BY <1>1 DEF Aged
  <2>2. p \in [1 .. Len(q) -> Rec] BY <1>2, <2>1
  <2> QED BY ONLY <1>1, <2>2
<1>4. \A i \in 0 .. Len(q) : Ahead(p, i) = Ahead(q, i) BY <1>2, <1>3, SameTimes
<1>5. \A i \in 1 .. Len(q) : i \in 0 .. Len(q) BY <1>1
<1> QED BY <1>2, <1>3, <1>4, <1>5

\* A message: every entry has seen one more, and all are closer by the same part of the
\* wait.
LEMMA ReceivedIs ==
  ASSUME NEW q \in Seq(Rec), q # <<>>, elapsed \in Nat, NEW p, p = Received(q)
  PROVE  \E d \in Nat :
           /\ d <= q[1].time /\ d <= elapsed + 1 /\ (d = 0 => q[1].time = 0)
           /\ p \in Seq(Rec) /\ Len(p) = Len(q)
           /\ \A i \in 1 .. Len(q) :
                /\ p[i].h = q[i].h /\ p[i].age = q[i].age
                /\ p[i].msgs = Min({q[i].msgs + 1, Interval[q[i].h]})
                /\ Ahead(p, i) = Ahead(q, i) - d
<1> DEFINE o == Older(q)
           d == Min({TimeNeeded, Head(q).time})
<1>1. DOMAIN q = 1 .. Len(q) /\ Len(q) \in Nat /\ \A i \in 1 .. Len(q) : q[i] \in Rec OBVIOUS
<1>2. 1 \in 1 .. Len(q) /\ Head(q) = q[1] OBVIOUS
<1>3. q[1].time \in Nat /\ TimeNeeded \in Nat /\ TimeNeeded >= 1 /\ TimeNeeded <= elapsed + 1
  <2>4. elapsed \in Int /\ 1 \in Int OBVIOUS
  <2>5. Max({elapsed, 1}) = IF elapsed <= 1 THEN 1 ELSE elapsed BY ONLY <2>4, MinMax
  <2>1. TimeNeeded = IF elapsed <= 1 THEN 1 ELSE elapsed BY <2>5 DEF TimeNeeded
  <2>2. q[1] \in Rec BY <1>1, <1>2
  <2>3. q[1].time \in Nat BY <2>2 DEF Rec
  <2> QED BY <2>1, <2>3
<1>4. d \in Nat /\ d <= q[1].time /\ d <= elapsed + 1 /\ (d = 0 => q[1].time = 0)
  BY <1>2, <1>3, MinMax
<1>5. ASSUME NEW i \in 1 .. Len(q)
      PROVE  /\ o[i] \in Rec
             /\ o[i].h = q[i].h /\ o[i].time = q[i].time /\ o[i].age = q[i].age
             /\ o[i].msgs = Min({q[i].msgs + 1, Interval[q[i].h]})
  <2>1. o[i] = [q[i] EXCEPT !.msgs = Min({q[i].msgs + 1, Interval[q[i].h]})]
    BY <1>1 DEF Older
  <2>2. q[i] \in Rec BY <1>1
  <2>5. q[i].msgs \in Nat /\ q[i].h \in Handler BY <2>2 DEF Rec
  <2>3. q[i].msgs + 1 \in Nat /\ Interval[q[i].h] \in Nat BY ONLY <2>5, IntervalAssumption
  <2>4. Min({q[i].msgs + 1, Interval[q[i].h]}) \in Nat BY <2>3, MinMax
  <2> QED BY <2>1, <2>2, <2>4 DEF Rec
<1>6. o \in Seq(Rec) /\ Len(o) = Len(q)
  <2>1. o = [i \in 1 .. Len(q) |-> o[i]] BY <1>1 DEF Older
  <2>2. o \in [1 .. Len(q) -> Rec] BY <1>5, <2>1
  <2> QED BY <1>1, <2>2
<1>7. p = Closer(o, d) BY DEF Received
<1> HIDE DEF o, d
<1>8. o # <<>> /\ o[1].time - d >= 0 /\ d \in Int
  <2>1. o # <<>> BY <1>1, <1>2, <1>6
  <2>2. o[1].time = q[1].time BY <1>2, <1>5
  <2> QED BY <1>3, <1>4, <2>1, <2>2
<1>9. p \in Seq(Rec) /\ Len(p) = Len(q) /\ \A i \in 1 .. Len(q) : Alike(p[i], o[i])
  BY <1>6, <1>7, <1>8, CloserIs
<1>10. \A i \in 1 .. Len(q) : Ahead(p, i) = Ahead(o, i) - d
  BY <1>6, <1>7, <1>8, CloserAhead
<1>11. \A i \in 0 .. Len(q) : Ahead(o, i) = Ahead(q, i) BY <1>5, <1>6, SameTimes
<1>12. ASSUME NEW i \in 1 .. Len(q)
       PROVE  /\ p[i].h = q[i].h /\ p[i].age = q[i].age
              /\ p[i].msgs = Min({q[i].msgs + 1, Interval[q[i].h]})
              /\ Ahead(p, i) = Ahead(q, i) - d
  <2>1. i \in 0 .. Len(q) BY <1>1
  <2>2. Ahead(p, i) = Ahead(q, i) - d BY <1>10, <1>11, <2>1
  <2> QED BY <1>5, <1>9, <2>2 DEF Alike
<1> QED BY <1>4, <1>9, <1>12

-----------------------------------------------------------------------------
(* How often a callback is pending. *)

Never(q, h) == \A i \in DOMAIN q : q[i].h # h
Once(q, h)  == \E i \in DOMAIN q : q[i].h = h /\ \A j \in DOMAIN q : q[j].h = h => j = i

\* One entry more, and the names of the others in the same order.
More(q, p, k) ==
  /\ k \in 1 .. Len(p)
  /\ \A i \in 1 .. k - 1 : p[i].h = q[i].h
  /\ \A i \in k .. Len(q) : p[i + 1].h = q[i].h

LEMMA MoreIs ==
  ASSUME NEW q \in Seq(Rec), NEW p \in Seq(Rec), NEW k, Len(p) = Len(q) + 1, More(q, p, k)
  PROVE  /\ \A h : h # p[k].h => /\ Never(p, h) <=> Never(q, h)
                                 /\ Once(p, h) <=> Once(q, h)
         /\ Never(q, p[k].h) <=> Once(p, p[k].h)
         /\ ~Never(p, p[k].h)
<1> DEFINE n == Len(q)
           at(i) == IF i < k THEN i ELSE i + 1
<1>1. /\ n \in Nat /\ DOMAIN q = 1 .. n /\ DOMAIN p = 1 .. n + 1 /\ k \in 1 .. n + 1
      /\ \A i \in 1 .. n : at(i) \in 1 .. n + 1 /\ at(i) # k /\ p[at(i)].h = q[i].h
      /\ \A i, j \in 1 .. n : at(i) = at(j) => i = j
      /\ \A j \in 1 .. n + 1 : j # k => \E i \in 1 .. n : at(i) = j
  <2>1. n \in Nat /\ DOMAIN q = 1 .. n /\ DOMAIN p = 1 .. n + 1 /\ k \in 1 .. n + 1
    BY DEF More
  <2>2. ASSUME NEW i \in 1 .. n PROVE at(i) \in 1 .. n + 1 /\ at(i) # k /\ p[at(i)].h = q[i].h
    BY <2>1 DEF More
  <2>3. \A i, j \in 1 .. n : at(i) = at(j) => i = j BY <2>1
  <2>4. ASSUME NEW j \in 1 .. n + 1, j # k PROVE \E i \in 1 .. n : at(i) = j
    <3>1. CASE j < k
      <4>1. j \in 1 .. n /\ at(j) = j BY <2>1, <3>1
      <4> QED BY <4>1
    <3>2. CASE ~(j < k)
      <4>1. j - 1 \in 1 .. n /\ at(j - 1) = j BY <2>1, <2>4, <3>2
      <4> QED BY <4>1
    <3> QED BY <3>1, <3>2
  <2> QED BY <2>1, <2>2, <2>3, <2>4
<1> HIDE DEF at, n
<1>2. ASSUME NEW h, h # p[k].h
      PROVE  (Never(p, h) <=> Never(q, h)) /\ (Once(p, h) <=> Once(q, h))
  <2>1. \A j \in 1 .. n + 1 : p[j].h = h => j # k BY <1>2
  <2>2. Never(p, h) => Never(q, h) BY <1>1 DEF Never
  <2>3. ASSUME Never(q, h) PROVE Never(p, h)
    <3> SUFFICES ASSUME NEW j \in 1 .. n + 1, p[j].h = h PROVE FALSE BY <1>1 DEF Never
    <3>1. PICK i \in 1 .. n : at(i) = j BY <1>1, <2>1
    <3>2. q[i].h = h BY <1>1, <3>1
    <3> QED BY <1>1, <2>3, <3>2 DEF Never
  <2>4. ASSUME Once(p, h) PROVE Once(q, h)
    <3>1. PICK j \in 1 .. n + 1 : p[j].h = h /\ \A l \in 1 .. n + 1 : p[l].h = h => l = j
      BY <1>1, <2>4 DEF Once
    <3>2. PICK i \in 1 .. n : at(i) = j BY <1>1, <2>1, <3>1
    <3>3. q[i].h = h BY <1>1, <3>1, <3>2
    <3>4. \A l \in 1 .. n : q[l].h = h => l = i BY <1>1, <3>1, <3>2
    <3> QED BY <1>1, <3>3, <3>4 DEF Once
  <2>5. ASSUME Once(q, h) PROVE Once(p, h)
    <3>1. PICK i \in 1 .. n : q[i].h = h /\ \A l \in 1 .. n : q[l].h = h => l = i
      BY <1>1, <2>5 DEF Once
    <3>2. p[at(i)].h = h /\ at(i) \in 1 .. n + 1 BY <1>1, <3>1
    <3>3. ASSUME NEW l \in 1 .. n + 1, p[l].h = h PROVE l = at(i)
      <4>1. PICK m \in 1 .. n : at(m) = l BY <1>1, <2>1, <3>3
      <4>2. q[m].h = h BY <1>1, <3>3, <4>1
      <4> QED BY <3>1, <4>1, <4>2
    <3> QED BY <1>1, <3>2, <3>3 DEF Once
  <2> QED BY <2>2, <2>3, <2>4, <2>5
<1>3. Never(q, p[k].h) => Once(p, p[k].h)
  <2> SUFFICES ASSUME Never(q, p[k].h) PROVE Once(p, p[k].h) OBVIOUS
  <2>1. ASSUME NEW l \in 1 .. n + 1, p[l].h = p[k].h PROVE l = k
    <3> SUFFICES ASSUME l # k PROVE FALSE OBVIOUS
    <3>1. PICK i \in 1 .. n : at(i) = l BY <1>1
    <3>2. q[i].h = p[k].h BY <1>1, <2>1, <3>1
    <3> QED BY <1>1, <3>2 DEF Never
  <2> QED BY <1>1, <2>1 DEF Once
<1>4. Once(p, p[k].h) => Never(q, p[k].h)
  <2> SUFFICES ASSUME Once(p, p[k].h), NEW i \in DOMAIN q, q[i].h = p[k].h PROVE FALSE
    BY DEF Never
  <2>1. at(i) \in DOMAIN p /\ p[at(i)].h = p[k].h /\ at(i) # k /\ k \in DOMAIN p BY <1>1
  <2> QED BY <2>1 DEF Once
<1>5. ~Never(p, p[k].h) BY <1>1 DEF Never
<1> QED BY <1>2, <1>3, <1>4, <1>5

\* Lists with the same names.
LEMMA SameNames ==
  ASSUME NEW q \in Seq(Rec), NEW p \in Seq(Rec), Len(p) = Len(q),
         \A i \in 1 .. Len(q) : p[i].h = q[i].h
  PROVE  \A h : (Never(p, h) <=> Never(q, h)) /\ (Once(p, h) <=> Once(q, h))
<1>1. DOMAIN q = 1 .. Len(q) /\ DOMAIN p = 1 .. Len(q) OBVIOUS
<1> QED BY <1>1 DEF Never, Once

\* What Pending counts.
LEMMA Counted ==
  ASSUME NEW h
  PROVE  (Never(next_timeout, h) => Pending(h) = 0) /\ (Once(next_timeout, h) => Pending(h) = 1)
<1> DEFINE S == {i \in DOMAIN next_timeout : next_timeout[i].h = h}
<1>1. Never(next_timeout, h) => Pending(h) = 0
  <2>1. Never(next_timeout, h) => S = {} BY DEF Never
  <2> QED BY <2>1, FS_EmptySet DEF Pending
<1>2. ASSUME Once(next_timeout, h) PROVE Pending(h) = 1
  <2>1. PICK i : S = {i} BY <1>2 DEF Once
  <2> QED BY <2>1, FS_Singleton DEF Pending
<1> QED BY <1>1, <1>2
-----------------------------------------------------------------------------
(* What the entries keep to. *)

\* No timeout is due later than it was set for, and none lacks more ticks and messages
\* than it has left, e of which may have gone already.
Keeps(r, left, e) ==
  /\ left <= Interval[r.h] /\ r.age <= Interval[r.h] /\ r.msgs <= Interval[r.h]
  /\ r.age + r.msgs >= Interval[r.h] \/ r.age + r.msgs >= Interval[r.h] - left + e

Fine(q, e) == q \in Seq(Rec) /\ \A i \in 1 .. Len(q) : Keeps(q[i], Ahead(q, i), e)

\* what is known of the entry i
LEMMA EntryIs ==
  ASSUME NEW q \in Seq(Rec), NEW i \in 1 .. Len(q)
  PROVE  /\ q[i].h \in Handler /\ q[i].age \in Nat /\ q[i].msgs \in Nat /\ q[i].time \in Nat
         /\ Interval[q[i].h] \in Nat /\ Ahead(q, i) \in Nat /\ q[i].time <= Ahead(q, i)
         /\ Ahead(q, 1) = q[1].time
<1>1. q[i] \in Rec /\ i \in 0 .. Len(q) /\ i - 1 \in 0 .. Len(q) /\ 1 \in 1 .. Len(q) /\ 1 - 1 = 0
      /\ 0 \in 0 .. Len(q)
  OBVIOUS
<1>2. q[i].h \in Handler /\ q[i].age \in Nat /\ q[i].msgs \in Nat /\ q[i].time \in Nat
  BY <1>1 DEF Rec
<1>3. Interval[q[i].h] \in Nat BY ONLY <1>2, IntervalAssumption
<1>4. Ahead(q, i) \in Nat /\ Ahead(q, i - 1) \in Nat /\ Ahead(q, i) = Ahead(q, i - 1) + q[i].time
      /\ Ahead(q, 0) = 0 /\ Ahead(q, 1) = Ahead(q, 1 - 1) + q[1].time
  BY <1>1, AheadGrows
<1>5. q[1].time \in Nat
  <2>1. q[1] \in Rec BY <1>1
  <2> QED BY <2>1 DEF Rec
<1> QED BY <1>2, <1>3, <1>4, <1>5

LEMMA FineInsert ==
  ASSUME NEW q, Fine(q, 0), NEW h \in Handler, NEW p, p = Insert(q, h, Interval[h])
  PROVE  Fine(p, 0)
<1>0. PICK ms, k : ms = Interval[h] /\ k = Place(q, ms) OBVIOUS
<1>1. q \in Seq(Rec) /\ Len(q) \in Nat /\ ms \in Nat BY <1>0, IntervalAssumption DEF Fine
<1>2. /\ p \in Seq(Rec) /\ Len(p) = Len(q) + 1 /\ k \in 0 .. Len(q)
      /\ \A i \in 1 .. k : Alike(p[i], q[i]) /\ Ahead(p, i) = Ahead(q, i)
      /\ Alike(p[k + 1], Entry(h, ms)) /\ Ahead(p, k + 1) = ms
      /\ \A i \in k + 1 .. Len(q) :
           Alike(p[i + 1], q[i]) /\ Ahead(p, i + 1) = Ahead(q, i)
  <2>1. k = Place(q, ms) /\ p = Insert(q, h, ms) BY <1>0
  <2>2. Inserted(q, h, ms, k, p) BY <1>1, <2>1, InsertIs
  <2> QED BY <2>2 DEF Inserted
<1>3. ASSUME NEW j \in 1 .. Len(p) PROVE Keeps(p[j], Ahead(p, j), 0)
  <2>1. CASE j \in 1 .. k
    <3>1. j \in 1 .. Len(q) BY <1>1, <1>2, <2>1
    <3>2. Keeps(q[j], Ahead(q, j), 0) BY <3>1 DEF Fine
    <3> QED BY <1>2, <2>1, <3>2 DEF Keeps, Alike
  <2>2. CASE j = k + 1
    <3>1. p[j].h = h /\ p[j].age = 0 /\ p[j].msgs = 0 /\ Ahead(p, j) = ms
      BY <1>2, <2>2 DEF Alike, Entry
    <3> QED BY <1>0, <1>1, <3>1 DEF Keeps
  <2>3. CASE j > k + 1
    <3>1. j - 1 \in k + 1 .. Len(q) /\ (j - 1) + 1 = j /\ j - 1 \in 1 .. Len(q)
      BY <1>1, <1>2, <2>3
    <3>2. Keeps(q[j - 1], Ahead(q, j - 1), 0) BY <3>1 DEF Fine
    <3>3. Alike(p[j], q[j - 1]) /\ Ahead(p, j) = Ahead(q, j - 1) BY <1>2, <3>1
    <3> QED BY <3>2, <3>3 DEF Keeps, Alike
  <2> QED BY <1>2, <2>1, <2>2, <2>3
<1> QED BY <1>2, <1>3 DEF Fine

LEMMA FineWithout ==
  ASSUME NEW q, NEW e, Fine(q, e), NEW k \in 1 .. Len(q), NEW p, p = Without(q, k)
  PROVE  Fine(p, e)
<1>1. q \in Seq(Rec) /\ Len(q) \in Nat BY DEF Fine
<1>2. /\ p \in Seq(Rec) /\ Len(p) = Len(q) - 1
      /\ \A i \in 1 .. k - 1 : Alike(p[i], q[i]) /\ Ahead(p, i) = Ahead(q, i)
      /\ \A i \in k .. Len(q) - 1 : Alike(p[i], q[i + 1]) /\ Ahead(p, i) = Ahead(q, i + 1)
  BY <1>1, WithoutIs
<1>3. ASSUME NEW j \in 1 .. Len(p) PROVE Keeps(p[j], Ahead(p, j), e)
  <2>1. CASE j \in 1 .. k - 1
    <3>1. j \in 1 .. Len(q) BY <1>1, <1>2, <2>1
    <3>2. Keeps(q[j], Ahead(q, j), e) BY <3>1 DEF Fine
    <3> QED BY <1>2, <2>1, <3>2 DEF Keeps, Alike
  <2>2. CASE j \in k .. Len(q) - 1
    <3>1. j + 1 \in 1 .. Len(q) BY <1>1, <1>2, <2>2
    <3>2. Keeps(q[j + 1], Ahead(q, j + 1), e) BY <3>1 DEF Fine
    <3> QED BY <1>2, <2>2, <3>2 DEF Keeps, Alike
  <2> QED BY <1>1, <1>2, <2>1, <2>2
<1> QED BY <1>2, <1>3 DEF Fine

\* The first entry expires no sooner than it has nothing left.
LEMMA FineTail ==
  ASSUME NEW q, NEW e \in Nat, Fine(q, e), q # <<>>, e >= q[1].time
  PROVE  Fine(Tail(q), 0) /\ q[1].age + q[1].msgs >= Interval[q[1].h]
<1> DEFINE p == Tail(q)
<1>1. q \in Seq(Rec) /\ Len(q) \in Nat /\ 1 \in 1 .. Len(q) BY DEF Fine
<1>2. /\ p \in Seq(Rec) /\ Len(p) = Len(q) - 1
      /\ \A i \in 1 .. Len(p) : p[i] = q[i + 1] /\ Ahead(p, i) = Ahead(q, i + 1) - q[1].time
  BY <1>1, TailIs
<1> HIDE DEF p
<1>3. ASSUME NEW j \in 1 .. Len(p) PROVE Keeps(p[j], Ahead(p, j), 0)
  <2>1. j + 1 \in 1 .. Len(q) BY <1>1, <1>2
  <2>2. Keeps(q[j + 1], Ahead(q, j + 1), e) BY <2>1 DEF Fine
  <2>3. /\ q[j + 1].age \in Nat /\ q[j + 1].msgs \in Nat /\ Interval[q[j + 1].h] \in Nat
        /\ Ahead(q, j + 1) \in Nat
    BY <1>1, <2>1, EntryIs
  <2>4. q[1].time \in Nat BY <1>1, EntryIs
  <2>5. p[j] = q[j + 1] /\ Ahead(p, j) = Ahead(q, j + 1) - q[1].time BY <1>2
  <2>6. /\ Ahead(q, j + 1) <= Interval[q[j + 1].h]
        /\ q[j + 1].age <= Interval[q[j + 1].h] /\ q[j + 1].msgs <= Interval[q[j + 1].h]
        /\ \/ q[j + 1].age + q[j + 1].msgs >= Interval[q[j + 1].h]
           \/ q[j + 1].age + q[j + 1].msgs >= Interval[q[j + 1].h] - Ahead(q, j + 1) + e
    BY <2>2 DEF Keeps
  <2>7. /\ Ahead(q, j + 1) - q[1].time <= Interval[q[j + 1].h]
        /\ \/ q[j + 1].age + q[j + 1].msgs >= Interval[q[j + 1].h]
           \/ q[j + 1].age + q[j + 1].msgs
                >= Interval[q[j + 1].h] - (Ahead(q, j + 1) - q[1].time) + 0
    <3> DEFINE i == Interval[q[j + 1].h]
               a == q[j + 1].age
               m == q[j + 1].msgs
               l == Ahead(q, j + 1)
               t == q[1].time
    <3>1. /\ i \in Nat /\ a \in Nat /\ m \in Nat /\ l \in Nat /\ t \in Nat /\ l <= i /\ t <= e
          /\ a + m >= i \/ a + m >= i - l + e
      BY <2>3, <2>4, <2>6
    <3> HIDE DEF i, a, m, l, t
    <3>2. /\ l - t <= i
          /\ a + m >= i \/ a + m >= i - (l - t) + 0
      BY ONLY <3>1, e \in Nat
    <3> QED BY <3>2 DEF i, a, m, l, t
  <2> QED BY <2>5, <2>6, <2>7 DEF Keeps
<1>4. q[1].age + q[1].msgs >= Interval[q[1].h]
  <2>1. Keeps(q[1], Ahead(q, 1), e) BY <1>1 DEF Fine
  <2>2. /\ q[1].age \in Nat /\ q[1].msgs \in Nat /\ Interval[q[1].h] \in Nat
        /\ Ahead(q, 1) = q[1].time /\ q[1].time \in Nat
    BY <1>1, EntryIs
  <2>3. \/ q[1].age + q[1].msgs >= Interval[q[1].h]
        \/ q[1].age + q[1].msgs >= Interval[q[1].h] - q[1].time + e
    BY <2>1, <2>2 DEF Keeps
  <2> QED BY <2>2, <2>3
<1> QED BY <1>2, <1>3, <1>4 DEF Fine, p

LEMMA FineReceived ==
  ASSUME NEW q, elapsed \in Nat, Fine(q, elapsed), NEW p, p = Received(q)
  PROVE  Fine(p, 0) /\ Len(p) = Len(q)
<1>1. q \in Seq(Rec) /\ Len(q) \in Nat BY DEF Fine
<1>2. CASE q = <<>>
  <2>1. p = <<>> BY <1>2 DEF Received
  <2>2. <<>> \in Seq(Rec) /\ Len(<<>>) = 0 /\ 1 .. 0 = {} OBVIOUS
  <2> QED BY <1>2, <2>1, <2>2 DEF Fine
<1>3. CASE q # <<>>
  <2>1. PICK d \in Nat :
          /\ d <= q[1].time /\ d <= elapsed + 1 /\ (d = 0 => q[1].time = 0)
          /\ p \in Seq(Rec) /\ Len(p) = Len(q)
          /\ \A i \in 1 .. Len(q) :
               /\ p[i].h = q[i].h /\ p[i].age = q[i].age
               /\ p[i].msgs = Min({q[i].msgs + 1, Interval[q[i].h]})
               /\ Ahead(p, i) = Ahead(q, i) - d
    BY <1>1, <1>3, ReceivedIs
  <2>2. ASSUME NEW j \in 1 .. Len(p) PROVE Keeps(p[j], Ahead(p, j), 0)
    <3>1. j \in 1 .. Len(q) BY <2>1
    <3>2. Keeps(q[j], Ahead(q, j), elapsed) BY <3>1 DEF Fine
    <3>3. /\ q[j].age \in Nat /\ q[j].msgs \in Nat /\ Interval[q[j].h] \in Nat
          /\ Ahead(q, j) \in Nat
      BY <1>1, <3>1, EntryIs
    <3>4. Min({q[j].msgs + 1, Interval[q[j].h]})
            = IF q[j].msgs + 1 <= Interval[q[j].h] THEN q[j].msgs + 1 ELSE Interval[q[j].h]
      <4>1. q[j].msgs + 1 \in Int /\ Interval[q[j].h] \in Int BY <3>3
      <4> QED BY ONLY <4>1, MinMax
    <3>5. /\ p[j].h = q[j].h /\ p[j].age = q[j].age
          /\ p[j].msgs = IF q[j].msgs + 1 <= Interval[q[j].h] THEN q[j].msgs + 1
                         ELSE Interval[q[j].h]
          /\ Ahead(p, j) = Ahead(q, j) - d
      BY <2>1, <3>1, <3>4
    <3>6. /\ Ahead(q, j) <= Interval[q[j].h]
          /\ q[j].age <= Interval[q[j].h] /\ q[j].msgs <= Interval[q[j].h]
          /\ \/ q[j].age + q[j].msgs >= Interval[q[j].h]
             \/ q[j].age + q[j].msgs >= Interval[q[j].h] - Ahead(q, j) + elapsed
      BY <3>2 DEF Keeps
    <3>7. /\ Ahead(p, j) <= Interval[q[j].h] /\ p[j].msgs <= Interval[q[j].h]
          /\ \/ q[j].age + p[j].msgs >= Interval[q[j].h]
             \/ q[j].age + p[j].msgs >= Interval[q[j].h] - Ahead(p, j) + 0
      <4> DEFINE i  == Interval[q[j].h]
                 a  == q[j].age
                 m  == q[j].msgs
                 m1 == p[j].msgs
                 l  == Ahead(q, j)
                 l1 == Ahead(p, j)
      <4>1. /\ i \in Nat /\ a \in Nat /\ m \in Nat /\ l \in Nat /\ l <= i /\ m <= i
            /\ a + m >= i \/ a + m >= i - l + elapsed
            /\ m1 = IF m + 1 <= i THEN m + 1 ELSE i
            /\ l1 = l - d /\ d <= elapsed + 1
        BY <2>1, <3>3, <3>5, <3>6
      <4> HIDE DEF i, a, m, l, l1, m1
      <4>2. /\ l1 <= i /\ m1 <= i
            /\ a + m1 >= i \/ a + m1 >= i - l1 + 0
        BY ONLY <4>1, d \in Nat, elapsed \in Nat
      <4> QED BY <4>2 DEF i, a, m, l, l1, m1
    <3> QED BY <3>5, <3>6, <3>7 DEF Keeps
  <2> QED BY <2>1, <2>2 DEF Fine
<1> QED BY <1>2, <1>3

LEMMA FineAged ==
  ASSUME NEW q, NEW e \in Nat, Fine(q, e), NEW f \in Nat, f <= e + 1,
         NEW p, p = Aged(q)
  PROVE  Fine(p, f) /\ Len(p) = Len(q)
<1>1. q \in Seq(Rec) /\ Len(q) \in Nat BY DEF Fine
<1>2. /\ p \in Seq(Rec) /\ Len(p) = Len(q)
      /\ \A i \in 1 .. Len(q) :
           /\ p[i].h = q[i].h /\ p[i].time = q[i].time /\ p[i].msgs = q[i].msgs
           /\ p[i].age = Min({q[i].age + 1, Interval[q[i].h]})
           /\ Ahead(p, i) = Ahead(q, i)
  BY <1>1, AgedIs
<1>3. ASSUME NEW j \in 1 .. Len(p) PROVE Keeps(p[j], Ahead(p, j), f)
  <2>1. j \in 1 .. Len(q) BY <1>2
  <2>2. Keeps(q[j], Ahead(q, j), e) BY <2>1 DEF Fine
  <2>3. /\ q[j].age \in Nat /\ q[j].msgs \in Nat /\ Interval[q[j].h] \in Nat
        /\ Ahead(q, j) \in Nat
    BY <1>1, <2>1, EntryIs
  <2>4. Min({q[j].age + 1, Interval[q[j].h]})
          = IF q[j].age + 1 <= Interval[q[j].h] THEN q[j].age + 1 ELSE Interval[q[j].h]
    <3>1. q[j].age + 1 \in Int /\ Interval[q[j].h] \in Int BY <2>3
    <3> QED BY ONLY <3>1, MinMax
  <2>5. /\ p[j].h = q[j].h /\ p[j].msgs = q[j].msgs
        /\ p[j].age = IF q[j].age + 1 <= Interval[q[j].h] THEN q[j].age + 1
                      ELSE Interval[q[j].h]
        /\ Ahead(p, j) = Ahead(q, j)
    BY <1>2, <2>1, <2>4
  <2>6. /\ Ahead(q, j) <= Interval[q[j].h]
        /\ q[j].age <= Interval[q[j].h] /\ q[j].msgs <= Interval[q[j].h]
        /\ \/ q[j].age + q[j].msgs >= Interval[q[j].h]
           \/ q[j].age + q[j].msgs >= Interval[q[j].h] - Ahead(q, j) + e
    BY <2>2 DEF Keeps
  <2>7. /\ p[j].age <= Interval[q[j].h]
        /\ \/ p[j].age + q[j].msgs >= Interval[q[j].h]
           \/ p[j].age + q[j].msgs >= Interval[q[j].h] - Ahead(q, j) + f
    <3> DEFINE i  == Interval[q[j].h]
               a  == q[j].age
               a1 == p[j].age
               m  == q[j].msgs
               l  == Ahead(q, j)
    <3>1. /\ i \in Nat /\ a \in Nat /\ m \in Nat /\ l \in Nat
          /\ a + m >= i \/ a + m >= i - l + e
          /\ a1 = IF a + 1 <= i THEN a + 1 ELSE i
      BY <2>3, <2>5, <2>6
    <3> HIDE DEF i, a, m, l, a1
    <3>2. /\ a1 <= i
          /\ a1 + m >= i \/ a1 + m >= i - l + f
      BY ONLY <3>1, e \in Nat, f \in Nat, f <= e + 1
    <3> QED BY <3>2 DEF i, a, m, l, a1
  <2> QED BY <2>5, <2>6, <2>7 DEF Keeps
<1> QED BY <1>2, <1>3 DEF Fine
-----------------------------------------------------------------------------
(* The inductive invariant. *)

Shape ==
  /\ Len(next_timeout) <= PoolSize
  /\ tcpip_tcp_timer_active \in BOOLEAN /\ pcbs \in BOOLEAN
  /\ mbox \in 0 .. MaxMsgs
  /\ thread \in {"init", "again", "blocked", "message", "handler"}
  /\ running \in Handler \cup {NoHandler}
  /\ (running # NoHandler) = (thread = "handler")
  /\ elapsed \in 0 .. Longest /\ exhausted \in BOOLEAN

\* Time is only measured while the thread is blocked, for an entry that is not due.
Waits ==
  /\ thread # "blocked" => elapsed = 0
  /\ thread = "blocked" /\ next_timeout # <<>> => next_timeout[1].time > 0

\* The entry of the callback that runs is free.
Room == thread = "handler" => Len(next_timeout) < PoolSize

Starting ==
  thread = "init" =>
    /\ Len(next_timeout) <= Len(Cyclic)
    /\ \A j \in DOMAIN Cyclic :
         IF j <= Len(next_timeout) THEN Once(next_timeout, Cyclic[j])
         ELSE Never(next_timeout, Cyclic[j])
    /\ Never(next_timeout, Tcp)
    /\ ~tcpip_tcp_timer_active /\ ~pcbs /\ ~exhausted

Started ==
  thread # "init" =>
    \A h \in ToSet(Cyclic) :
      IF Runs(h) THEN Never(next_timeout, h) ELSE Once(next_timeout, h)

TcpOnce ==
  /\ Never(next_timeout, Tcp) \/ Once(next_timeout, Tcp)
  /\ Runs(Tcp) => Never(next_timeout, Tcp)
  /\ Runs(Tcp) \/ Once(next_timeout, Tcp) => tcpip_tcp_timer_active
  /\ tcpip_tcp_timer_active => Runs(Tcp) \/ Once(next_timeout, Tcp) \/ exhausted
  /\ pcbs => tcpip_tcp_timer_active

IInv ==
  /\ Shape /\ Fine(next_timeout, elapsed) /\ Waits /\ Room
  /\ Starting /\ Started /\ TcpOnce

\* g is pending as before.
As(q, p, g) == (Never(p, g) <=> Never(q, g)) /\ (Once(p, g) <=> Once(q, g))

\* A timeout is set, or the pool is empty.
LEMMA TimeoutIs ==
  ASSUME NEW h \in Handler, Fine(next_timeout, 0), exhausted \in BOOLEAN,
         Len(next_timeout) <= PoolSize, sys_timeout(h)
  PROVE  /\ Fine(next_timeout', 0) /\ Len(next_timeout') <= PoolSize
         /\ exhausted' \in BOOLEAN
         /\ \A g : g # h => As(next_timeout, next_timeout', g)
         /\ \/ /\ Len(next_timeout) < PoolSize /\ exhausted' = exhausted
               /\ Len(next_timeout') = Len(next_timeout) + 1
               /\ \E k : Inserted(next_timeout, h, Interval[h], k, next_timeout')
               /\ Never(next_timeout, h) <=> Once(next_timeout', h)
               /\ ~Never(next_timeout', h)
            \/ Len(next_timeout) >= PoolSize /\ exhausted' = TRUE /\ next_timeout' = next_timeout
<1>1. next_timeout \in Seq(Rec) /\ Len(next_timeout) \in Nat /\ PoolSize \in Nat
      /\ Interval[h] \in Nat
  BY PoolAssumption, IntervalAssumption DEF Fine
<1>2. CASE Len(next_timeout) < PoolSize
  <2>1. next_timeout' = Insert(next_timeout, h, Interval[h]) /\ exhausted' = exhausted
    BY <1>1, <1>2 DEF sys_timeout
  <2>2. PICK k : Inserted(next_timeout, h, Interval[h], k, next_timeout')
    BY <1>1, <2>1, InsertIs
  <2>3. Fine(next_timeout', 0) BY <2>1, FineInsert
  <2>4. next_timeout' \in Seq(Rec) /\ Len(next_timeout') = Len(next_timeout) + 1
    BY <2>2 DEF Inserted
  <2>5. next_timeout'[k + 1].h = h BY <2>2 DEF Inserted, Alike, Entry
  <2>6. More(next_timeout, next_timeout', k + 1)
    <3>1. k + 1 \in 1 .. Len(next_timeout') /\ (k + 1) - 1 = k BY <1>1, <2>2 DEF Inserted
    <3>2. /\ \A i \in 1 .. k : next_timeout'[i].h = next_timeout[i].h
          /\ \A i \in k + 1 .. Len(next_timeout) : next_timeout'[i + 1].h = next_timeout[i].h
      BY <2>2 DEF Inserted, Alike
    <3> QED BY <3>1, <3>2 DEF More
  <2>7. /\ \A g : g # h => As(next_timeout, next_timeout', g)
        /\ Never(next_timeout, h) <=> Once(next_timeout', h)
        /\ ~Never(next_timeout', h)
    <3>1. PICK q, p, l : q = next_timeout /\ p = next_timeout' /\ l = k + 1 OBVIOUS
    <3>2. q \in Seq(Rec) /\ p \in Seq(Rec) /\ Len(p) = Len(q) + 1 /\ More(q, p, l) /\ p[l].h = h
      BY <1>1, <2>4, <2>5, <2>6, <3>1
    <3>3. /\ \A g : g # p[l].h => As(q, p, g)
          /\ Never(q, p[l].h) <=> Once(p, p[l].h)
          /\ ~Never(p, p[l].h)
      BY <3>2, MoreIs DEF As
    <3> QED BY <3>1, <3>2, <3>3
  <2> QED BY <1>1, <1>2, <2>1, <2>2, <2>3, <2>4, <2>7
<1>3. CASE ~(Len(next_timeout) < PoolSize)
  <2>1. Len(next_timeout) >= PoolSize BY <1>1, <1>3
  <2>2. next_timeout' = next_timeout /\ exhausted' = TRUE BY <1>3, <2>1 DEF sys_timeout
  <2> QED BY <2>1, <2>2 DEF As
<1> QED BY <1>2, <1>3

\* A timeout is taken back, or there is none.
LEMMA UntimeoutIs ==
  ASSUME NEW h, Fine(next_timeout, 0), sys_untimeout(h)
  PROVE  /\ Fine(next_timeout', 0) /\ Len(next_timeout') <= Len(next_timeout)
         /\ \A g : g # h => As(next_timeout, next_timeout', g)
<1>1. next_timeout \in Seq(Rec) /\ Len(next_timeout) \in Nat BY DEF Fine
<1>2. CASE UNCHANGED next_timeout BY <1>1, <1>2 DEF As
<1>3. ASSUME NEW k \in DOMAIN next_timeout, next_timeout[k].h = h,
             next_timeout' = Without(next_timeout, k)
      PROVE  /\ Fine(next_timeout', 0) /\ Len(next_timeout') <= Len(next_timeout)
             /\ \A g : g # h => As(next_timeout, next_timeout', g)
  <2>1. PICK q, p : q = next_timeout /\ p = next_timeout' OBVIOUS
  <2>2. q \in Seq(Rec) /\ Len(q) \in Nat /\ k \in 1 .. Len(q) /\ p = Without(q, k) /\ q[k].h = h
        /\ Fine(q, 0)
    BY <1>1, <1>3, <2>1
  <2>3. /\ p \in Seq(Rec) /\ Len(p) = Len(q) - 1
        /\ \A i \in 1 .. k - 1 : Alike(p[i], q[i])
        /\ \A i \in k .. Len(q) - 1 : Alike(p[i], q[i + 1])
    BY <2>2, WithoutIs
  <2>4. More(p, q, k) BY <2>2, <2>3 DEF More, Alike
  <2>5. \A g : g # q[k].h => As(p, q, g)
    <3>1. Len(q) = Len(p) + 1 BY <2>2, <2>3
    <3> QED BY <2>2, <2>3, <2>4, <3>1, MoreIs DEF As
  <2>6. Fine(p, 0) BY <2>2, FineWithout
  <2>7. \A g : g # h => As(q, p, g) BY <2>2, <2>5 DEF As
  <2>8. Len(p) <= Len(q) BY <2>2, <2>3
  <2> QED BY <2>1, <2>6, <2>7, <2>8
<1> QED BY <1>2, <1>3 DEF sys_untimeout

\* The callbacks are of three kinds.
LEMMA Kinds ==
  /\ ToSet(Cyclic) \subseteq Handler /\ App \subseteq Handler /\ Tcp \in Handler
  /\ NoHandler \notin Handler /\ Tcp \notin ToSet(Cyclic) /\ Tcp \notin App
  /\ \A h \in App : h \notin ToSet(Cyclic)
  /\ Len(Cyclic) \in Nat /\ DOMAIN Cyclic = 1 .. Len(Cyclic)
  /\ \A j \in DOMAIN Cyclic : Cyclic[j] \in ToSet(Cyclic)
  /\ \A h \in ToSet(Cyclic) : \E j \in DOMAIN Cyclic : h = Cyclic[j]
  /\ \A i, j \in DOMAIN Cyclic : Cyclic[i] = Cyclic[j] => i = j
<1>1. Cyclic \in Seq(Handler) BY HandlerAssumption
<1>2. Len(Cyclic) \in Nat /\ DOMAIN Cyclic = 1 .. Len(Cyclic) BY <1>1
<1> QED BY <1>2, HandlerAssumption DEF Handler, ToSet

LEMMA InitInv == Init => IInv
<1> SUFFICES ASSUME Init PROVE IInv OBVIOUS
<1> USE DEF Init
<1>1. next_timeout \in Seq(Rec) /\ Len(next_timeout) = 0 /\ DOMAIN next_timeout = {} OBVIOUS
<1>2. Fine(next_timeout, elapsed)
  <2>1. \A i \in 1 .. 0 : FALSE OBVIOUS
  <2> QED BY <1>1, <2>1 DEF Fine
<1>3. Shape
  <2>1. 0 <= PoolSize /\ 0 \in 0 .. MaxMsgs /\ 0 \in 0 .. Longest
    BY PoolAssumption, IntervalAssumption
  <2> QED BY <1>1, <2>1 DEF Shape
<1>4. Waits /\ Room BY DEF Waits, Room
<1>5. \A h : Never(next_timeout, h) /\ ~Once(next_timeout, h) BY <1>1 DEF Never, Once
<1>6. Starting /\ Started /\ TcpOnce
  <2>1. \A j \in DOMAIN Cyclic : ~(j <= Len(next_timeout)) BY <1>1, Kinds
  <2>2. Len(next_timeout) <= Len(Cyclic) BY <1>1, Kinds
  <2> QED BY <1>5, <2>1, <2>2 DEF Starting, Started, TcpOnce, Runs
<1> QED BY <1>2, <1>3, <1>4, <1>6 DEF IInv
-----------------------------------------------------------------------------
(* The steps. *)

\* Steps that set no timeout of lwIP's own and end none.
LEMMA NamesStay ==
  ASSUME Started, TcpOnce, thread # "init", thread' # "init",
         \A g \in ToSet(Cyclic) \cup {Tcp} :
           As(next_timeout, next_timeout', g) /\ (Runs(g)' <=> Runs(g)),
         tcpip_tcp_timer_active' = tcpip_tcp_timer_active, exhausted' = exhausted,
         pcbs' => pcbs
  PROVE  Starting' /\ Started' /\ TcpOnce'
<1>1. Starting' BY DEF Starting
<1>2. Started' BY DEF Started, As
<1>3. TcpOnce' BY DEF TcpOnce, As
<1> QED BY <1>1, <1>2, <1>3

LEMMA PostInv == ASSUME IInv, Post PROVE IInv'
<1> USE DEF IInv, Post
<1>1. Shape' BY PoolAssumption DEF Shape
<1>2. Fine(next_timeout, elapsed)' OBVIOUS
<1>3. Waits' /\ Room' BY DEF Waits, Room
<1>4. Starting' /\ Started' /\ TcpOnce'
  BY NamesStay DEF As, Runs
<1> QED BY <1>1, <1>2, <1>3, <1>4

LEMMA TickInv == ASSUME IInv, Tick PROVE IInv'
<1> USE DEF IInv, Tick
<1>1. /\ next_timeout \in Seq(Rec) /\ next_timeout' = Aged(next_timeout)
      /\ elapsed \in Nat /\ Longest \in Nat /\ elapsed <= Longest
  BY IntervalAssumption DEF Fine, Shape, Aged
<1>2. /\ next_timeout' \in Seq(Rec) /\ Len(next_timeout') = Len(next_timeout)
      /\ \A i \in 1 .. Len(next_timeout) :
           next_timeout'[i].h = next_timeout[i].h /\ next_timeout'[i].time = next_timeout[i].time
  <2>1. PICK q, p : q = next_timeout /\ p = next_timeout' OBVIOUS
  <2>2. q \in Seq(Rec) /\ p = Aged(q) BY <1>1, <2>1
  <2>3. /\ p \in Seq(Rec) /\ Len(p) = Len(q)
        /\ \A i \in 1 .. Len(q) : p[i].h = q[i].h /\ p[i].time = q[i].time
    BY ONLY <2>2, AgedIs
  <2> QED BY <2>1, <2>3
<1>3. elapsed' \in 0 .. Longest /\ elapsed' <= elapsed + 1 /\ (thread # "blocked" => elapsed' = elapsed)
  <2>1. elapsed + 1 \in Int /\ Longest \in Int BY <1>1
  <2>2. Min({elapsed + 1, Longest}) = IF elapsed + 1 <= Longest THEN elapsed + 1 ELSE Longest
    BY ONLY <2>1, MinMax
  <2> QED BY <1>1, <2>2
<1>4. Fine(next_timeout', elapsed')
  <2>1. PICK q, p, e, f : q = next_timeout /\ p = next_timeout' /\ e = elapsed /\ f = elapsed' OBVIOUS
  <2>2. Fine(q, e) /\ e \in Nat /\ f \in Nat /\ f <= e + 1 /\ p = Aged(q)
    BY <1>1, <1>3, <2>1
  <2>3. Fine(p, f) BY ONLY <2>2, FineAged
  <2> QED BY <2>1, <2>3
<1>5. Shape' BY <1>2, <1>3 DEF Shape
<1>6. Waits' /\ Room'
  <2>1. next_timeout' # <<>> => next_timeout # <<>> /\ 1 \in 1 .. Len(next_timeout) BY <1>1, <1>2
  <2>2. next_timeout' # <<>> => next_timeout'[1].time = next_timeout[1].time BY <1>2, <2>1
  <2> QED BY <1>2, <1>3, <2>1, <2>2 DEF Waits, Room
<1>7. \A g : As(next_timeout, next_timeout', g)
  <2>1. PICK q, p : q = next_timeout /\ p = next_timeout' OBVIOUS
  <2>2. q \in Seq(Rec) /\ p \in Seq(Rec) /\ Len(p) = Len(q)
        /\ \A i \in 1 .. Len(q) : p[i].h = q[i].h
    BY <1>1, <1>2, <2>1
  <2>3. \A g : As(q, p, g) BY ONLY <2>2, SameNames DEF As
  <2> QED BY <2>1, <2>3
<1>8. Starting' /\ Started' /\ TcpOnce'
  <2>1. CASE thread = "init"
    <3>1. Starting' BY <1>2, <1>7, <2>1 DEF Starting, As
    <3>2. Started' /\ TcpOnce' BY <1>7, <2>1 DEF Started, TcpOnce, As, Runs
    <3> QED BY <3>1, <3>2
  <2>2. CASE thread # "init"
    BY <1>7, <2>2, NamesStay DEF Runs
  <2> QED BY <2>1, <2>2
<1> QED BY <1>4, <1>5, <1>6, <1>8

LEMMA BlockInv == ASSUME IInv, Block PROVE IInv'
<1> USE DEF IInv, Block
<1>1. elapsed = 0 BY DEF Waits
<1>2. Shape' BY <1>1 DEF Shape
<1>3. Fine(next_timeout, elapsed)' BY <1>1
<1>4. Waits' /\ Room'
  <2>1. next_timeout # <<>> => Head(next_timeout) = next_timeout[1] BY DEF Fine
  <2> QED BY <2>1 DEF Waits, Room
<1>5. Starting' /\ Started' /\ TcpOnce'
  <2>1. running = NoHandler BY DEF Shape
  <2>2. thread # "init" /\ thread' # "init" /\ thread # "handler" /\ thread' # "handler" OBVIOUS
  <2> QED BY <2>2, NamesStay DEF As, Runs
<1> QED BY <1>2, <1>3, <1>4, <1>5

LEMMA ReceiveInv == ASSUME IInv, Receive PROVE IInv'
<1> USE DEF IInv, Receive
<1>1. next_timeout \in Seq(Rec) /\ elapsed \in Nat
  BY IntervalAssumption DEF Fine, Shape
<1>2. Fine(next_timeout', 0) /\ Len(next_timeout') = Len(next_timeout)
  BY <1>1, FineReceived
<1>3. Shape' BY <1>2, IntervalAssumption, PoolAssumption DEF Shape
<1>4. Waits' /\ Room' BY DEF Waits, Room
<1>5. \A g : As(next_timeout, next_timeout', g)
  <2>1. CASE next_timeout = <<>> BY <2>1 DEF Received, As
  <2>2. CASE next_timeout # <<>>
    <3>1. \A i \in 1 .. Len(next_timeout) : next_timeout'[i].h = next_timeout[i].h
      BY <1>1, <2>2, ReceivedIs
    <3>2. PICK q, p : q = next_timeout /\ p = next_timeout' OBVIOUS
    <3>3. q \in Seq(Rec) /\ p \in Seq(Rec) /\ Len(p) = Len(q)
          /\ \A i \in 1 .. Len(q) : p[i].h = q[i].h
      BY <1>1, <1>2, <3>1, <3>2 DEF Fine
    <3>4. \A g : As(q, p, g) BY ONLY <3>3, SameNames DEF As
    <3> QED BY <3>2, <3>4
  <2> QED BY <2>1, <2>2
<1>6. Starting' /\ Started' /\ TcpOnce'
  <2>1. thread # "init" /\ thread' # "init" /\ thread # "handler" /\ thread' # "handler" OBVIOUS
  <2> QED BY <1>5, <2>1, NamesStay DEF Runs
<1> QED BY <1>2, <1>3, <1>4, <1>6

\* The time of the first entry has gone.
LEMMA DueIs ==
  ASSUME IInv, TimedOut
  PROVE  next_timeout \in Seq(Rec) /\ elapsed \in Nat /\ next_timeout # <<>>
         /\ Head(next_timeout) = next_timeout[1] /\ elapsed >= next_timeout[1].time
         /\ thread # "init" /\ thread # "handler"
<1>1. next_timeout \in Seq(Rec) /\ elapsed \in Nat BY IntervalAssumption DEF IInv, Fine, Shape
<1>2. next_timeout # <<>> /\ Head(next_timeout) = next_timeout[1] BY <1>1 DEF TimedOut
<1> QED BY <1>1, <1>2 DEF TimedOut, IInv, Waits

LEMMA ExpireInv == ASSUME IInv, Expire PROVE IInv'
<1> USE DEF IInv
<1>1. /\ next_timeout \in Seq(Rec) /\ elapsed \in Nat /\ next_timeout # <<>>
      /\ Head(next_timeout) = next_timeout[1] /\ elapsed >= next_timeout[1].time
      /\ thread # "init" /\ thread # "handler"
  BY DueIs DEF Expire
<1>2. /\ running' = next_timeout[1].h /\ next_timeout' = Tail(next_timeout)
      /\ thread' = "handler" /\ elapsed' = 0
      /\ UNCHANGED <<tcpip_tcp_timer_active, pcbs, mbox, exhausted>>
  BY <1>1 DEF Expire
<1>3. Fine(next_timeout', 0) BY <1>1, <1>2, FineTail
<1>4. /\ next_timeout' \in Seq(Rec) /\ Len(next_timeout') = Len(next_timeout) - 1
      /\ \A i \in 1 .. Len(next_timeout') : next_timeout'[i] = next_timeout[i + 1]
      /\ Len(next_timeout) \in Nat /\ 1 \in 1 .. Len(next_timeout)
  BY <1>1, <1>2, TailIs
<1>5. next_timeout[1].h \in Handler BY <1>1, <1>4, EntryIs
<1>6. Shape' /\ Room' /\ Waits'
  BY <1>1, <1>2, <1>4, <1>5, Kinds, IntervalAssumption, PoolAssumption DEF Shape, Room, Waits
<1>7. /\ \A g : g # running' => As(next_timeout, next_timeout', g)
      /\ Once(next_timeout, running') <=> Never(next_timeout', running')
      /\ ~Never(next_timeout, running')
  <2>1. PICK q, p, h : q = next_timeout /\ p = next_timeout' /\ h = running' OBVIOUS
  <2>2. q \in Seq(Rec) /\ p \in Seq(Rec) /\ Len(q) = Len(p) + 1 /\ q[1].h = h
    BY <1>1, <1>2, <1>4, <2>1
  <2>3. More(p, q, 1)
    <3>1. 1 \in 1 .. Len(q) /\ \A i \in 1 .. Len(p) : q[i + 1].h = p[i].h BY <1>4, <2>1
    <3> QED BY <3>1 DEF More
  <2>4. /\ \A g : g # h => As(q, p, g)
        /\ Once(q, h) <=> Never(p, h)
        /\ ~Never(q, h)
    BY ONLY <2>2, <2>3, MoreIs DEF As
  <2> QED BY <2>1, <2>4
<1>8. Starting' /\ Started' /\ TcpOnce'
  <2>1. ~Runs(Tcp) /\ \A h \in ToSet(Cyclic) : ~Runs(h) BY <1>1 DEF Runs
  <2>2. Starting' BY <1>2 DEF Starting
  <2>3. ASSUME NEW h \in ToSet(Cyclic)
        PROVE  IF Runs(h)' THEN Never(next_timeout', h) ELSE Once(next_timeout', h)
    <3>1. Once(next_timeout, h) BY <1>1, <2>1 DEF Started
    <3> QED BY <1>2, <1>7, <3>1 DEF Runs, As
  <2>4. Started' BY <2>3 DEF Started
  <2>5. TcpOnce'
    <3>1. CASE running' = Tcp
      <4>1. Once(next_timeout, Tcp) BY <1>7, <3>1 DEF TcpOnce
      <4> QED BY <1>2, <1>7, <3>1, <4>1 DEF TcpOnce, Runs
    <3>2. CASE running' # Tcp
      BY <1>2, <1>7, <2>1, <3>2 DEF TcpOnce, Runs, As
    <3> QED BY <3>1, <3>2
  <2> QED BY <2>2, <2>4, <2>5
<1> QED BY <1>2, <1>3, <1>6, <1>8
LEMMA CyclicTimerInv ==
  ASSUME IInv, NEW h \in ToSet(Cyclic), CyclicTimer(h) PROVE IInv'
<1> USE DEF IInv
<1>1. thread = "handler" /\ running = h /\ thread' = "again" /\ running' = NoHandler
      /\ elapsed = 0 /\ elapsed' = 0 /\ sys_timeout(h)
      /\ UNCHANGED <<tcpip_tcp_timer_active, pcbs, mbox>>
  BY DEF CyclicTimer, Runs, Again, Waits
<1>2. h \in Handler /\ h # Tcp /\ exhausted \in BOOLEAN BY Kinds DEF Shape
<1>3. Fine(next_timeout, 0) /\ Len(next_timeout) < PoolSize /\ Len(next_timeout) <= PoolSize
      /\ ~(Len(next_timeout) >= PoolSize)
  <2>1. Len(next_timeout) \in Nat BY DEF Fine
  <2> QED BY <1>1, <2>1, PoolAssumption DEF Room
<1>4. /\ Fine(next_timeout', 0) /\ Len(next_timeout') <= PoolSize /\ exhausted' = exhausted
      /\ \A g : g # h => As(next_timeout, next_timeout', g)
      /\ Never(next_timeout, h) <=> Once(next_timeout', h)
  BY <1>1, <1>2, <1>3, TimeoutIs
<1>5. Shape' BY <1>1, <1>4 DEF Shape
<1>6. Waits' /\ Room' BY <1>1 DEF Waits, Room
<1>7. Starting' BY <1>1 DEF Starting
<1>8. Started'
  <2>1. ASSUME NEW g \in ToSet(Cyclic) PROVE Once(next_timeout', g)
    <3>1. CASE g = h
      <4>1. Never(next_timeout, h) BY <1>1 DEF Started, Runs
      <4> QED BY <1>4, <3>1, <4>1
    <3>2. CASE g # h
      <4>1. Once(next_timeout, g) BY <1>1, <3>2 DEF Started, Runs
      <4> QED BY <1>4, <3>2, <4>1 DEF As
    <3> QED BY <3>1, <3>2
  <2> QED BY <1>1, <2>1 DEF Started, Runs
<1>9. TcpOnce' BY <1>1, <1>2, <1>4 DEF TcpOnce, Runs, As
<1> QED BY <1>1, <1>4, <1>5, <1>6, <1>7, <1>8, <1>9

LEMMA AppTimerInv == ASSUME IInv, NEW h \in App, AppTimer(h) PROVE IInv'
<1> USE DEF IInv
<1>1. thread = "handler" /\ running = h /\ thread' = "again" /\ running' = NoHandler
      /\ elapsed = 0 /\ elapsed' = 0 /\ h # Tcp /\ h \notin ToSet(Cyclic)
      /\ UNCHANGED <<next_timeout, tcpip_tcp_timer_active, pcbs, mbox, exhausted>>
  BY Kinds DEF AppTimer, Runs, Again, Waits
<1>2. Shape' /\ Fine(next_timeout, elapsed)' /\ Waits' /\ Room'
  BY <1>1 DEF Shape, Waits, Room
<1>3. Starting' /\ Started' /\ TcpOnce'
  <2>1. \A g \in ToSet(Cyclic) \cup {Tcp} : Runs(g)' <=> Runs(g) BY <1>1 DEF Runs
  <2> QED BY <1>1, <2>1, NamesStay DEF As
<1> QED BY <1>2, <1>3

LEMMA TcpTimerInv == ASSUME IInv, TcpTimerStops \/ TcpTimerRestarts PROVE IInv'
<1> USE DEF IInv
<1>1. thread = "handler" /\ running = Tcp /\ thread' = "again" /\ running' = NoHandler
      /\ elapsed = 0 /\ elapsed' = 0 /\ UNCHANGED mbox
      /\ Never(next_timeout, Tcp) /\ tcpip_tcp_timer_active = TRUE
  BY DEF TcpTimerStops, TcpTimerRestarts, Runs, Again, Waits, TcpOnce, Shape
<1>2. \A g \in ToSet(Cyclic) : g # Tcp BY Kinds
<1>3. \A g \in ToSet(Cyclic) : Once(next_timeout, g) BY <1>1, <1>2 DEF Started, Runs
<1>4. Waits' /\ Room' /\ Starting' BY <1>1 DEF Waits, Room, Starting
<1>5. CASE TcpTimerStops
  <2>1. ~pcbs' /\ pcbs' \in BOOLEAN /\ tcpip_tcp_timer_active' = FALSE
        /\ next_timeout' = next_timeout /\ exhausted' = exhausted
    BY <1>5 DEF TcpTimerStops, TcpWork
  <2>2. Shape' BY <1>1, <2>1 DEF Shape
  <2>3. Started' BY <1>1, <1>3, <2>1 DEF Started, Runs
  <2>4. ~Once(next_timeout, Tcp) BY <1>1 DEF Never, Once
  <2>5. TcpOnce' BY <1>1, <2>1, <2>4 DEF TcpOnce, Runs
  <2> QED BY <1>1, <1>4, <2>1, <2>2, <2>3, <2>5
<1>6. CASE TcpTimerRestarts
  <2>1. pcbs' \in BOOLEAN /\ tcpip_tcp_timer_active' = tcpip_tcp_timer_active /\ sys_timeout(Tcp)
    BY <1>6 DEF TcpTimerRestarts, TcpWork, Shape
  <2>2. Fine(next_timeout, 0) /\ Len(next_timeout) < PoolSize /\ Len(next_timeout) <= PoolSize
        /\ ~(Len(next_timeout) >= PoolSize) /\ Tcp \in Handler /\ exhausted \in BOOLEAN
    <3>1. Len(next_timeout) \in Nat BY DEF Fine
    <3> QED BY <1>1, <3>1, PoolAssumption, Kinds DEF Room, Shape
  <2>3. /\ Fine(next_timeout', 0) /\ Len(next_timeout') <= PoolSize /\ exhausted' = exhausted
        /\ \A g : g # Tcp => As(next_timeout, next_timeout', g)
        /\ Once(next_timeout', Tcp)
    BY <1>1, <2>1, <2>2, TimeoutIs
  <2>4. Shape' BY <1>1, <2>1, <2>3 DEF Shape
  <2>5. Started' BY <1>1, <1>2, <1>3, <2>3 DEF Started, Runs, As
  <2>6. TcpOnce' BY <1>1, <2>1, <2>3 DEF TcpOnce, Runs
  <2> QED BY <1>1, <1>4, <2>3, <2>4, <2>5, <2>6
<1> QED BY <1>5, <1>6

\* What holds of every message.
LEMMA MessageIs ==
  ASSUME IInv, thread = "message", Again, UNCHANGED <<mbox, elapsed>>
  PROVE  /\ elapsed = 0 /\ elapsed' = 0 /\ Waits' /\ Room' /\ Starting'
         /\ Fine(next_timeout, 0) /\ Len(next_timeout) <= PoolSize /\ exhausted \in BOOLEAN
         /\ Len(next_timeout) \in Nat
         /\ \A g \in Handler : ~Runs(g) /\ ~Runs(g)'
<1> USE DEF IInv
<1>1. elapsed = 0 /\ thread' = "again" /\ running' = NoHandler BY DEF Waits, Again
<1>2. Waits' /\ Room' /\ Starting' BY <1>1 DEF Waits, Room, Starting
<1> QED BY <1>1, <1>2 DEF Shape, Fine, Runs

LEMMA MsgAppInv ==
  ASSUME IInv, NEW h \in App, MsgTimeout(h) \/ MsgUntimeout(h) PROVE IInv'
<1> USE DEF IInv
<1>1. thread = "message" /\ Again /\ UNCHANGED <<tcpip_tcp_timer_active, pcbs, mbox, elapsed>>
  BY DEF MsgTimeout, MsgUntimeout
<1>2. /\ elapsed = 0 /\ elapsed' = 0 /\ Waits' /\ Room' /\ Starting'
      /\ Fine(next_timeout, 0) /\ Len(next_timeout) <= PoolSize /\ exhausted \in BOOLEAN
      /\ Len(next_timeout) \in Nat
      /\ \A g \in Handler : ~Runs(g) /\ ~Runs(g)'
  BY <1>1, MessageIs
<1>3. h \in Handler /\ ToSet(Cyclic) \subseteq Handler /\ Tcp \in Handler
      /\ \A g \in ToSet(Cyclic) \cup {Tcp} : g # h
  BY Kinds
<1>4. /\ Fine(next_timeout', 0) /\ Len(next_timeout') <= PoolSize
      /\ exhausted' \in BOOLEAN /\ (exhausted => exhausted')
      /\ \A g : g # h => As(next_timeout, next_timeout', g)
  <2>1. CASE MsgTimeout(h)
    BY <1>2, <1>3, <2>1, TimeoutIs DEF MsgTimeout
  <2>2. CASE MsgUntimeout(h)
    <3>1. sys_untimeout(h) /\ exhausted' = exhausted BY <2>2 DEF MsgUntimeout
    <3>2. /\ Fine(next_timeout', 0) /\ Len(next_timeout') <= Len(next_timeout)
          /\ \A g : g # h => As(next_timeout, next_timeout', g)
      BY <1>2, <3>1, UntimeoutIs
    <3>3. Len(next_timeout') \in Nat BY <3>2 DEF Fine
    <3> QED BY <1>2, <3>1, <3>2, <3>3, PoolAssumption
  <2> QED BY <2>1, <2>2
<1>5. Shape' BY <1>1, <1>2, <1>4 DEF Shape, Again
<1>6. Started'
  BY <1>1, <1>2, <1>3, <1>4 DEF Started, As
<1>7. TcpOnce'
  BY <1>1, <1>2, <1>3, <1>4 DEF TcpOnce, As
<1> QED BY <1>2, <1>4, <1>5, <1>6, <1>7

LEMMA MsgTcpInv == ASSUME IInv, MsgTcpReg \/ MsgTcpRmv \/ MsgOther PROVE IInv'
<1> USE DEF IInv
<1>1. thread = "message" /\ Again /\ UNCHANGED <<mbox, elapsed>>
  BY DEF MsgTcpReg, MsgTcpRmv, MsgOther
<1>2. /\ elapsed = 0 /\ elapsed' = 0 /\ Waits' /\ Room' /\ Starting'
      /\ Fine(next_timeout, 0) /\ Len(next_timeout) <= PoolSize /\ exhausted \in BOOLEAN
      /\ Len(next_timeout) \in Nat
      /\ \A g \in Handler : ~Runs(g) /\ ~Runs(g)'
  BY <1>1, MessageIs
<1>3. ToSet(Cyclic) \subseteq Handler /\ Tcp \in Handler /\ Tcp \notin ToSet(Cyclic) BY Kinds
<1>4. CASE MsgTcpReg /\ ~tcpip_tcp_timer_active
  <2>1. pcbs' = TRUE /\ tcpip_tcp_timer_active' = TRUE /\ sys_timeout(Tcp)
    BY <1>4 DEF MsgTcpReg
  <2>2. Never(next_timeout, Tcp) BY <1>4 DEF TcpOnce
  <2>3. /\ Fine(next_timeout', 0) /\ Len(next_timeout') <= PoolSize /\ exhausted' \in BOOLEAN
        /\ \A g : g # Tcp => As(next_timeout, next_timeout', g)
        /\ \/ Once(next_timeout', Tcp)
           \/ next_timeout' = next_timeout /\ exhausted' = TRUE
    BY <1>2, <1>3, <2>1, <2>2, TimeoutIs
  <2>4. Shape' BY <1>1, <1>2, <2>1, <2>3 DEF Shape, Again
  <2>5. Started' BY <1>1, <1>2, <1>3, <2>3 DEF Started, As
  <2>6. TcpOnce' BY <1>2, <1>3, <2>1, <2>2, <2>3 DEF TcpOnce
  <2> QED BY <1>2, <2>3, <2>4, <2>5, <2>6
<1>5. CASE ~(MsgTcpReg /\ ~tcpip_tcp_timer_active)
  <2>1. UNCHANGED <<next_timeout, tcpip_tcp_timer_active, exhausted>> /\ pcbs' \in BOOLEAN
        /\ (pcbs' => tcpip_tcp_timer_active)
    BY <1>5 DEF MsgTcpReg, MsgTcpRmv, MsgOther, Shape, TcpOnce
  <2>2. Shape' BY <1>1, <1>2, <2>1 DEF Shape, Again
  <2>3. Started' BY <1>1, <1>2, <1>3, <2>1 DEF Started
  <2>4. TcpOnce' BY <1>2, <1>3, <2>1 DEF TcpOnce
  <2> QED BY <1>2, <2>1, <2>2, <2>3, <2>4
<1> QED BY <1>4, <1>5

LEMMA StartInv == ASSUME IInv, sys_timeouts_init PROVE IInv'
<1> USE DEF IInv
<1>1. /\ thread = "init" /\ elapsed = 0 /\ elapsed' = 0 /\ running' = running
      /\ UNCHANGED <<tcpip_tcp_timer_active, pcbs, mbox>>
      /\ Fine(next_timeout, 0) /\ Len(next_timeout) <= PoolSize /\ Len(next_timeout) \in Nat
      /\ exhausted = FALSE /\ exhausted \in BOOLEAN
  BY DEF sys_timeouts_init, Waits, Fine, Shape, Starting
<1>2. /\ Len(next_timeout) <= Len(Cyclic)
      /\ \A j \in DOMAIN Cyclic :
           IF j <= Len(next_timeout) THEN Once(next_timeout, Cyclic[j])
           ELSE Never(next_timeout, Cyclic[j])
      /\ Never(next_timeout, Tcp) /\ ~tcpip_tcp_timer_active /\ ~pcbs
  BY <1>1 DEF Starting
<1>3. ~Once(next_timeout, Tcp) BY <1>2 DEF Never, Once
<1>4. \A g : ~Runs(g) BY <1>1 DEF Runs
<1>5. CASE Len(next_timeout) < Len(Cyclic)
  <2> DEFINE n == Len(next_timeout) + 1
             h == Cyclic[n]
  <2>1. /\ n \in DOMAIN Cyclic /\ h \in ToSet(Cyclic) /\ h \in Handler /\ h # Tcp
        /\ \A j \in DOMAIN Cyclic : j # n => Cyclic[j] # h
        /\ DOMAIN Cyclic \subseteq Nat
    BY <1>1, <1>5, Kinds
  <2>2. sys_timeout(h) /\ thread' = "init" BY <1>1, <1>5 DEF sys_timeouts_init
  <2>3. ~(Len(next_timeout) >= PoolSize)
    BY <1>1, <1>5, PoolAssumption, Kinds
  <2>4. Never(next_timeout, h)
    <3>1. ~(n <= Len(next_timeout)) BY <1>1
    <3> QED BY <1>2, <2>1, <3>1
  <2> HIDE DEF h
  <2>5. /\ Fine(next_timeout', 0) /\ Len(next_timeout') <= PoolSize /\ exhausted' = exhausted
        /\ Len(next_timeout') = Len(next_timeout) + 1
        /\ \A g : g # h => As(next_timeout, next_timeout', g)
        /\ Once(next_timeout', h)
    BY <1>1, <2>1, <2>2, <2>3, <2>4, TimeoutIs
  <2>6. Shape' BY <1>1, <2>2, <2>5 DEF Shape
  <2>7. Waits' /\ Room' /\ Started' BY <1>1, <2>2 DEF Waits, Room, Started
  <2>8. Starting'
    <3>1. Len(next_timeout') <= Len(Cyclic) BY <1>1, <1>5, <2>5, Kinds
    <3>2. ASSUME NEW j \in DOMAIN Cyclic
          PROVE  IF j <= Len(next_timeout') THEN Once(next_timeout', Cyclic[j])
                 ELSE Never(next_timeout', Cyclic[j])
      <4>1. CASE j = n
        BY <1>1, <2>5, <4>1 DEF h
      <4>2. CASE j # n
        <5>1. j <= Len(next_timeout') <=> j <= Len(next_timeout) BY <1>1, <2>1, <2>5, <4>2
        <5>2. As(next_timeout, next_timeout', Cyclic[j]) BY <2>1, <2>5, <4>2
        <5> QED BY <1>2, <5>1, <5>2 DEF As
      <4> QED BY <4>1, <4>2
    <3>3. Never(next_timeout', Tcp) BY <1>2, <2>1, <2>5 DEF As
    <3> QED BY <1>1, <1>2, <2>5, <3>1, <3>2, <3>3 DEF Starting
  <2>9. TcpOnce'
    <3>1. As(next_timeout, next_timeout', Tcp) BY <2>1, <2>5
    <3> QED BY <1>1, <1>2, <1>3, <2>2, <3>1 DEF TcpOnce, As, Runs
  <2> QED BY <1>1, <2>5, <2>6, <2>7, <2>8, <2>9
<1>6. CASE ~(Len(next_timeout) < Len(Cyclic))
  <2>1. thread' = "again" /\ next_timeout' = next_timeout /\ exhausted' = exhausted
    BY <1>6 DEF sys_timeouts_init
  <2>2. \A h \in ToSet(Cyclic) : Once(next_timeout, h)
    <3>1. \A j \in DOMAIN Cyclic : j <= Len(next_timeout) BY <1>1, <1>6, Kinds
    <3> QED BY <1>2, <3>1, Kinds
  <2>3. Shape' BY <1>1, <2>1 DEF Shape
  <2>4. Waits' /\ Room' /\ Starting' BY <1>1, <2>1 DEF Waits, Room, Starting
  <2>5. Started' BY <2>1, <2>2 DEF Started, Runs
  <2>6. TcpOnce' BY <1>1, <1>2, <1>3, <2>1 DEF TcpOnce, Runs
  <2> QED BY <1>1, <2>1, <2>3, <2>4, <2>5, <2>6
<1> QED BY <1>5, <1>6
LEMMA NextInv == IInv /\ [Next]_vars => IInv'
<1> SUFFICES ASSUME IInv, [Next]_vars PROVE IInv' OBVIOUS
<1>1. CASE Post BY <1>1, PostInv
<1>2. CASE Tick BY <1>2, TickInv
<1>3. CASE sys_timeouts_init BY <1>3, StartInv
<1>4. CASE Thread
  <2>1. CASE Block BY <2>1, BlockInv
  <2>2. CASE Receive BY <2>2, ReceiveInv
  <2>3. CASE Expire BY <2>3, ExpireInv
  <2>4. CASE Callback
    BY <2>4, CyclicTimerInv, AppTimerInv, TcpTimerInv DEF Callback
  <2>5. CASE Message
    BY <2>5, MsgAppInv, MsgTcpInv DEF Message
  <2> QED BY <1>4, <2>1, <2>2, <2>3, <2>4, <2>5 DEF Thread
<1>5. CASE UNCHANGED vars
  BY <1>5 DEF vars, IInv, Shape, Waits, Room, Starting, Started, TcpOnce, Runs
<1> QED BY <1>1, <1>2, <1>3, <1>4, <1>5 DEF Next

THEOREM TimersInductive == Spec => []IInv
<1> QED BY InitInv, NextInv, PTL DEF Spec

LEMMA InvType == IInv => TypeOK
<1> SUFFICES ASSUME IInv PROVE TypeOK OBVIOUS
<1>1. next_timeout \in Seq([h : Handler, time : Nat, age : Nat, msgs : Nat])
      /\ next_timeout \in Seq(Rec) /\ DOMAIN next_timeout = 1 .. Len(next_timeout)
  BY DEF IInv, Fine, Rec
<1>2. ASSUME NEW i \in DOMAIN next_timeout
      PROVE  LET e == next_timeout[i] IN
             e.time \in Upto(e.h) /\ e.age \in Upto(e.h) /\ e.msgs \in Upto(e.h)
  <2>1. /\ next_timeout[i].age \in Nat /\ next_timeout[i].msgs \in Nat
        /\ next_timeout[i].time \in Nat /\ Interval[next_timeout[i].h] \in Nat
        /\ Ahead(next_timeout, i) \in Nat
        /\ next_timeout[i].time <= Ahead(next_timeout, i)
    BY <1>1, EntryIs
  <2>2. Keeps(next_timeout[i], Ahead(next_timeout, i), elapsed) BY <1>1 DEF IInv, Fine
  <2>3. /\ Ahead(next_timeout, i) <= Interval[next_timeout[i].h]
        /\ next_timeout[i].age <= Interval[next_timeout[i].h]
        /\ next_timeout[i].msgs <= Interval[next_timeout[i].h]
    BY <2>2 DEF Keeps
  <2> QED BY <2>1, <2>3 DEF Upto
<1> QED BY <1>1, <1>2 DEF TypeOK, IInv, Shape

\* TypeOK: no entry of next_timeout is due later than its callback is set for, and the
\* list never holds more than the pool (timers.c:118-159).
THEOREM TimersTypeCorrect == Spec => []TypeOK
<1> QED BY TimersInductive, InvType, PTL

LEMMA InvCyclic == IInv => CyclicAlive
<1> SUFFICES ASSUME IInv, thread # "init", NEW h \in ToSet(Cyclic)
             PROVE  Pending(h) + (IF Runs(h) THEN 1 ELSE 0) = 1
  BY DEF CyclicAlive
<1>1. IF Runs(h) THEN Never(next_timeout, h) ELSE Once(next_timeout, h)
  BY DEF IInv, Started
<1> QED BY <1>1, Counted

\* CyclicAlive, for any timers, intervals and pool that holds the cyclic ones: the entry
\* that is freed before the callback is still there when it sets itself again
\* (timers.c:444-459, 118-145).
THEOREM CyclicTimersNeverDie == Spec => []CyclicAlive
<1> QED BY TimersInductive, InvCyclic, PTL

LEMMA InvTcp == IInv => TcpTimerFlag
<1> SUFFICES ASSUME IInv PROVE TcpTimerFlag OBVIOUS
<1> DEFINE scheduled == Pending(Tcp) + (IF Runs(Tcp) THEN 1 ELSE 0)
<1>1. CASE Runs(Tcp)
  <2>1. scheduled = 1 BY <1>1, Counted DEF IInv, TcpOnce
  <2> HIDE DEF scheduled
  <2>2. scheduled <= 1 BY <2>1
  <2> QED BY <1>1, <2>1, <2>2 DEF IInv, TcpOnce, TcpTimerFlag, scheduled
<1>2. CASE ~Runs(Tcp) /\ Once(next_timeout, Tcp)
  <2>1. scheduled = 1 BY <1>2, Counted
  <2> HIDE DEF scheduled
  <2>2. scheduled <= 1 BY <2>1
  <2> QED BY <1>2, <2>1, <2>2 DEF IInv, TcpOnce, TcpTimerFlag, scheduled
<1>3. CASE ~Runs(Tcp) /\ ~Once(next_timeout, Tcp)
  <2>1. scheduled = 0 BY <1>3, Counted DEF IInv, TcpOnce
  <2> HIDE DEF scheduled
  <2>2. scheduled <= 1 /\ scheduled # 1 BY <2>1
  <2> QED BY <1>3, <2>1, <2>2 DEF IInv, TcpOnce, TcpTimerFlag, scheduled
<1> QED BY <1>1, <1>2, <1>3

\* TcpTimerFlag: tcpip_tcp_timer_active says whether the TCP timer is scheduled, at most
\* once, whatever the order of messages and callbacks (timers.c:69, 78-110).
THEOREM TcpFlagTells == Spec => []TcpTimerFlag
<1> QED BY TimersInductive, InvTcp, PTL

LEMMA StepEarly ==
  IInv /\ [Next]_vars =>
    [Expiring => LET e == Head(next_timeout) IN e.age + e.msgs >= Interval[e.h]]_vars
<1> SUFFICES ASSUME IInv, Next, Expiring
             PROVE  Head(next_timeout).age + Head(next_timeout).msgs
                      >= Interval[Head(next_timeout).h]
  OBVIOUS
<1>1. Expire
  BY DEF Next, Post, Tick, sys_timeouts_init, Thread, Block, Receive, Callback, CyclicTimer,
         AppTimer, TcpTimerStops, TcpTimerRestarts, Message, MsgTimeout, MsgUntimeout,
         MsgTcpReg, MsgTcpRmv, MsgOther, Again, Expiring
<1>2. /\ next_timeout \in Seq(Rec) /\ elapsed \in Nat /\ next_timeout # <<>>
      /\ Head(next_timeout) = next_timeout[1] /\ elapsed >= next_timeout[1].time
  BY <1>1, DueIs DEF Expire
<1>3. next_timeout[1].age + next_timeout[1].msgs >= Interval[next_timeout[1].h]
  BY <1>2, FineTail DEF IInv
<1> QED BY <1>2, <1>3

\* EarlyByMessages, for any intervals: what a timeout lacks in time is made up for by the
\* messages fetched since, one millisecond each (timers.c:466-474, sys_arch.c:253-257).
THEOREM EarlyOnlyByMessages == Spec => EarlyByMessages
<1> QED BY TimersInductive, StepEarly, PTL DEF Spec, EarlyByMessages
-----------------------------------------------------------------------------
(* The pool. *)

\* lwIP itself has at most the cyclic timers and the TCP timer in the list.
LEMMA OwnEntries ==
  ASSUME IInv, thread # "init"
  PROVE  Cardinality(DOMAIN next_timeout \ AppPending) <= Len(Cyclic) + 1
<1> DEFINE Own == DOMAIN next_timeout \ AppPending
           n == Len(Cyclic)
<1>1. /\ n \in Nat /\ DOMAIN Cyclic = 1 .. n
      /\ ToSet(Cyclic) = {Cyclic[j] : j \in 1 .. n}
  BY HandlerAssumption DEF ToSet
<1>2. /\ next_timeout \in Seq(Rec) /\ DOMAIN next_timeout = 1 .. Len(next_timeout)
      /\ Len(next_timeout) \in Nat
  BY DEF IInv, Fine
<1>3. \A i \in Own : next_timeout[i].h \in ToSet(Cyclic) \cup {Tcp}
  <2> SUFFICES ASSUME NEW i \in Own PROVE next_timeout[i].h \in ToSet(Cyclic) \cup {Tcp}
    OBVIOUS
  <2>1. next_timeout[i] \in Rec
    BY <1>2
  <2>2. next_timeout[i].h \in Handler
    BY <2>1 DEF Rec
  <2> QED
    BY <2>2 DEF AppPending, Handler
<1>4. ASSUME NEW i \in Own, NEW j \in Own, next_timeout[i].h = next_timeout[j].h
      PROVE  i = j
  <2>1. Once(next_timeout, next_timeout[i].h) \/ Never(next_timeout, next_timeout[i].h)
    BY <1>3 DEF IInv, Started, TcpOnce
  <2> QED
    BY <1>4, <2>1 DEF Once, Never
<1> DEFINE Nr(h) == IF h = Tcp THEN 0 ELSE CHOOSE j \in 1 .. n : Cyclic[j] = h
           f == [i \in Own |-> Nr(next_timeout[i].h)]
<1>5. \A h \in ToSet(Cyclic) : h # Tcp => Nr(h) \in 1 .. n /\ Cyclic[Nr(h)] = h
  BY <1>1
<1>6. Nr(Tcp) = 0
  OBVIOUS
<1>7. \A g, h \in ToSet(Cyclic) \cup {Tcp} : Nr(g) = Nr(h) => g = h
  <2> SUFFICES ASSUME NEW g \in ToSet(Cyclic) \cup {Tcp}, NEW h \in ToSet(Cyclic) \cup {Tcp},
                      Nr(g) = Nr(h)
               PROVE  g = h
    OBVIOUS
  <2> HIDE DEF Nr
  <2>1. CASE g # Tcp /\ h # Tcp
    BY <1>5, <2>1
  <2>2. CASE g = Tcp \/ h = Tcp
    BY <1>1, <1>5, <1>6, <2>2
  <2> QED
    BY <2>1, <2>2
<1> HIDE DEF Nr
<1>8. f \in [Own -> 0 .. n]
  <2>1. \A h \in ToSet(Cyclic) \cup {Tcp} : Nr(h) \in 0 .. n
    BY <1>1, <1>5, <1>6
  <2> QED
    BY <1>3, <2>1
<1>9. ~\E i, j \in Own : i # j /\ f[i] = f[j]
  BY <1>3, <1>4, <1>7
<1>10. IsFiniteSet(0 .. n) /\ Cardinality(0 .. n) = n + 1
  BY <1>1, FS_Interval
<1>11. IsFiniteSet(Own) /\ Cardinality(Own) \in Nat
  <2>1. PICK l \in Nat : l = Len(next_timeout)
    BY <1>2
  <2>2. IsFiniteSet(1 .. l)
    BY <2>1, FS_Interval
  <2>3. Own = (1 .. l) \ AppPending
    BY <1>2, <2>1
  <2>4. IsFiniteSet(Own)
    BY <2>2, <2>3, FS_Difference
  <2> HIDE DEF Own
  <2> QED
    BY <2>4, FS_CardinalityType
<1> HIDE DEF f, Own, n
<1>12. ~(n + 1 < Cardinality(Own))
  <2> SUFFICES ASSUME n + 1 < Cardinality(Own) PROVE FALSE
    OBVIOUS
  <2>1. Cardinality(0 .. n) < Cardinality(Own)
    BY <1>10
  <2> QED
    BY <1>8, <1>9, <1>10, <1>11, <2>1, FS_PigeonHole
<1> QED
  BY <1>1, <1>11, <1>12 DEF Own, n

\* A step that finds the pool empty finds it full of entries.
LEMMA PoolEmpty ==
  ASSUME IInv, Next, exhausted' # exhausted
  PROVE  thread # "init" /\ Len(next_timeout) >= PoolSize
<1>1. Len(next_timeout) \in Nat /\ PoolSize \in Nat /\ exhausted \in BOOLEAN
      /\ Len(Cyclic) \in Nat /\ Len(Cyclic) <= PoolSize
  BY HandlerAssumption, PoolAssumption DEF IInv, Fine, Shape
<1>2. ASSUME NEW h, sys_timeout(h) PROVE Len(next_timeout) >= PoolSize
  BY <1>1, <1>2 DEF sys_timeout
<1>3. CASE sys_timeouts_init
  <2>1. \E h : sys_timeout(h)
    BY <1>3 DEF sys_timeouts_init
  <2>2. Len(next_timeout) < Len(Cyclic)
    BY <1>3 DEF sys_timeouts_init
  <2> QED
    BY <1>1, <1>2, <2>1, <2>2
<1>4. CASE Callback
  BY <1>2, <1>4 DEF Callback, CyclicTimer, AppTimer, TcpTimerStops, TcpTimerRestarts, Runs
<1>5. CASE Message
  BY <1>2, <1>5 DEF Message, MsgTimeout, MsgUntimeout, MsgTcpReg, MsgTcpRmv, MsgOther
<1> QED
  BY <1>3, <1>4, <1>5 DEF Next, Post, Tick, Thread, Block, Receive, Expire

LEMMA StepPool ==
  ASSUME IInv, Next, exhausted' # exhausted
  PROVE  Cardinality(AppPending) >= PoolSize - (Len(Cyclic) + 1)
<1>1. thread # "init" /\ Len(next_timeout) >= PoolSize
  BY PoolEmpty
<1>2. Len(next_timeout) \in Nat /\ PoolSize \in Nat /\ Len(Cyclic) \in Nat
      /\ DOMAIN next_timeout = 1 .. Len(next_timeout)
  BY HandlerAssumption, PoolAssumption DEF IInv, Fine
<1>3. IsFiniteSet(DOMAIN next_timeout) /\ Cardinality(DOMAIN next_timeout) = Len(next_timeout)
  <2>1. PICK l \in Nat : l = Len(next_timeout)
    BY <1>2
  <2>2. IsFiniteSet(1 .. l) /\ Cardinality(1 .. l) = l
    BY FS_Interval
  <2> QED
    BY <1>2, <2>1, <2>2
<1>4. AppPending \in SUBSET (DOMAIN next_timeout)
  BY DEF AppPending
<1>5. DOMAIN next_timeout \cap AppPending = AppPending
  BY <1>4
<1>6. Cardinality(DOMAIN next_timeout \ AppPending)
        = Len(next_timeout) - Cardinality(AppPending)
  BY <1>3, <1>5, FS_Difference
<1>7. Cardinality(AppPending) \in Nat
  BY <1>3, <1>4, FS_Subset, FS_CardinalityType
<1>8. Len(next_timeout) - Cardinality(AppPending) <= Len(Cyclic) + 1
  BY <1>1, <1>6, OwnEntries
<1> QED
  BY <1>1, <1>2, <1>7, <1>8

\* PoolShared, for any timers, pool and applications: the check of init.c is enough, the
\* pool never runs empty on account of lwIP's own timers (init.c:107-110,
\* timers.c:270-274).
THEOREM PoolServesTimers == Spec => PoolShared
<1>1. IInv /\ [Next]_vars =>
        [exhausted' # exhausted =>
           Cardinality(AppPending) >= PoolSize - (Len(Cyclic) + 1)]_vars
  BY StepPool
<1> QED BY <1>1, TimersInductive, PTL DEF Spec, PoolShared

-----------------------------------------------------------------------------
(* The list keeps the deadlines. *)

Row == [h : Handler, left : Nat]

\* the pending timeouts, with the time each has left
Due(q) == [i \in DOMAIN q |-> [h |-> q[i].h, left |-> Ahead(q, i)]]

LEMMA DueIs2 ==
  ASSUME NEW q \in Seq(Rec)
  PROVE  /\ Due(q) \in Seq(Row) /\ Len(Due(q)) = Len(q) /\ Len(q) \in Nat
         /\ DOMAIN Due(q) = 1 .. Len(q)
         /\ \A i \in 1 .. Len(q) : Due(q)[i] = [h |-> q[i].h, left |-> Ahead(q, i)]
         /\ Due(q) = <<>> <=> q = <<>>
<1>1. DOMAIN q = 1 .. Len(q) /\ Len(q) \in Nat OBVIOUS
<1>2. \A i \in 1 .. Len(q) : [h |-> q[i].h, left |-> Ahead(q, i)] \in Row
  BY EntryIs DEF Row
<1>3. Due(q) = [i \in 1 .. Len(q) |-> [h |-> q[i].h, left |-> Ahead(q, i)]] BY <1>1 DEF Due
<1>4. Due(q) \in [1 .. Len(q) -> Row] BY <1>2, <1>3
<1>5. Due(q) \in Seq(Row) /\ Len(Due(q)) = Len(q) BY ONLY <1>1, <1>4
<1> QED BY <1>1, <1>3, <1>5

\* Lists of the same length with the same entries are the same.
LEMMA Equal ==
  ASSUME NEW S, NEW a \in Seq(S), NEW b \in Seq(S), Len(a) = Len(b),
         \A i \in 1 .. Len(a) : a[i] = b[i]
  PROVE  a = b
OBVIOUS

LEMMA DueInsert ==
  ASSUME NEW q \in Seq(Rec), NEW h \in Handler, NEW ms \in Nat
  PROVE  \E k \in 0 .. Len(Due(q)) :
           /\ \A i \in 1 .. k : Due(q)[i].left <= ms
           /\ \A i \in k + 1 .. Len(Due(q)) : Due(q)[i].left > ms
           /\ Due(Insert(q, h, ms)) = SubSeq(Due(q), 1, k) \o <<[h |-> h, left |-> ms]>>
                         \o SubSeq(Due(q), k + 1, Len(Due(q)))
<1>1. PICK k, p : k = Place(q, ms) /\ p = Insert(q, h, ms) OBVIOUS
<1>2. Inserted(q, h, ms, k, p) BY <1>1, InsertIs
<1>3. /\ k \in 0 .. Len(q) /\ Len(q) \in Nat
      /\ \A i \in 0 .. k : Ahead(q, i) <= ms
      /\ \A i \in k + 1 .. Len(q) : Ahead(q, i) > ms
  <2>1. Len(q) \in Nat OBVIOUS
  <2> QED BY <1>1, <2>1, PlaceIs
<1>4. p \in Seq(Rec) /\ Len(p) = Len(q) + 1 BY <1>2 DEF Inserted
<1>5. PICK d, e : d = Due(q) /\ e = Due(p) OBVIOUS
<1>6. /\ d \in Seq(Row) /\ Len(d) = Len(q)
      /\ \A i \in 1 .. Len(q) : d[i] = [h |-> q[i].h, left |-> Ahead(q, i)]
  BY <1>5, DueIs2
<1>7. /\ e \in Seq(Row) /\ Len(e) = Len(q) + 1
      /\ \A i \in 1 .. Len(q) + 1 : e[i] = [h |-> p[i].h, left |-> Ahead(p, i)]
  BY <1>4, <1>5, DueIs2
<1> DEFINE new == [h |-> h, left |-> ms]
           s0  == <<new>>
           s1  == SubSeq(d, 1, k)
           s2  == SubSeq(d, k + 1, Len(d))
           s3  == s1 \o s0
<1>8. new \in Row /\ s0 \in Seq(Row) /\ Len(s0) = 1 /\ s0[1] = new BY DEF Row
<1>9. s1 \in Seq(Row) /\ Len(s1) = k /\ \A i \in 1 .. k : s1[i] = d[i]
  BY <1>3, <1>6, HeadOf
<1>10. s2 \in Seq(Row) /\ Len(s2) = Len(q) - k /\ \A i \in 1 .. Len(q) - k : s2[i] = d[k + i]
  <2>1. PICK a : a = k + 1 OBVIOUS
  <2>2. a \in 1 .. Len(d) + 1 /\ s2 = SubSeq(d, a, Len(d)) /\ Len(d) - a + 1 = Len(q) - k
        /\ \A i \in 1 .. Len(q) - k : a + i - 1 = k + i
    BY <1>3, <1>6, <2>1
  <2> HIDE DEF s2
  <2> QED BY <1>6, <2>2, TailOf
<1> HIDE DEF new, s0, s1, s2
<1>11. /\ s3 \in Seq(Row) /\ Len(s3) = k + 1 /\ (\A i \in 1 .. k : s3[i] = d[i]) /\ s3[k + 1] = new
  <2>1. /\ s3 \in Seq(Row) /\ Len(s3) = Len(s1) + Len(s0)
        /\ \A i \in 1 .. Len(s1) : s3[i] = s1[i]
        /\ \A i \in 1 .. Len(s0) : s3[Len(s1) + i] = s0[i]
    <3>1. s1 \in Seq(Row) /\ s0 \in Seq(Row) BY <1>8, <1>9
    <3> QED BY ONLY <3>1, JoinOf
  <2> HIDE DEF s3
  <2>2. 1 \in 1 .. Len(s0) BY <1>8
  <2>3. s3[k + 1] = new BY <1>8, <1>9, <2>1, <2>2
  <2> QED BY <1>8, <1>9, <2>1, <2>3
<1> HIDE DEF s3
<1>12. /\ s3 \o s2 \in Seq(Row) /\ Len(s3 \o s2) = Len(q) + 1
       /\ \A i \in 1 .. k + 1 : (s3 \o s2)[i] = s3[i]
       /\ \A i \in 1 .. Len(q) - k : (s3 \o s2)[k + 1 + i] = s2[i]
  <2>1. /\ s3 \o s2 \in Seq(Row) /\ Len(s3 \o s2) = Len(s3) + Len(s2)
        /\ \A i \in 1 .. Len(s3) : (s3 \o s2)[i] = s3[i]
        /\ \A i \in 1 .. Len(s2) : (s3 \o s2)[Len(s3) + i] = s2[i]
    <3>1. s3 \in Seq(Row) /\ s2 \in Seq(Row) BY <1>10, <1>11
    <3> QED BY ONLY <3>1, JoinOf
  <2>2. (k + 1) + (Len(q) - k) = Len(q) + 1 BY <1>3
  <2> QED BY <1>10, <1>11, <2>1, <2>2
<1>13. ASSUME NEW j \in 1 .. Len(q) + 1 PROVE e[j] = (s3 \o s2)[j]
  <2>1. CASE j \in 1 .. k
    <3>1. j \in 1 .. Len(q) /\ j \in 1 .. k + 1 BY <1>3, <2>1
    <3>2. p[j].h = q[j].h /\ Ahead(p, j) = Ahead(q, j) BY <1>2, <2>1 DEF Inserted, Alike
    <3>3. (s3 \o s2)[j] = d[j] BY <1>11, <1>12, <2>1, <3>1
    <3> QED BY <1>6, <1>7, <3>1, <3>2, <3>3
  <2>2. CASE j = k + 1
    <3>1. k + 1 \in 1 .. k + 1 BY <1>3
    <3>2. p[k + 1].h = h /\ Ahead(p, k + 1) = ms BY <1>2 DEF Inserted, Alike, Entry
    <3>3. (s3 \o s2)[k + 1] = new BY <1>11, <1>12, <3>1
    <3>4. e[k + 1] = new BY <1>7, <2>2, <3>2 DEF new
    <3> QED BY <2>2, <3>3, <3>4
  <2>3. CASE j > k + 1
    <3>1. PICK i : i = j - 1 - k OBVIOUS
    <3>2. i \in 1 .. Len(q) - k /\ k + 1 + i = j /\ k + i \in k + 1 .. Len(q)
          /\ k + i + 1 = j /\ k + i \in 1 .. Len(q)
      BY <1>3, <2>3, <3>1
    <3>3. p[j].h = q[k + i].h /\ Ahead(p, j) = Ahead(q, k + i)
      BY <1>2, <3>2 DEF Inserted, Alike
    <3>4. (s3 \o s2)[j] = d[k + i] BY <1>10, <1>12, <3>2
    <3> QED BY <1>6, <1>7, <3>2, <3>3, <3>4
  <2>4. k \in Nat BY <1>3
  <2>5. j \in 1 .. k \/ j = k + 1 \/ j > k + 1 BY ONLY <2>4, j \in 1 .. Len(q) + 1
  <2> QED BY <2>1, <2>2, <2>3, <2>5
<1>14. e = s3 \o s2 BY <1>7, <1>12, <1>13, Equal
<1>15. /\ \A i \in 1 .. k : d[i].left <= ms
       /\ \A i \in k + 1 .. Len(q) : d[i].left > ms
  <2>1. \A i \in 1 .. k : i \in 1 .. Len(q) BY <1>3
  <2>2. \A i \in k + 1 .. Len(q) : i \in 1 .. Len(q) BY <1>3
  <2>3. ASSUME NEW i \in 1 .. Len(q) PROVE d[i].left = Ahead(q, i)
    <3>1. d[i] = [h |-> q[i].h, left |-> Ahead(q, i)] BY <1>6
    <3> QED BY ONLY <3>1
  <2>4. \A i \in 1 .. k : i \in 0 .. k BY <1>3
  <2> QED BY ONLY <1>3, <2>1, <2>2, <2>3, <2>4
<1>16. e = SubSeq(d, 1, k) \o <<[h |-> h, left |-> ms]>> \o SubSeq(d, k + 1, Len(d))
  BY <1>14 DEF s0, s1, s2, s3, new
<1>17. k \in 0 .. Len(d) /\ Len(d) = Len(q) BY <1>3, <1>6
<1> QED BY <1>1, <1>5, <1>15, <1>16, <1>17

LEMMA DueWithout ==
  ASSUME NEW q \in Seq(Rec), NEW k \in 1 .. Len(q), NEW p, p = Without(q, k)
  PROVE  Due(p) = SubSeq(Due(q), 1, k - 1) \o SubSeq(Due(q), k + 1, Len(Due(q)))
<1>1. /\ p \in Seq(Rec) /\ Len(p) = Len(q) - 1
      /\ \A i \in 1 .. k - 1 : Alike(p[i], q[i]) /\ Ahead(p, i) = Ahead(q, i)
      /\ \A i \in k .. Len(q) - 1 : Alike(p[i], q[i + 1]) /\ Ahead(p, i) = Ahead(q, i + 1)
  BY WithoutIs
<1>2. PICK d, e, b : d = Due(q) /\ e = Due(p) /\ b = k - 1 OBVIOUS
<1>3. /\ d \in Seq(Row) /\ Len(d) = Len(q) /\ Len(q) \in Nat
      /\ \A i \in 1 .. Len(q) : d[i] = [h |-> q[i].h, left |-> Ahead(q, i)]
  BY <1>2, DueIs2
<1>4. /\ e \in Seq(Row) /\ Len(e) = Len(q) - 1
      /\ \A i \in 1 .. Len(q) - 1 : e[i] = [h |-> p[i].h, left |-> Ahead(p, i)]
  BY <1>1, <1>2, DueIs2
<1> DEFINE s1 == SubSeq(d, 1, b)
           s2 == SubSeq(d, k + 1, Len(d))
<1>5. b \in 0 .. Len(d) /\ k = b + 1 BY <1>2, <1>3
<1>11. Len(q) \in Nat /\ b \in Nat /\ k \in Nat /\ k = b + 1 /\ k <= Len(q) BY <1>3, <1>5
<1>6. s1 \in Seq(Row) /\ Len(s1) = b /\ \A i \in 1 .. b : s1[i] = d[i]
  BY <1>3, <1>5, HeadOf
<1>7. s2 \in Seq(Row) /\ Len(s2) = Len(q) - k /\ \A i \in 1 .. Len(q) - k : s2[i] = d[k + i]
  <2>1. PICK a : a = k + 1 OBVIOUS
  <2>2. a \in 1 .. Len(d) + 1 /\ s2 = SubSeq(d, a, Len(d)) /\ Len(d) - a + 1 = Len(q) - k
        /\ \A i \in 1 .. Len(q) - k : a + i - 1 = k + i
    <3>1. Len(q) \in Nat /\ Len(d) = Len(q) /\ k \in 1 .. Len(q) BY <1>3
    <3>2. a \in 1 .. Len(d) + 1 /\ Len(d) - a + 1 = Len(q) - k
          /\ \A i \in 1 .. Len(q) - k : a + i - 1 = k + i
      BY ONLY <2>1, <3>1
    <3> QED BY <2>1, <3>2
  <2> HIDE DEF s2
  <2> QED BY <1>3, <2>2, TailOf
<1> HIDE DEF s1, s2
<1>8. /\ s1 \o s2 \in Seq(Row) /\ Len(s1 \o s2) = Len(q) - 1
      /\ \A i \in 1 .. b : (s1 \o s2)[i] = s1[i]
      /\ \A i \in 1 .. Len(q) - k : (s1 \o s2)[b + i] = s2[i]
  <2>1. /\ s1 \o s2 \in Seq(Row) /\ Len(s1 \o s2) = Len(s1) + Len(s2)
        /\ \A i \in 1 .. Len(s1) : (s1 \o s2)[i] = s1[i]
        /\ \A i \in 1 .. Len(s2) : (s1 \o s2)[Len(s1) + i] = s2[i]
    <3>1. s1 \in Seq(Row) /\ s2 \in Seq(Row) BY <1>6, <1>7
    <3> QED BY ONLY <3>1, JoinOf
  <2>2. b + (Len(q) - k) = Len(q) - 1 BY <1>3, <1>5
  <2> QED BY <1>6, <1>7, <2>1, <2>2
<1>9. ASSUME NEW j \in 1 .. Len(q) - 1 PROVE e[j] = (s1 \o s2)[j]
  <2>1. CASE j \in 1 .. b
    <3>1. j \in 1 .. Len(q) /\ j \in 1 .. k - 1 BY <1>3, <1>5, <2>1
    <3>2. p[j].h = q[j].h /\ Ahead(p, j) = Ahead(q, j) BY <1>1, <3>1 DEF Alike
    <3>3. (s1 \o s2)[j] = d[j] BY <1>6, <1>8, <2>1
    <3> QED BY <1>3, <1>4, <3>1, <3>2, <3>3
  <2>2. CASE j > b
    <3>1. PICK i : i = j - b OBVIOUS
    <3>2. i \in 1 .. Len(q) - k /\ b + i = j /\ k + i = j + 1 /\ j \in k .. Len(q) - 1
          /\ j + 1 \in 1 .. Len(q)
      BY ONLY <1>11, <2>2, <3>1, j \in 1 .. Len(q) - 1
    <3>3. p[j].h = q[j + 1].h /\ Ahead(p, j) = Ahead(q, j + 1) BY <1>1, <3>2 DEF Alike
    <3>4. (s1 \o s2)[j] = d[j + 1] BY <1>7, <1>8, <3>2
    <3> QED BY <1>3, <1>4, <3>2, <3>3, <3>4
  <2>3. j \in 1 .. b \/ j > b BY ONLY <1>11, j \in 1 .. Len(q) - 1
  <2> QED BY <2>1, <2>2, <2>3
<1>10. e = s1 \o s2 BY <1>4, <1>8, <1>9, Equal
<1> QED BY <1>2, <1>10 DEF s1, s2
\* What is left of every deadline, when all are d closer.
LEMMA DueLess ==
  ASSUME NEW q \in Seq(Rec), NEW p \in Seq(Rec), Len(p) = Len(q), NEW d \in Nat,
         \A i \in 1 .. Len(q) : p[i].h = q[i].h /\ Ahead(p, i) = Ahead(q, i) - d
  PROVE  Due(p) = Deadline!Less(Due(q), d)
<1>1. PICK a, b : a = Due(q) /\ b = Due(p) OBVIOUS
<1>2. /\ a \in Seq(Row) /\ DOMAIN a = 1 .. Len(q)
      /\ \A i \in 1 .. Len(q) : a[i] = [h |-> q[i].h, left |-> Ahead(q, i)]
  BY <1>1, DueIs2
<1>3. /\ b \in Seq(Row) /\ DOMAIN b = 1 .. Len(q)
      /\ \A i \in 1 .. Len(q) : b[i] = [h |-> p[i].h, left |-> Ahead(p, i)]
  BY <1>1, DueIs2
<1>4. ASSUME NEW i \in 1 .. Len(q) PROVE b[i] = [a[i] EXCEPT !.left = a[i].left - d]
  <2>1. a[i] = [h |-> q[i].h, left |-> Ahead(q, i)] BY <1>2
  <2>2. b[i] = [h |-> q[i].h, left |-> Ahead(q, i) - d] BY <1>3
  <2> QED BY ONLY <2>1, <2>2
<1>5. b = [i \in DOMAIN a |-> [a[i] EXCEPT !.left = a[i].left - d]]
  <2>1. b = [i \in 1 .. Len(q) |-> b[i]] BY <1>3
  <2> QED BY ONLY <1>2, <1>4, <2>1
<1>6. Deadline!Less(a, d) = [i \in DOMAIN a |-> [a[i] EXCEPT !.left = a[i].left - d]]
  BY DEF Deadline!Less
<1> QED BY <1>1, <1>5, <1>6

LEMMA DueTail ==
  ASSUME NEW q \in Seq(Rec), q # <<>>
  PROVE  Due(Tail(q)) = Deadline!Less(Tail(Due(q)), Head(Due(q)).left)
<1>1. PICK p : p = Tail(q) OBVIOUS
<1>2. /\ p \in Seq(Rec) /\ Len(p) = Len(q) - 1
      /\ \A i \in 1 .. Len(p) : p[i] = q[i + 1] /\ Ahead(p, i) = Ahead(q, i + 1) - q[1].time
  BY <1>1, TailIs
<1>3. PICK a, b : a = Due(q) /\ b = Due(p) OBVIOUS
<1>4. /\ a \in Seq(Row) /\ Len(a) = Len(q) /\ a # <<>> /\ Len(q) \in Nat
      /\ \A i \in 1 .. Len(q) : a[i] = [h |-> q[i].h, left |-> Ahead(q, i)]
  BY <1>3, DueIs2
<1>5. /\ b \in Seq(Row) /\ DOMAIN b = 1 .. Len(p)
      /\ \A i \in 1 .. Len(p) : b[i] = [h |-> p[i].h, left |-> Ahead(p, i)]
  BY <1>2, <1>3, DueIs2
<1>6. Head(a) = a[1] /\ 1 \in 1 .. Len(q) BY <1>4
<1>7. Head(a).left = q[1].time
  <2>1. a[1] = [h |-> q[1].h, left |-> Ahead(q, 1)] BY <1>4, <1>6
  <2>2. Ahead(q, 1) = q[1].time BY <1>6, EntryIs
  <2> QED BY ONLY <1>6, <2>1, <2>2
<1>8. PICK t, d : t = Tail(a) /\ d = Head(a).left OBVIOUS
<1>9. DOMAIN t = 1 .. Len(p) /\ \A i \in 1 .. Len(p) : t[i] = a[i + 1]
  <2>1. t \in Seq(Row) /\ Len(t) = Len(a) - 1 /\ \A i \in 1 .. Len(a) - 1 : t[i] = a[i + 1]
    BY <1>4, <1>8
  <2>2. DOMAIN t = 1 .. Len(t) BY <2>1
  <2> QED BY ONLY <1>2, <1>4, <2>1, <2>2
<1>10. ASSUME NEW i \in 1 .. Len(p) PROVE b[i] = [t[i] EXCEPT !.left = t[i].left - d]
  <2>1. i + 1 \in 1 .. Len(q) BY <1>2, <1>4
  <2>2. t[i] = [h |-> q[i + 1].h, left |-> Ahead(q, i + 1)] BY <1>4, <1>9, <2>1
  <2>3. b[i] = [h |-> q[i + 1].h, left |-> Ahead(q, i + 1) - d] BY <1>2, <1>5, <1>7, <1>8
  <2> QED BY ONLY <2>2, <2>3
<1>11. b = [i \in DOMAIN t |-> [t[i] EXCEPT !.left = t[i].left - d]]
  <2>1. b = [i \in 1 .. Len(p) |-> b[i]] BY <1>5
  <2> QED BY ONLY <1>9, <1>10, <2>1
<1>12. Deadline!Less(t, d) = [i \in DOMAIN t |-> [t[i] EXCEPT !.left = t[i].left - d]]
  BY DEF Deadline!Less
<1> QED BY <1>1, <1>3, <1>8, <1>11, <1>12

\* Setting, taking back, waiting and expiring are what the deadlines allow.
LEMMA StepSet ==
  ASSUME NEW h \in Handler, Fine(next_timeout, 0), sys_timeout(h),
         UNCHANGED next_timeout => FALSE
  PROVE  Deadline!Set(h, Interval[h])
<1>1. next_timeout \in Seq(Rec) /\ Interval[h] \in Nat BY IntervalAssumption DEF Fine
<1>2. next_timeout' = Insert(next_timeout, h, Interval[h]) BY DEF sys_timeout
<1>3. \E k \in 0 .. Len(Due(next_timeout)) :
        /\ \A i \in 1 .. k : Due(next_timeout)[i].left <= Interval[h]
        /\ \A i \in k + 1 .. Len(Due(next_timeout)) : Due(next_timeout)[i].left > Interval[h]
        /\ Due(next_timeout') = SubSeq(Due(next_timeout), 1, k)
                         \o <<[h |-> h, left |-> Interval[h]]>>
                         \o SubSeq(Due(next_timeout), k + 1, Len(Due(next_timeout)))
  <2>1. PICK q, p, ms : q = next_timeout /\ p = next_timeout' /\ ms = Interval[h] OBVIOUS
  <2>2. q \in Seq(Rec) /\ ms \in Nat /\ p = Insert(q, h, ms) BY <1>1, <1>2, <2>1
  <2>3. \E k \in 0 .. Len(Due(q)) :
          /\ \A i \in 1 .. k : Due(q)[i].left <= ms
          /\ \A i \in k + 1 .. Len(Due(q)) : Due(q)[i].left > ms
          /\ Due(Insert(q, h, ms)) = SubSeq(Due(q), 1, k) \o <<[h |-> h, left |-> ms]>>
                                       \o SubSeq(Due(q), k + 1, Len(Due(q)))
    BY <2>2, DueInsert
  <2> QED BY <2>1, <2>2, <2>3
<1> QED BY <1>3 DEF Deadline!Set, Due

LEMMA StepCancel ==
  ASSUME NEW h, Fine(next_timeout, 0), sys_untimeout(h), UNCHANGED next_timeout => FALSE
  PROVE  Deadline!Cancel(h)
<1>1. next_timeout \in Seq(Rec) /\ Len(next_timeout) \in Nat BY DEF Fine
<1>2. PICK k \in DOMAIN next_timeout :
        /\ next_timeout[k].h = h /\ \A j \in 1 .. k - 1 : next_timeout[j].h # h
        /\ next_timeout' = Without(next_timeout, k)
  BY DEF sys_untimeout
<1>3. Due(next_timeout') = SubSeq(Due(next_timeout), 1, k - 1)
                             \o SubSeq(Due(next_timeout), k + 1, Len(Due(next_timeout)))
  <2>1. PICK q, p : q = next_timeout /\ p = next_timeout' OBVIOUS
  <2>2. q \in Seq(Rec) /\ k \in 1 .. Len(q) /\ p = Without(q, k) BY <1>1, <1>2, <2>1
  <2>3. Due(p) = SubSeq(Due(q), 1, k - 1) \o SubSeq(Due(q), k + 1, Len(Due(q)))
    BY <2>2, DueWithout
  <2> QED BY <2>1, <2>3
<1>4. /\ DOMAIN Due(next_timeout) = 1 .. Len(next_timeout)
      /\ \A i \in 1 .. Len(next_timeout) :
           Due(next_timeout)[i] = [h |-> next_timeout[i].h, left |-> Ahead(next_timeout, i)]
  BY <1>1, DueIs2
<1>5. k \in 1 .. Len(next_timeout) /\ \A j \in 1 .. k - 1 : j \in 1 .. Len(next_timeout)
  BY <1>1
<1>6. \A i \in 1 .. Len(next_timeout) : Due(next_timeout)[i].h = next_timeout[i].h
  <2> SUFFICES ASSUME NEW i \in 1 .. Len(next_timeout)
               PROVE  Due(next_timeout)[i].h = next_timeout[i].h
    OBVIOUS
  <2>1. Due(next_timeout)[i] = [h |-> next_timeout[i].h, left |-> Ahead(next_timeout, i)]
    BY <1>4
  <2> QED BY ONLY <2>1
<1>7. /\ k \in DOMAIN Due(next_timeout) /\ Due(next_timeout)[k].h = h
      /\ \A j \in 1 .. k - 1 : Due(next_timeout)[j].h # h
  BY <1>2, <1>4, <1>5, <1>6
<1> QED BY <1>3, <1>7 DEF Deadline!Cancel, Due

LEMMA StepPass ==
  ASSUME IInv, Receive, next_timeout # <<>>
  PROVE  Deadline!Pass
<1>1. next_timeout \in Seq(Rec) /\ elapsed \in Nat /\ next_timeout[1].time > 0
      /\ next_timeout' = Received(next_timeout)
  BY IntervalAssumption DEF IInv, Fine, Shape, Waits, Receive
<1>2. PICK q, p : q = next_timeout /\ p = next_timeout' OBVIOUS
<1>3. q \in Seq(Rec) /\ q # <<>> /\ p = Received(q) /\ q[1].time > 0 BY <1>1, <1>2
<1>4. PICK d \in Nat :
        /\ d <= q[1].time /\ d <= elapsed + 1 /\ (d = 0 => q[1].time = 0)
        /\ p \in Seq(Rec) /\ Len(p) = Len(q)
        /\ \A i \in 1 .. Len(q) :
             /\ p[i].h = q[i].h /\ p[i].age = q[i].age
             /\ p[i].msgs = Min({q[i].msgs + 1, Interval[q[i].h]})
             /\ Ahead(p, i) = Ahead(q, i) - d
  BY <1>1, <1>3, ReceivedIs
<1>5. Due(p) = Deadline!Less(Due(q), d) BY <1>3, <1>4, DueLess
<1>6. /\ Due(q) \in Seq(Row) /\ Due(q) # <<>> /\ 1 \in 1 .. Len(q)
      /\ Due(q)[1] = [h |-> q[1].h, left |-> Ahead(q, 1)]
  BY <1>3, DueIs2
<1>7. Head(Due(q)) = [h |-> q[1].h, left |-> q[1].time] /\ q[1].time \in Nat
  BY <1>3, <1>6, EntryIs
<1>8. d \in 1 .. Head(Due(q)).left BY <1>3, <1>4, <1>7
<1>9. Due(next_timeout) # <<>> /\ d \in 1 .. Head(Due(next_timeout)).left
      /\ Due(next_timeout') = Deadline!Less(Due(next_timeout), d)
  BY <1>2, <1>5, <1>6, <1>8
<1> QED BY <1>9 DEF Deadline!Pass, Due

LEMMA StepExpire ==
  ASSUME IInv, Expire
  PROVE  Deadline!Expire
<1>1. next_timeout \in Seq(Rec) /\ next_timeout # <<>> /\ next_timeout' = Tail(next_timeout)
  BY DueIs DEF Expire
<1>2. Due(next_timeout) # <<>> BY <1>1, DueIs2
<1>3. Due(next_timeout')
        = Deadline!Less(Tail(Due(next_timeout)), Head(Due(next_timeout)).left)
  BY <1>1, DueTail
<1> QED BY <1>2, <1>3 DEF Deadline!Expire, Due

\* A tick changes no deadline.
LEMMA StepTick ==
  ASSUME IInv, Tick
  PROVE  Due(next_timeout') = Due(next_timeout)
<1>1. PICK q, p : q = next_timeout /\ p = next_timeout' OBVIOUS
<1>2. q \in Seq(Rec) /\ p = Aged(q) BY <1>1 DEF IInv, Fine, Tick, Aged
<1>3. /\ p \in Seq(Rec) /\ Len(p) = Len(q)
      /\ \A i \in 1 .. Len(q) : p[i].h = q[i].h /\ Ahead(p, i) = Ahead(q, i)
  BY ONLY <1>2, AgedIs
<1>4. DOMAIN p = DOMAIN q /\ DOMAIN q = 1 .. Len(q) BY <1>2, <1>3
<1>5. Due(p) = Due(q) BY <1>3, <1>4 DEF Due
<1> QED BY <1>1, <1>5
LEMMA StepDeadlines ==
  IInv /\ [Next]_vars => [Deadline!Next]_(Due(next_timeout))
<1> SUFFICES ASSUME IInv, [Next]_vars,
                    ~(Due(next_timeout') = Due(next_timeout))
             PROVE  Deadline!Next
  OBVIOUS
<1>1. ASSUME NEW h \in Handler, sys_timeout(h), thread # "blocked" PROVE Deadline!Next
  <2>1. Fine(next_timeout, 0) /\ (UNCHANGED next_timeout => FALSE)
    BY <1>1 DEF IInv, Waits
  <2>2. Deadline!Set(h, Interval[h]) BY <1>1, <2>1, StepSet
  <2>3. Interval[h] \in {Interval[g] : g \in Handler} OBVIOUS
  <2> QED BY <2>2, <2>3 DEF Deadline!Next
<1>2. ASSUME NEW h \in Handler, sys_untimeout(h), thread # "blocked" PROVE Deadline!Next
  <2>1. Fine(next_timeout, 0) /\ (UNCHANGED next_timeout => FALSE)
    BY <1>2 DEF IInv, Waits
  <2>2. Deadline!Cancel(h) BY <1>2, <2>1, StepCancel
  <2> QED BY <2>2 DEF Deadline!Next
<1>3. CASE Tick BY <1>3, StepTick
<1>4. CASE sys_timeouts_init
  <2>1. Len(next_timeout) < Len(Cyclic) BY <1>4 DEF sys_timeouts_init
  <2>2. Cyclic[Len(next_timeout) + 1] \in Handler
    <3>1. Len(next_timeout) \in Nat BY DEF IInv, Fine
    <3> QED BY <2>1, <3>1, Kinds
  <2> QED BY <1>1, <1>4, <2>1, <2>2 DEF sys_timeouts_init
<1>5. CASE Receive
  <2>1. CASE next_timeout = <<>> BY <1>5, <2>1 DEF Receive, Received
  <2>2. CASE next_timeout # <<>> BY <1>5, <2>2, StepPass DEF Deadline!Next
  <2> QED BY <2>1, <2>2
<1>6. CASE Expire BY <1>6, StepExpire DEF Deadline!Next
<1>7. CASE Callback
  <2>1. ASSUME NEW h \in ToSet(Cyclic), CyclicTimer(h) PROVE Deadline!Next
    BY <1>1, <2>1, Kinds DEF CyclicTimer, Runs
  <2>2. CASE TcpTimerRestarts BY <1>1, <2>2, Kinds DEF TcpTimerRestarts, Runs
  <2> QED BY <1>7, <2>1, <2>2 DEF Callback, AppTimer, TcpTimerStops
<1>8. CASE Message
  <2>1. ASSUME NEW h \in App, MsgTimeout(h) PROVE Deadline!Next
    BY <1>1, <2>1, Kinds DEF MsgTimeout
  <2>2. ASSUME NEW h \in App, MsgUntimeout(h) PROVE Deadline!Next
    BY <1>2, <2>2, Kinds DEF MsgUntimeout
  <2>3. CASE MsgTcpReg BY <1>1, <2>3, Kinds DEF MsgTcpReg
  <2> QED BY <1>8, <2>1, <2>2, <2>3 DEF Message, MsgTcpRmv, MsgOther
<1>9. CASE UNCHANGED next_timeout BY <1>9
<1> QED
  BY <1>3, <1>4, <1>5, <1>6, <1>7, <1>8, <1>9 DEF Next, Thread, Post, Block, vars

\* ImplementsDeadlines, for any timers, intervals and pool: the delta list serves the
\* timeouts in the order of their deadlines, however timeouts are set and taken back and
\* waits are cut short (timers.c:118-186, 320-345, 444-474).
THEOREM ListKeepsDeadlines == Spec => ImplementsDeadlines
<1>1. Init => Deadline!Init
  <2> SUFFICES ASSUME Init PROVE Deadline!Init OBVIOUS
  <2>1. next_timeout = <<>> /\ next_timeout \in Seq(Rec) BY DEF Init
  <2>2. Due(next_timeout) = <<>> BY <2>1, DueIs2
  <2> QED BY <2>2 DEF Deadline!Init, Due
<1>2. IInv /\ [Next]_vars => [Deadline!Next]_(Due(next_timeout)) BY StepDeadlines
<1> QED BY <1>1, <1>2, TimersInductive, PTL DEF Spec, ImplementsDeadlines, Deadline!Spec, Due
=============================================================================
