------------------------ MODULE TimedEventQueueProofs ------------------------
(***************************************************************************)
(* Proofs about TimedEventQueue for every number of events, every clock,   *)
(* every delay from which the wake lock is asked and any number of deaths  *)
(* of the power manager: no event is fired early or after it has been      *)
(* cancelled, a stop that flushes handles what was posted before, and the  *)
(* wake lock does not leak.                                                *)
(***************************************************************************)
EXTENDS TimedEventQueue, FiniteSetTheorems, SequenceTheorems, WellFoundedInduction, TLAPS

\* The queue holds the queued events, by their times and then by their numbers, which
\* are in the order of the posts.
Earlier(e, f) == realtime_us[e] < realtime_us[f] \/ (realtime_us[e] = realtime_us[f] /\ e < f)
InOrder ==
  /\ \A i, j \in DOMAIN mQueue : i < j => Earlier(mQueue[i], mQueue[j])
  /\ ToSet(mQueue) = {e \in Event : fate[e] = "queued"}
  /\ \E n \in 0 .. MaxEvents : Posted = 1 .. n

\* What the thread has in its hands.
Thread ==
  /\ tpc \in {"timed", "head", "expired", "fire"} => event \in Posted
  /\ tpc = "expired" => Due(event)
  /\ tpc = "fire" => fate[event] = "firing"
  /\ wakeLocked => tpc \in {"fire", "release"}
  /\ tpc = "release" => \E e \in Event : fate[e] = "done"

\* The stop in progress.  The StopEvent of a flush is behind all the others, and the thread
\* never waits for it.
Stopping ==
  /\ stopEvent # NoEvent => mRunning /\ stopEvent \in Posted
  /\ ~mRunning => tpc = "none"
  /\ mRunning /\ tpc = "none" => mStopped
  /\ mRunning /\ mStopped => stopEvent # NoEvent /\ fate[stopEvent] = "done"
  /\ stopEvent # NoEvent /\ flush =>
       /\ fate[stopEvent] = "queued" => realtime_us[stopEvent] = AtBack
       /\ fate[stopEvent] # "queued" => \A e \in 1 .. stopEvent : fate[e] # "queued"
       /\ tpc \in {"timed", "head", "expired"} => event # stopEvent

IInv ==
  TypeOK /\ InOrder /\ Thread /\ Stopping /\ has_wakelock \subseteq ToSet(mQueue) /\ NoWakeLockLeak
-----------------------------------------------------------------------------
(* Sequences *)

(***************************************************************************)
(* A set of numbers that has 0 and the successor of each of its members.   *)
(***************************************************************************)
LEMMA AllNumbers ==
  ASSUME NEW S, 0 \in S, \A n \in Nat : n \in S => n + 1 \in S
  PROVE  Nat \subseteq S
<1> DEFINE R == {p \in Nat \X Nat : p[1] < p[2]}
<1>1. IsWellFoundedOn(R, Nat)
  BY NatLessThanWellFounded DEF OpToRel
<1>2. SUFFICES ASSUME Nat \ S # {} PROVE FALSE
  OBVIOUS
<1>3. PICK n \in Nat \ S : \A m \in Nat \ S : ~(<<m, n>> \in R)
  BY <1>1, <1>2, WFMin
<1>4. n # 0 /\ n - 1 \in Nat /\ <<n - 1, n>> \in R
  BY <1>3
<1>5. n - 1 \in S
  BY <1>3, <1>4
<1> QED
  BY <1>3, <1>4, <1>5

(***************************************************************************)
(* Positions none of which has a gap before it are the first ones.         *)
(***************************************************************************)
LEMMA NoGap ==
  ASSUME NEW n \in Nat, NEW A \in SUBSET (1 .. n), \A i \in A : \A j \in 1 .. i : j \in A
  PROVE  Cardinality(A) \in 0 .. n /\ A = 1 .. Cardinality(A)
<1> DEFINE S == {m \in Nat : 1 .. m \subseteq A}
<1>1. PICK m \in Nat : m \in S /\ m + 1 \notin A
  <2>1. SUFFICES ASSUME \A m \in Nat : m \in S => m + 1 \in A PROVE FALSE
    OBVIOUS
  <2>2. 0 \in S
    OBVIOUS
  <2>3. ASSUME NEW m \in Nat, m \in S PROVE m + 1 \in S
    <3>1. m + 1 \in A
      BY <2>1, <2>3
    <3> QED
      BY <3>1
  <2>4. Nat \subseteq S
    <3> HIDE DEF S
    <3> QED
      BY <2>2, <2>3, AllNumbers
  <2>5. n + 1 \in 1 .. n + 1 /\ n + 1 \notin 1 .. n
    OBVIOUS
  <2> QED
    BY <2>4, <2>5
<1>2. A = 1 .. m
  <2>1. ASSUME NEW i \in A PROVE i \in 1 .. m
    <3>1. i \in Nat /\ i >= 1 /\ (i > m => m + 1 \in 1 .. i)
      OBVIOUS
    <3> QED
      BY <1>1, <3>1
  <2> QED
    BY <1>1, <2>1
<1>3. Cardinality(1 .. m) = m
  BY FS_Interval
<1>4. m <= n
  <2>1. m > 0 => m \in A
    BY <1>2
  <2> QED
    BY <2>1
<1> QED
  BY <1>2, <1>3, <1>4

(***************************************************************************)
(* InsertAt moves what is behind the place one place further.              *)
(***************************************************************************)
Inserted(r, q, p, e) ==
  /\ DOMAIN r = 1 .. Len(q) + 1 /\ r[p] = e
  /\ \A i \in 1 .. Len(q) + 1 : i < p => r[i] = q[i]
  /\ \A i \in 1 .. Len(q) + 1 : i > p => r[i] = q[i - 1]

LEMMA InsertAtFacts ==
  ASSUME NEW E, NEW q \in Seq(E), NEW p \in 1 .. Len(q) + 1, NEW e \in E
  PROVE  InsertAt(q, p, e) \in Seq(E) /\ Inserted(InsertAt(q, p, e), q, p, e)
<1> DEFINE a == SubSeq(q, 1, p - 1)
           b == SubSeq(q, p, Len(q))
<1>1. Len(q) \in Nat /\ \A i \in 1 .. Len(q) : q[i] \in E
  OBVIOUS
<1>2. a \in Seq(E) /\ Len(a) = p - 1 /\ \A i \in 1 .. p - 1 : a[i] = q[i]
  BY <1>1, SubSeqProperties
<1>3. /\ b \in Seq(E) /\ Len(b) = Len(q) + 1 - p
      /\ \A i \in 1 .. Len(q) + 1 - p : b[i] = q[p + i - 1]
  BY <1>1, SubSeqProperties
<1>4. <<e>> \in Seq(E) /\ Len(<<e>>) = 1 /\ <<e>>[1] = e
  OBVIOUS
<1> DEFINE c == a \o <<e>>
<1>5. InsertAt(q, p, e) = c \o b
  BY DEF InsertAt
<1> HIDE DEF a, b
<1>6. c \in Seq(E) /\ Len(c) = p /\ \A i \in 1 .. p : c[i] = IF i < p THEN a[i] ELSE e
  <2>1. c \in Seq(E) /\ Len(c) = p - 1 + 1
        /\ \A i \in 1 .. p - 1 + 1 : c[i] = IF i <= p - 1 THEN a[i] ELSE <<e>>[i - (p - 1)]
    BY <1>2, <1>4, ConcatProperties
  <2> HIDE DEF c
  <2>2. ASSUME NEW i \in 1 .. p PROVE c[i] = IF i < p THEN a[i] ELSE e
    BY <1>4, <2>1
  <2> QED
    BY <2>1, <2>2
<1> HIDE DEF c
<1>7. c \o b \in Seq(E) /\ Len(c \o b) = Len(q) + 1
      /\ \A i \in 1 .. Len(q) + 1 : (c \o b)[i] = IF i <= p THEN c[i] ELSE b[i - p]
  <2>1. p + (Len(q) + 1 - p) = Len(q) + 1
    BY <1>1
  <2> QED
    BY <1>3, <1>6, <2>1, ConcatProperties
<1>8. ASSUME NEW i \in 1 .. Len(q) + 1
      PROVE  (c \o b)[i] = IF i < p THEN q[i] ELSE IF i = p THEN e ELSE q[i - 1]
  <2>1. CASE i <= p
    <3>1. i \in 1 .. p /\ (i # p => i \in 1 .. p - 1 /\ i < p)
      BY <1>1, <2>1
    <3>2. (c \o b)[i] = c[i]
      BY <1>7, <2>1
    <3>3. CASE i = p
      BY <1>1, <1>6, <3>1, <3>2, <3>3
    <3>4. CASE i # p
      BY <1>1, <1>2, <1>6, <3>1, <3>2, <3>4
    <3> QED
      BY <3>3, <3>4
  <2>2. CASE i > p
    <3>1. i - p \in 1 .. Len(q) + 1 - p /\ p + (i - p) - 1 = i - 1
      BY <1>1, <2>2
    <3> QED
      BY <1>3, <1>7, <2>2, <3>1
  <2>3. i \in Int /\ p \in Int
    BY <1>1
  <2> HIDE DEF c, b
  <2>4. i <= p \/ i > p
    BY <2>3
  <2> QED
    BY <2>1, <2>2, <2>4
<1>9. p \in Int /\ p \in 1 .. Len(q) + 1 /\ DOMAIN (c \o b) = 1 .. Len(q) + 1
  BY <1>1, <1>7
<1> QED
  BY <1>1, <1>5, <1>7, <1>8, <1>9 DEF Inserted

(***************************************************************************)
(* The function by which Without is defined exists: what is kept of the    *)
(* first n elements can be gone on with by one.                            *)
(***************************************************************************)
LEMMA WithoutDef ==
  ASSUME NEW E, NEW q \in Seq(E), NEW S
  PROVE  \E f : /\ Without(q, S) = f[Len(q)]
                /\ f[0] = <<>>
                /\ \A n \in 1 .. Len(q) : f[n] = IF q[n] \in S THEN f[n - 1] ELSE Append(f[n - 1], q[n])
<1> DEFINE More(s, n) == IF q[n] \in S THEN s ELSE Append(s, q[n])
           IsKept(f, m) == f = [n \in 0 .. m |-> IF n = 0 THEN <<>> ELSE More(f[n - 1], n)]
           T == {m \in Nat : \E f : IsKept(f, m)}
           kept == CHOOSE f : IsKept(f, Len(q))
<1>1. Without(q, S) = kept[Len(q)]
  BY DEF Without
<1> HIDE DEF More
<1>2. 0 \in T
  <2>1. IsKept([n \in 0 .. 0 |-> <<>>], 0)
    OBVIOUS
  <2> QED
    BY <2>1
<1>3. ASSUME NEW m \in Nat, m \in T PROVE m + 1 \in T
  <2>1. PICK f : IsKept(f, m)
    BY <1>3
  <2> DEFINE g == [n \in 0 .. m + 1 |-> IF n = m + 1 THEN More(f[m], n) ELSE f[n]]
  <2>2. ASSUME NEW n \in 0 .. m + 1 PROVE g[n] = IF n = 0 THEN <<>> ELSE More(g[n - 1], n)
    BY <2>1
  <2>3. IsKept(g, m + 1)
    BY <2>2
  <2>4. \E h : IsKept(h, m + 1)
    <3> HIDE DEF IsKept, g
    <3> QED
      BY <2>3
  <2> QED
    BY <2>4
<1>4. \E f : IsKept(f, Len(q))
  <2>1. Nat \subseteq T
    <3> HIDE DEF T
    <3> QED
      BY <1>2, <1>3, AllNumbers
  <2>2. Len(q) \in Nat
    OBVIOUS
  <2> QED
    BY <2>1, <2>2
<1>5. IsKept(kept, Len(q))
  <2> HIDE DEF IsKept
  <2> QED
    BY <1>4
<1> HIDE DEF kept
<1>6. Len(q) \in Nat
  OBVIOUS
<1>7. kept[0] = <<>> /\ \A n \in 1 .. Len(q) : kept[n] = More(kept[n - 1], n)
  BY <1>5, <1>6
<1> QED
  BY <1>1, <1>7 DEF More

(***************************************************************************)
(* Without keeps the other elements, in their order.                       *)
(***************************************************************************)
LEMMA WithoutFacts ==
  ASSUME NEW E, NEW q \in Seq(E), NEW S, NEW R,
         \A i, j \in DOMAIN q : i < j => <<q[i], q[j]>> \in R
  PROVE  LET w == Without(q, S)
         IN /\ w \in Seq(E) /\ ToSet(w) = ToSet(q) \ S
            /\ \A i, j \in DOMAIN w : i < j => <<w[i], w[j]>> \in R
<1>1. PICK f : /\ Without(q, S) = f[Len(q)]
               /\ f[0] = <<>>
               /\ \A n \in 1 .. Len(q) : f[n] = IF q[n] \in S THEN f[n - 1] ELSE Append(f[n - 1], q[n])
  BY WithoutDef
<1>2. Len(q) \in Nat /\ DOMAIN q = 1 .. Len(q)
  OBVIOUS
<1> DEFINE Of(n) == {q[i] : i \in 1 .. n} \ S
           Right(w, n) == /\ w \in Seq(E) /\ ToSet(w) = Of(n)
                          /\ \A i, j \in DOMAIN w : i < j => <<w[i], w[j]>> \in R
           T == {n \in Nat : n <= Len(q) => Right(f[n], n)}
<1>3. 0 \in T
  <2>1. <<>> \in Seq(E) /\ ToSet(<<>>) = {} /\ DOMAIN <<>> = {} /\ Of(0) = {}
    BY DEF ToSet
  <2> QED
    BY <1>1, <2>1
<1>4. ASSUME NEW n \in Nat, n \in T PROVE n + 1 \in T
  <2>1. SUFFICES ASSUME n + 1 <= Len(q) PROVE Right(f[n + 1], n + 1)
    OBVIOUS
  <2>2. Right(f[n], n)
    BY <1>2, <1>4, <2>1
  <2>3. n + 1 \in 1 .. Len(q) /\ (n + 1) - 1 = n /\ q[n + 1] \in E
    BY <1>2, <2>1
  <2>4. f[n + 1] = IF q[n + 1] \in S THEN f[n] ELSE Append(f[n], q[n + 1])
    BY <1>1, <2>3
  <2>5. Of(n + 1) = IF q[n + 1] \in S THEN Of(n) ELSE Of(n) \cup {q[n + 1]}
    <3>1. 1 .. n + 1 = (1 .. n) \cup {n + 1}
      OBVIOUS
    <3> QED
      BY <3>1
  <2>6. CASE q[n + 1] \in S
    BY <2>2, <2>4, <2>5, <2>6
  <2>7. CASE q[n + 1] \notin S
    <3> DEFINE w == f[n]
               v == Append(w, q[n + 1])
    <3>1. /\ v \in Seq(E) /\ Len(w) \in Nat /\ Len(v) = Len(w) + 1
          /\ DOMAIN w = 1 .. Len(w) /\ DOMAIN v = 1 .. Len(w) + 1
          /\ v[Len(w) + 1] = q[n + 1] /\ \A i \in 1 .. Len(w) : v[i] = w[i]
      BY <2>2, <2>3
    <3> HIDE DEF w, v
    <3>2. ToSet(v) = ToSet(w) \cup {q[n + 1]}
      <4>1. ASSUME NEW i \in 1 .. Len(w) + 1 PROVE i \in 1 .. Len(w) \/ i = Len(w) + 1
        BY <3>1
      <4>2. ASSUME NEW i \in 1 .. Len(w) PROVE i \in 1 .. Len(w) + 1
        BY <3>1
      <4>3. Len(w) + 1 \in 1 .. Len(w) + 1
        BY <3>1
      <4> QED
        BY <3>1, <4>1, <4>2, <4>3 DEF ToSet
    <3>3. ASSUME NEW i \in 1 .. Len(w) PROVE <<w[i], q[n + 1]>> \in R
      <4>1. w[i] \in Of(n)
        BY <2>2, <3>1 DEF ToSet, w
      <4>2. PICK k \in 1 .. n : w[i] = q[k]
        BY <4>1
      <4>3. k \in DOMAIN q /\ n + 1 \in DOMAIN q /\ k < n + 1
        BY <1>2, <2>1
      <4> QED
        BY <4>2, <4>3
    <3>4. ASSUME NEW i \in DOMAIN v, NEW j \in DOMAIN v, i < j PROVE <<v[i], v[j]>> \in R
      <4>1. i \in 1 .. Len(w) /\ v[i] = w[i]
        BY <3>1, <3>4
      <4>2. CASE j = Len(w) + 1
        BY <3>1, <3>3, <4>1, <4>2
      <4>3. CASE j # Len(w) + 1
        <5>1. j \in 1 .. Len(w) /\ v[j] = w[j]
          BY <3>1, <4>3
        <5>2. \A a, b \in DOMAIN w : a < b => <<w[a], w[b]>> \in R
          BY <2>2 DEF w
        <5> QED
          BY <3>1, <3>4, <4>1, <5>1, <5>2
      <4> QED
        BY <4>2, <4>3
    <3>5. ToSet(w) = Of(n)
      BY <2>2 DEF w
    <3>6. f[n + 1] = v
      BY <2>4, <2>7 DEF v, w
    <3> HIDE DEF Of
    <3> QED
      BY <2>5, <2>7, <3>1, <3>2, <3>4, <3>5, <3>6
  <2> QED
    BY <2>6, <2>7
<1>5. Right(f[Len(q)], Len(q))
  <2>1. Nat \subseteq T
    <3> HIDE DEF T
    <3> QED
      BY <1>3, <1>4, AllNumbers
  <2>2. Len(q) \in T
    <3> HIDE DEF T
    <3> QED
      BY <1>2, <2>1
  <2> HIDE DEF Right
  <2> QED
    BY <1>2, <2>2
<1>6. Of(Len(q)) = ToSet(q) \ S
  BY <1>2 DEF ToSet
<1> QED
  BY <1>1, <1>5, <1>6
-----------------------------------------------------------------------------
(* The queue *)

\* Event numbers are numbers, and times are compared as such.
LEMMA Bounds ==
  /\ MaxEvents \in Nat /\ MaxTime \in Nat /\ kWakelockMinDelay \in Nat /\ MaxDeaths \in Nat
  /\ Event \subseteq Nat \ {0} /\ NoEvent \notin Event
  /\ Time \subseteq Int /\ AtOnce \in Time /\ AtBack \in Time /\ \A t \in Time : t <= AtBack
  BY BoundAssumption DEF Event, NoEvent, Time, AtOnce, AtFront, AtBack

(***************************************************************************)
(* The place for a time is behind the events due by then, and before all   *)
(* the others: the queue is in the order of the times.                     *)
(***************************************************************************)
LEMMA PlaceFacts ==
  ASSUME TypeOK, InOrder, NEW when \in Time
  PROVE  /\ Place(when) \in 1 .. Len(mQueue) + 1
         /\ \A i \in DOMAIN mQueue : i < Place(when) <=> realtime_us[mQueue[i]] <= when
<1> DEFINE A == {i \in DOMAIN mQueue : realtime_us[mQueue[i]] <= when}
<1>1. /\ Len(mQueue) \in Nat /\ DOMAIN mQueue = 1 .. Len(mQueue) /\ when \in Int
      /\ \A i \in DOMAIN mQueue : mQueue[i] \in Event /\ realtime_us[mQueue[i]] \in Int
  <2>1. mQueue \in Seq(Event) /\ realtime_us \in [Event -> Time] /\ when \in Int
    BY Bounds DEF TypeOK
  <2>2. ASSUME NEW i \in DOMAIN mQueue PROVE mQueue[i] \in Event
    BY <2>1
  <2>3. \A e \in Event : realtime_us[e] \in Int
    BY <2>1, Bounds
  <2> QED
    BY <2>1, <2>2, <2>3
<1>2. ASSUME NEW i \in A, NEW j \in 1 .. i PROVE j \in A
  <2>1. i \in DOMAIN mQueue /\ j \in DOMAIN mQueue /\ i \in Int /\ j \in Int
    BY <1>1
  <2>2. j < i => realtime_us[mQueue[j]] <= realtime_us[mQueue[i]]
    BY <1>1, <2>1 DEF InOrder, Earlier
  <2> QED
    BY <1>1, <2>1, <2>2
<1>3. A \in SUBSET (1 .. Len(mQueue))
  BY <1>1
<1> HIDE DEF A
<1>4. Cardinality(A) \in 0 .. Len(mQueue) /\ A = 1 .. Cardinality(A)
  BY <1>1, <1>2, <1>3, NoGap
<1>5. Place(when) = Cardinality(A) + 1
  BY DEF Place, A
<1>6. ASSUME NEW i \in DOMAIN mQueue PROVE i < Place(when) <=> realtime_us[mQueue[i]] <= when
  <2>1. i < Place(when) <=> i \in A
    BY <1>1, <1>4, <1>5
  <2> QED
    BY <2>1 DEF A
<1> QED
  BY <1>1, <1>4, <1>5, <1>6

(***************************************************************************)
(* A post inserts the event behind those of the same time.                 *)
(***************************************************************************)
LEMMA InsertionInv ==
  ASSUME TypeOK, InOrder, NEW e \in Event, NEW when \in Time, e = Cardinality(Posted) + 1,
         fate' = [fate EXCEPT ![e] = "queued"], realtime_us' = [realtime_us EXCEPT ![e] = when],
         NEW p, p = Place(when), mQueue' = InsertAt(mQueue, p, e)
  PROVE  /\ e \notin Posted /\ Posted' = Posted \cup {e} /\ \A f \in Posted : f < e
         /\ mQueue' \in Seq(Event) /\ ToSet(mQueue') = ToSet(mQueue) \cup {e}
         /\ InOrder'
<1>1. PICK n \in 0 .. MaxEvents : Posted = 1 .. n
  BY DEF InOrder
<1>2. e = n + 1
  <2>1. n \in Nat /\ Cardinality(1 .. n) = IF 1 > n THEN 0 ELSE n - 1 + 1
    BY FS_Interval, Bounds
  <2>2. Cardinality(1 .. n) = n
    BY <2>1
  <2> QED
    BY <1>1, <2>2
<1>3. e \notin Posted /\ \A f \in Posted : f < e
  BY <1>1, <1>2, Bounds
<1>4. Posted' = Posted \cup {e}
  BY DEF Posted, TypeOK
<1>5. \E m \in 0 .. MaxEvents : Posted' = 1 .. m
  <2>1. (1 .. n) \cup {n + 1} = 1 .. n + 1 /\ n + 1 \in 0 .. MaxEvents
    BY <1>2, Bounds DEF Event
  <2> QED
    BY <1>1, <1>2, <1>4, <2>1
<1> DEFINE q == mQueue
           r == mQueue'
<1>6. /\ Len(q) \in Nat /\ DOMAIN q = 1 .. Len(q) /\ p \in 1 .. Len(q) + 1
      /\ \A i \in DOMAIN q : i < p <=> realtime_us[q[i]] <= when
      /\ \A i \in DOMAIN q : q[i] \in Event
  BY PlaceFacts DEF TypeOK
<1>7. /\ r \in Seq(Event) /\ DOMAIN r = 1 .. Len(q) + 1 /\ r[p] = e
      /\ \A i \in 1 .. Len(q) + 1 : i < p => r[i] = q[i]
      /\ \A i \in 1 .. Len(q) + 1 : i > p => r[i] = q[i - 1]
  <2>1. q \in Seq(Event) /\ p \in 1 .. Len(q) + 1 /\ r = InsertAt(q, p, e)
    BY <1>6 DEF TypeOK
  <2> HIDE DEF q, r
  <2>2. r \in Seq(Event) /\ Inserted(r, q, p, e)
    BY <2>1, InsertAtFacts
  <2> QED
    BY <2>2 DEF Inserted
<1>8. \A i \in DOMAIN q : q[i] \in Posted
  BY <1>6 DEF InOrder, ToSet, Posted
<1>9. /\ realtime_us'[e] = when /\ when \in Int
      /\ \A f \in Posted : f # e /\ realtime_us'[f] = realtime_us[f] /\ realtime_us[f] \in Int
  BY <1>3, Bounds DEF TypeOK, Posted
<1> HIDE DEF q, r
<1>10. ToSet(r) = ToSet(q) \cup {e}
  <2>1. ASSUME NEW i \in DOMAIN r PROVE r[i] \in ToSet(q) \cup {e}
    <3>1. i < p => i \in DOMAIN q
      BY <1>6, <1>7
    <3>2. i > p => i - 1 \in DOMAIN q
      BY <1>6, <1>7
    <3>3. i < p \/ i = p \/ i > p
      BY <1>6, <1>7
    <3> QED
      BY <1>6, <1>7, <3>1, <3>2, <3>3 DEF ToSet
  <2>2. ASSUME NEW i \in DOMAIN q PROVE q[i] \in ToSet(r)
    <3>1. i < p => i \in DOMAIN r /\ r[i] = q[i]
      BY <1>6, <1>7
    <3>2. i >= p => i + 1 \in DOMAIN r /\ r[i + 1] = q[(i + 1) - 1] /\ (i + 1) - 1 = i
      BY <1>6, <1>7
    <3>3. i < p \/ i >= p
      BY <1>6
    <3> QED
      BY <3>1, <3>2, <3>3 DEF ToSet
  <2>3. e \in ToSet(r)
    <3>1. p \in DOMAIN r /\ r[p] = e
      BY <1>6, <1>7
    <3> QED
      BY <3>1 DEF ToSet
  <2> QED
    BY <2>1, <2>2, <2>3 DEF ToSet
<1> DEFINE Precedes(f, g) == \/ realtime_us'[f] < realtime_us'[g]
                             \/ realtime_us'[f] = realtime_us'[g] /\ f < g
<1>11. ASSUME NEW i \in DOMAIN r, NEW j \in DOMAIN r, i < j PROVE Precedes(r[i], r[j])
  <2>0. i \in Int /\ j \in Int /\ p \in Int
    BY <1>6, <1>7
  <2>1. ASSUME NEW a \in DOMAIN q, NEW b \in DOMAIN q, a < b, r[i] = q[a], r[j] = q[b]
        PROVE  Precedes(r[i], r[j])
    <3>1. Earlier(q[a], q[b])
      BY <2>1 DEF InOrder, q
    <3>2. realtime_us'[q[a]] = realtime_us[q[a]] /\ realtime_us'[q[b]] = realtime_us[q[b]]
      BY <1>8, <1>9
    <3> QED
      BY <2>1, <3>1, <3>2 DEF Earlier
  <2>2. CASE i # p /\ j # p
    <3> DEFINE a == IF i < p THEN i ELSE i - 1
               b == IF j < p THEN j ELSE j - 1
    <3>1. a \in DOMAIN q /\ b \in DOMAIN q /\ a < b
      BY <1>6, <1>7, <1>11, <2>0, <2>2
    <3>2. r[i] = q[a] /\ r[j] = q[b]
      BY <1>7, <2>0, <2>2
    <3> HIDE DEF a, b
    <3> QED
      BY <2>1, <3>1, <3>2
  <2>3. CASE i = p
    <3>1. j - 1 \in DOMAIN q /\ ~(j - 1 < p) /\ r[j] = q[j - 1] /\ r[i] = e
      BY <1>6, <1>7, <1>11, <2>0, <2>3
    <3>2. q[j - 1] \in Posted /\ ~(realtime_us[q[j - 1]] <= when)
      BY <1>6, <1>8, <3>1
    <3>3. when < realtime_us'[q[j - 1]]
      BY <1>9, <3>2
    <3> QED
      BY <1>9, <3>1, <3>3 
  <2>4. CASE j = p
    <3>1. i \in DOMAIN q /\ i < p /\ r[i] = q[i] /\ r[j] = e
      BY <1>6, <1>7, <1>11, <2>0, <2>4
    <3>2. q[i] \in Posted /\ realtime_us[q[i]] <= when
      BY <1>6, <1>8, <3>1
    <3>3. realtime_us'[q[i]] < when \/ realtime_us'[q[i]] = when
      BY <1>9, <3>2
    <3> QED
      BY <1>3, <1>9, <3>1, <3>2, <3>3 
  <2> QED
    BY <2>2, <2>3, <2>4
<1>12. ToSet(r) = {f \in Event : fate'[f] = "queued"}
  BY <1>10 DEF InOrder, TypeOK, q
<1>13. InOrder'
  BY <1>5, <1>11, <1>12 DEF InOrder, Earlier, r
<1> QED
  BY <1>3, <1>4, <1>7, <1>10, <1>13 DEF r, q

(***************************************************************************)
(* Events that are cancelled, discarded or fired leave the queue, and the  *)
(* others keep their order.                                                *)
(***************************************************************************)
LEMMA RemovalInv ==
  ASSUME TypeOK, InOrder, NEW S \in SUBSET ToSet(mQueue), mQueue' = Without(mQueue, S),
         \A e \in Event \ S : fate'[e] = fate[e] /\ realtime_us'[e] = realtime_us[e],
         \A e \in S : fate'[e] \in {"firing", "done"}
  PROVE  /\ mQueue' \in Seq(Event) /\ ToSet(mQueue') = ToSet(mQueue) \ S
         /\ Posted' = Posted /\ InOrder'
<1> DEFINE R == {p \in Event \X Event : Earlier(p[1], p[2])}
           w == mQueue'
<1>1. mQueue \in Seq(Event) /\ \A i \in DOMAIN mQueue : mQueue[i] \in Event
  <2>1. mQueue \in Seq(Event)
    BY DEF TypeOK
  <2> QED
    BY <2>1
<1>2. \A i, j \in DOMAIN mQueue : i < j => <<mQueue[i], mQueue[j]>> \in R
  BY <1>1 DEF InOrder
<1>3. /\ w \in Seq(Event) /\ ToSet(w) = ToSet(mQueue) \ S
      /\ \A i, j \in DOMAIN w : i < j => <<w[i], w[j]>> \in R
  <2>1. LET v == Without(mQueue, S)
        IN /\ v \in Seq(Event) /\ ToSet(v) = ToSet(mQueue) \ S
           /\ \A i, j \in DOMAIN v : i < j => <<v[i], v[j]>> \in R
    <3> HIDE DEF R
    <3> QED
      BY <1>1, <1>2, WithoutFacts
  <2> QED
    BY <2>1
<1>4. S \subseteq Event /\ \A e \in S : fate[e] = "queued"
  BY DEF InOrder
<1>5. Posted' = Posted
  BY <1>4 DEF Posted
<1>6. ToSet(w) = {e \in Event : fate'[e] = "queued"}
  BY <1>3, <1>4 DEF InOrder
<1>7. ASSUME NEW i \in DOMAIN w, NEW j \in DOMAIN w, i < j
      PROVE  \/ realtime_us'[w[i]] < realtime_us'[w[j]]
             \/ realtime_us'[w[i]] = realtime_us'[w[j]] /\ w[i] < w[j]
  <2>1. w[i] \in Event \ S /\ w[j] \in Event \ S
    BY <1>3, <1>4 DEF InOrder, ToSet
  <2>2. Earlier(w[i], w[j])
    BY <1>3, <1>7
  <2> QED
    BY <2>1, <2>2 DEF Earlier
<1> QED
  BY <1>3, <1>5, <1>6, <1>7 DEF InOrder, Earlier
-----------------------------------------------------------------------------
(* Init and the actions *)

LEMMA InitInv == ASSUME Init PROVE IInv
<1>1. TypeOK
  <2>1. <<>> \in Seq(Event) /\ now \in 0 .. MaxTime /\ {event, stopEvent} \subseteq Event \cup {NoEvent}
    BY Bounds DEF Init
  <2>2. realtime_us \in [Event -> Time]
    BY Bounds DEF Init
  <2>3. mWakeLockCount \in 0 .. MaxEvents /\ deaths \in 0 .. MaxDeaths
    BY Bounds DEF Init
  <2> QED
    BY <2>1, <2>2, <2>3 DEF Init, TypeOK
<1>2. ToSet(mQueue) = {}
  BY DEF Init, ToSet
<1>3. Posted = 1 .. 0 /\ 0 \in 0 .. MaxEvents
  BY Bounds DEF Init, Posted
<1>4. InOrder
  BY <1>2, <1>3 DEF Init, InOrder
<1>5. Thread /\ Stopping
  BY DEF Init, Thread, Stopping
<1>6. has_wakelock \subseteq ToSet(mQueue) /\ NoWakeLockLeak
  BY FS_EmptySet DEF Init, NoWakeLockLeak
<1> QED
  BY <1>1, <1>4, <1>5, <1>6 DEF IInv

(***************************************************************************)
(* The events that have the wake lock are finitely many, and one more is   *)
(* one more.                                                               *)
(***************************************************************************)
LEMMA WakeLocks ==
  ASSUME TypeOK
  PROVE  /\ IsFiniteSet(has_wakelock) /\ Cardinality(has_wakelock) \in Nat
         /\ \A e \in Event \ has_wakelock :
              Cardinality(has_wakelock \cup {e}) = Cardinality(has_wakelock) + 1
         /\ \A S : /\ Cardinality(S \cap has_wakelock) \in Nat
                   /\ Cardinality(has_wakelock \ S) = Cardinality(has_wakelock) - Cardinality(S \cap has_wakelock)
<1>1. IsFiniteSet(has_wakelock)
  <2>1. IsFiniteSet(Event)
    BY Bounds, FS_Interval DEF Event
  <2> QED
    BY <2>1, FS_Subset DEF TypeOK
<1>2. ASSUME NEW S
      PROVE  /\ Cardinality(S \cap has_wakelock) \in Nat
             /\ Cardinality(has_wakelock \ S) = Cardinality(has_wakelock) - Cardinality(S \cap has_wakelock)
  <2>1. S \cap has_wakelock = has_wakelock \cap S
    OBVIOUS
  <2>2. IsFiniteSet(has_wakelock \cap S)
    BY <1>1, FS_Subset
  <2> QED
    BY <1>1, <2>1, <2>2, FS_CardinalityType, FS_Difference
<1> QED
  BY <1>1, <1>2, FS_CardinalityType, FS_AddElement

(***************************************************************************)
(* A post finds room in the count of the wake lock: every event that is    *)
(* counted is in the queue, or has been fired.                             *)
(***************************************************************************)
LEMMA CountHasRoom ==
  ASSUME IInv, NEW e \in Event, fate[e] = "new"
  PROVE  mWakeLockCount + 1 \in 0 .. MaxEvents
<1> DEFINE S == has_wakelock \cup {e}
<1>1. mWakeLockCount \in Nat
  BY Bounds DEF IInv, TypeOK
<1>2. /\ IsFiniteSet(has_wakelock) /\ Cardinality(has_wakelock) \in Nat
      /\ e \notin has_wakelock /\ has_wakelock \subseteq Event
      /\ \A d \in has_wakelock : fate[d] = "queued"
  BY WakeLocks DEF IInv, InOrder, TypeOK
<1>3. IsFiniteSet(S) /\ Cardinality(S) = Cardinality(has_wakelock) + 1
  BY <1>2, FS_AddElement
<1>4. \A T \in SUBSET Event : Cardinality(T) <= MaxEvents
  <2>1. IsFiniteSet(Event) /\ Cardinality(Event) = MaxEvents
    BY Bounds, FS_Interval DEF Event
  <2> QED
    BY <2>1, FS_Subset
<1>5. CASE wakeLocked
  <2>1. PICK d \in Event : fate[d] \in {"firing", "done"}
    BY <1>5, Bounds DEF IInv, Thread, Posted
  <2>2. Cardinality(S \cup {d}) = Cardinality(has_wakelock) + 2
    <3>1. d \notin S
      BY <1>2, <2>1
    <3> HIDE DEF S
    <3>2. Cardinality(S \cup {d}) = Cardinality(S) + 1
      BY <1>3, <3>1, FS_AddElement
    <3> QED
      BY <1>2, <1>3, <3>2
  <2>3. Cardinality(has_wakelock) + 2 <= MaxEvents
    BY <1>2, <1>4, <2>2
  <2> QED
    BY <1>1, <1>2, <1>5, <2>3, Bounds DEF IInv, NoWakeLockLeak
<1>6. CASE ~wakeLocked
  <2>1. Cardinality(has_wakelock) + 1 <= MaxEvents
    BY <1>2, <1>3, <1>4
  <2> QED
    BY <1>1, <1>2, <1>6, <2>1, Bounds DEF IInv, NoWakeLockLeak
<1> QED
  BY <1>5, <1>6

LEMMA postTimedEventInv ==
  ASSUME IInv, NEW e \in Event, NEW when \in Time, postTimedEvent(e, when),
         {mRunning', flush'} \subseteq BOOLEAN, stopEvent' \in Event \cup {NoEvent}
  PROVE  /\ e \notin Posted /\ Posted' = Posted \cup {e} /\ \A f \in Posted : f < e
         /\ TypeOK' /\ InOrder' /\ Thread'
         /\ has_wakelock' \subseteq ToSet(mQueue') /\ NoWakeLockLeak'
<1>0. TypeOK /\ InOrder /\ Thread
  BY DEF IInv
<1>1. /\ e \notin Posted /\ Posted' = Posted \cup {e} /\ \A f \in Posted : f < e
      /\ mQueue' \in Seq(Event) /\ ToSet(mQueue') = ToSet(mQueue) \cup {e}
      /\ InOrder'
  <2>1. /\ e = Cardinality(Posted) + 1
        /\ fate' = [fate EXCEPT ![e] = "queued"] /\ realtime_us' = [realtime_us EXCEPT ![e] = when]
        /\ mQueue' = InsertAt(mQueue, Place(when), e)
    BY DEF postTimedEvent
  <2> QED
    BY <1>0, <2>1, InsertionInv
<1>2. fate[e] = "new"
  BY <1>1 DEF Posted
<1>3. /\ UNCHANGED <<now, deaths, mStopped, event, wakeLocked>>
      /\ fate' = [fate EXCEPT ![e] = "queued"] /\ realtime_us' = [realtime_us EXCEPT ![e] = when]
      /\ tpc' = Signalled(Place(when) = 1, TRUE)
  BY DEF postTimedEvent
<1>4. \/ UNCHANGED <<has_wakelock, mWakeLockCount>>
      \/ has_wakelock' = has_wakelock \cup {e} /\ mWakeLockCount' \in {0, mWakeLockCount + 1}
  BY DEF postTimedEvent, acquireWakeLock_l
<1>5. TypeOK'
  <2>1. mWakeLockCount' \in 0 .. MaxEvents
    BY <1>0, <1>2, <1>4, CountHasRoom, Bounds DEF TypeOK
  <2>2. realtime_us' \in [Event -> Time] /\ has_wakelock' \subseteq Event
        /\ fate' \in [Event -> {"new", "queued", "firing", "done"}]
    BY <1>0, <1>3, <1>4 DEF TypeOK
  <2>3. tpc' \in {"none", "top", "empty", "check", "timed", "head", "expired", "fire", "release"}
    BY <1>0, <1>3 DEF TypeOK, Signalled
  <2> QED
    BY <1>0, <1>1, <1>3, <2>1, <2>2, <2>3 DEF TypeOK
<1>6. Thread'
  <2>1. \/ tpc' = tpc \/ (tpc = "timed" /\ tpc' = "head") \/ (tpc = "empty" /\ tpc' = "check")
    BY <1>3 DEF Signalled
  <2>2. event' \in Posted => event' \in Posted' /\ event' # e
    BY <1>1
  <2>3. tpc' = "expired" => Due(event)'
    BY <1>0, <1>3, <2>1, <2>2 DEF TypeOK, Thread, Due, Posted
  <2>4. tpc' = "fire" => fate'[event'] = "firing"
    <3>1. SUFFICES ASSUME tpc' = "fire" PROVE fate'[event'] = "firing"
      OBVIOUS
    <3>2. event \in Posted /\ fate[event] = "firing" /\ event' = event
      BY <1>0, <1>3, <2>1, <3>1 DEF Thread
    <3>3. event \in Event /\ event # e
      BY <1>1, <3>2 DEF Posted
    <3> QED
      BY <1>0, <1>3, <3>2, <3>3 DEF TypeOK
  <2>5. tpc' = "release" => \E d \in Event : fate'[d] = "done"
    BY <1>0, <1>2, <1>3, <2>1 DEF TypeOK, Thread
  <2> QED
    BY <1>0, <1>3, <2>1, <2>2, <2>3, <2>4, <2>5 DEF Thread
<1>7. has_wakelock' \subseteq ToSet(mQueue')
  BY <1>1, <1>4 DEF IInv
<1>8. NoWakeLockLeak'
  <2>1. mWakeLockCount \in Nat /\ wakeLocked' = wakeLocked
        /\ mWakeLockCount <= Cardinality(has_wakelock) + (IF wakeLocked THEN 1 ELSE 0)
    BY <1>0, <1>3, Bounds DEF IInv, TypeOK, NoWakeLockLeak
  <2>2. e \in Event \ has_wakelock
    BY <1>0, <1>2 DEF IInv, InOrder
  <2>3. /\ Cardinality(has_wakelock) \in Nat
        /\ Cardinality(has_wakelock \cup {e}) = Cardinality(has_wakelock) + 1
    BY <1>0, <2>2, WakeLocks
  <2> DEFINE b == IF wakeLocked THEN 1 ELSE 0
  <2>4. b \in Nat /\ mWakeLockCount <= Cardinality(has_wakelock) + b
    BY <2>1
  <2> HIDE DEF b
  <2>5. mWakeLockCount' <= Cardinality(has_wakelock') + b
    <3>1. CASE UNCHANGED <<has_wakelock, mWakeLockCount>>
      BY <2>4, <3>1
    <3>2. CASE has_wakelock' = has_wakelock \cup {e} /\ mWakeLockCount' \in {0, mWakeLockCount + 1}
      <4>1. Cardinality(has_wakelock') = Cardinality(has_wakelock) + 1
        BY <2>3, <3>2
      <4>2. mWakeLockCount' = 0 \/ mWakeLockCount' = mWakeLockCount + 1
        BY <3>2
      <4> QED
        BY <2>1, <2>3, <2>4, <4>1, <4>2
    <3> QED
      BY <1>4, <3>1, <3>2
  <2> QED
    BY <2>1, <2>5 DEF NoWakeLockLeak, b
<1> QED
  BY <1>1, <1>5, <1>6, <1>7, <1>8

LEMMA PostInv == ASSUME IInv, NEW e \in Event, NEW when \in Time, Post(e, when) PROVE IInv'
<1>1. postTimedEvent(e, when) /\ UNCHANGED <<mRunning, flush, stopEvent, mStopped, event>>
  BY DEF Post, postTimedEvent, ownerVars
<1>2. TypeOK /\ Stopping
  BY DEF IInv
<1>3. /\ e \notin Posted /\ Posted' = Posted \cup {e} /\ \A f \in Posted : f < e
      /\ TypeOK' /\ InOrder' /\ Thread'
      /\ has_wakelock' \subseteq ToSet(mQueue') /\ NoWakeLockLeak'
  BY <1>1, <1>2, postTimedEventInv DEF TypeOK
<1>4. \/ tpc' = tpc \/ (tpc = "timed" /\ tpc' = "head") \/ (tpc = "empty" /\ tpc' = "check")
  BY <1>1 DEF postTimedEvent, Signalled
<1>5. \A f \in Posted : f # e /\ fate'[f] = fate[f] /\ realtime_us'[f] = realtime_us[f]
  BY <1>1, <1>2, <1>3 DEF postTimedEvent, TypeOK, Posted
<1>6. stopEvent # NoEvent => stopEvent \in Posted /\ stopEvent < e
  BY <1>2, <1>3 DEF Stopping
<1>7. stopEvent # NoEvent => \A f \in 1 .. stopEvent : f # e /\ f \in Event /\ fate'[f] = fate[f]
  <2>1. SUFFICES ASSUME stopEvent # NoEvent, NEW f \in 1 .. stopEvent
                 PROVE  f # e /\ f \in Event /\ fate'[f] = fate[f]
    OBVIOUS
  <2>2. stopEvent \in Event /\ stopEvent < e /\ e \in Nat /\ stopEvent \in Nat
    BY <1>6, <2>1, Bounds DEF Posted
  <2>3. f # e /\ f \in Event
    BY <2>2, Bounds DEF Event
  <2> QED
    BY <1>1, <1>2, <2>3 DEF postTimedEvent, TypeOK
<1>8. Stopping'
  BY <1>1, <1>2, <1>3, <1>4, <1>5, <1>6, <1>7 DEF Stopping
<1> QED
  BY <1>3, <1>8 DEF IInv

LEMMA stopInv == ASSUME IInv, NEW e \in Event, NEW flushes \in BOOLEAN, stop(e, flushes) PROVE IInv'
<1> DEFINE when == IF flushes THEN AtBack ELSE AtOnce
<1>1. /\ mRunning /\ stopEvent = NoEvent
      /\ postTimedEvent(e, when)
      /\ stopEvent' = e /\ flush' = flushes /\ mRunning' = mRunning
      /\ UNCHANGED <<mStopped, event>>
  BY DEF stop, postTimedEvent
<1>2. TypeOK /\ Stopping /\ Thread /\ when \in Time
  BY Bounds DEF IInv
<1>3. /\ e \notin Posted /\ Posted' = Posted \cup {e} /\ \A f \in Posted : f < e
      /\ TypeOK' /\ InOrder' /\ Thread'
      /\ has_wakelock' \subseteq ToSet(mQueue') /\ NoWakeLockLeak'
  BY <1>1, <1>2, postTimedEventInv DEF TypeOK
<1>4. \/ tpc' = tpc \/ (tpc = "timed" /\ tpc' = "head") \/ (tpc = "empty" /\ tpc' = "check")
  BY <1>1 DEF postTimedEvent, Signalled
<1>5. fate'[e] = "queued" /\ realtime_us'[e] = when
  BY <1>1, <1>2 DEF postTimedEvent, TypeOK
<1>6. tpc \in {"timed", "head", "expired"} => event # e
  BY <1>2, <1>3 DEF Thread
<1>7. ~mStopped /\ tpc # "none"
  BY <1>1, <1>2 DEF Stopping
<1>8. Stopping'
  BY <1>1, <1>3, <1>4, <1>5, <1>6, <1>7, Bounds DEF Stopping
<1> QED
  BY <1>3, <1>8 DEF IInv

LEMMA MaxFacts == ASSUME NEW n \in Int PROVE Max({n, 0}) = IF n >= 0 THEN n ELSE 0
<1> DEFINE m == IF n >= 0 THEN n ELSE 0
<1>1. m \in {n, 0} /\ \A y \in {n, 0} : m >= y
  OBVIOUS
<1>2. ASSUME NEW x \in {n, 0}, \A y \in {n, 0} : x >= y PROVE x = m
  BY <1>2
<1>3. Max({n, 0}) = CHOOSE x \in {n, 0} : \A y \in {n, 0} : x >= y
  BY DEF Max
<1> HIDE DEF m
<1>4. Max({n, 0}) = m
  BY <1>1, <1>2, <1>3
<1> QED
  BY <1>4 DEF m

LEMMA TickInv == ASSUME IInv, Tick PROVE IInv'
<1>1. TypeOK' /\ \A e \in Event : Due(e) => Due(e)'
  <2>1. now \in Int /\ now' = now + 1 /\ now' \in 0 .. MaxTime /\ realtime_us' = realtime_us
    BY Bounds DEF IInv, TypeOK, Tick, queueVars
  <2>2. TypeOK'
    BY <2>1 DEF IInv, TypeOK, Tick, queueVars, threadVars, ownerVars
  <2>3. \A e \in Event : realtime_us[e] \in Int
    BY Bounds DEF IInv, TypeOK
  <2>4. ASSUME NEW e \in Event, Due(e) PROVE Due(e)'
    BY <2>1, <2>3, <2>4 DEF Due
  <2> QED
    BY <2>2, <2>4
<1>2. InOrder'
  BY DEF IInv, InOrder, Earlier, Posted, Tick, queueVars
<1>3. Thread' /\ Stopping'
  BY <1>1 DEF IInv, Thread, Stopping, Posted, Tick, queueVars, threadVars, ownerVars
<1> QED
  BY <1>1, <1>2, <1>3 DEF IInv, NoWakeLockLeak, Tick, queueVars, threadVars

LEMMA BinderDiedInv == ASSUME IInv, BinderDied PROVE IInv'
<1>1. TypeOK'
  BY Bounds DEF IInv, TypeOK, BinderDied, threadVars, ownerVars
<1>2. InOrder'
  BY DEF IInv, InOrder, Earlier, Posted, BinderDied
<1>3. Thread' /\ Stopping'
  BY DEF IInv, Thread, Stopping, Posted, Due, BinderDied, threadVars, ownerVars
<1>4. NoWakeLockLeak'
  BY WakeLocks DEF IInv, NoWakeLockLeak, BinderDied, threadVars
<1> QED
  BY <1>1, <1>2, <1>3, <1>4 DEF IInv, BinderDied

LEMMA cancelEventsInv == ASSUME IInv, NEW S \in SUBSET Event, cancelEvents(S) PROVE IInv'
<1>0. TypeOK /\ InOrder /\ Thread /\ Stopping /\ NoWakeLockLeak
  BY DEF IInv
<1>1. /\ S \subseteq ToSet(mQueue) /\ stopEvent \notin S
      /\ fate' = [e \in Event |-> IF e \in S THEN "done" ELSE fate[e]]
      /\ realtime_us' = [e \in Event |-> IF e \in S THEN AtOnce ELSE realtime_us[e]]
      /\ mQueue' = Without(mQueue, S) /\ has_wakelock' = has_wakelock \ S
      /\ tpc' = Signalled(mQueue[1] \in S, FALSE)
      /\ mWakeLockCount' = Max({mWakeLockCount - Cardinality(S \cap has_wakelock), 0})
      /\ UNCHANGED <<now, deaths, mStopped, event, wakeLocked, mRunning, flush, stopEvent>>
  BY DEF cancelEvents, Done, releaseWakeLock_l, ownerVars
<1>2. /\ mQueue' \in Seq(Event) /\ ToSet(mQueue') = ToSet(mQueue) \ S
      /\ Posted' = Posted /\ InOrder'
  BY <1>0, <1>1, RemovalInv
<1>3. \A e \in S : fate[e] = "queued"
  BY <1>0, <1>1 DEF InOrder
<1>4. /\ Cardinality(S \cap has_wakelock) \in Nat /\ Cardinality(has_wakelock) \in Nat
      /\ Cardinality(has_wakelock') = Cardinality(has_wakelock) - Cardinality(S \cap has_wakelock)
  BY <1>0, <1>1, WakeLocks
<1>5. mWakeLockCount \in Nat /\ mWakeLockCount <= MaxEvents
  BY <1>0, Bounds DEF TypeOK
<1>6. \/ mWakeLockCount' = mWakeLockCount - Cardinality(S \cap has_wakelock) /\ mWakeLockCount' >= 0
      \/ mWakeLockCount' = 0
  <2>1. mWakeLockCount - Cardinality(S \cap has_wakelock) \in Int
    BY <1>4, <1>5
  <2> QED
    BY <1>1, <2>1, MaxFacts
<1>7. TypeOK'
  <2>1. mWakeLockCount' \in 0 .. MaxEvents
    BY <1>4, <1>5, <1>6, Bounds
  <2>2. realtime_us' \in [Event -> Time] /\ has_wakelock' \subseteq Event
        /\ fate' \in [Event -> {"new", "queued", "firing", "done"}]
    BY <1>0, <1>1, Bounds DEF TypeOK
  <2>3. tpc' \in {"none", "top", "empty", "check", "timed", "head", "expired", "fire", "release"}
    BY <1>0, <1>1 DEF TypeOK, Signalled
  <2> QED
    BY <1>0, <1>1, <1>2, <2>1, <2>2, <2>3 DEF TypeOK
<1>8. tpc' = tpc \/ (tpc = "timed" /\ tpc' = "head")
  BY <1>1 DEF Signalled
<1>9. Thread'
  <2>1. tpc = "expired" => Due(event)'
    <3>1. SUFFICES ASSUME tpc = "expired" PROVE Due(event)'
      OBVIOUS
    <3>2. event \in Event /\ Due(event)
      BY <1>0, <3>1 DEF Thread, Posted
    <3>3. realtime_us'[event] = realtime_us[event] \/ realtime_us'[event] = AtOnce
      BY <1>1, <3>2
    <3> QED
      BY <1>1, <3>2, <3>3 DEF Due, AtOnce
  <2>2. tpc = "fire" => fate'[event] = "firing"
    BY <1>0, <1>1, <1>3 DEF Thread, Posted
  <2>3. tpc = "release" => \E e \in Event : fate'[e] = "done"
    BY <1>0, <1>1 DEF Thread
  <2> QED
    BY <1>0, <1>1, <1>2, <1>8, <2>1, <2>2, <2>3 DEF Thread
<1>10. Stopping'
  <2>1. stopEvent # NoEvent =>
          /\ stopEvent \in Event
          /\ fate'[stopEvent] = fate[stopEvent] /\ realtime_us'[stopEvent] = realtime_us[stopEvent]
    BY <1>0, <1>1 DEF TypeOK
  <2>2. \A e \in Event : fate[e] # "queued" => fate'[e] # "queued"
    BY <1>1
  <2>3. stopEvent \in Event => 1 .. stopEvent \subseteq Event
    BY Bounds DEF Event
  <2> QED
    BY <1>0, <1>1, <1>2, <1>8, <2>1, <2>2, <2>3 DEF Stopping
<1>11. has_wakelock' \subseteq ToSet(mQueue')
  BY <1>1, <1>2 DEF IInv
<1>12. NoWakeLockLeak'
  <2> DEFINE b == IF wakeLocked THEN 1 ELSE 0
  <2>1. b \in Nat /\ mWakeLockCount <= Cardinality(has_wakelock) + b
    BY <1>0 DEF NoWakeLockLeak
  <2> HIDE DEF b
  <2>2. Cardinality(has_wakelock') \in Nat
    <3>1. IsFiniteSet(has_wakelock) /\ has_wakelock' \subseteq has_wakelock
      BY <1>0, <1>1, WakeLocks
    <3> QED
      BY <3>1, FS_Subset, FS_CardinalityType
  <2>3. mWakeLockCount' <= Cardinality(has_wakelock') + b
    BY <1>4, <1>5, <1>6, <2>1, <2>2
  <2> QED
    BY <1>1, <2>3 DEF NoWakeLockLeak, b
<1> QED
  BY <1>2, <1>7, <1>9, <1>10, <1>11, <1>12 DEF IInv

LEMMA startInv == ASSUME IInv, start PROVE IInv'
<1>1. TypeOK'
  BY DEF IInv, TypeOK, start, queueVars
<1>2. InOrder'
  BY DEF IInv, InOrder, Earlier, Posted, start, queueVars
<1>3. tpc = "none" /\ stopEvent = NoEvent
  BY DEF IInv, Stopping, start
<1>4. Thread' /\ Stopping'
  BY <1>3 DEF IInv, Thread, Stopping, start
<1> QED
  BY <1>1, <1>2, <1>4 DEF IInv, NoWakeLockLeak, start, queueVars

LEMMA JoinedInv == ASSUME IInv, Joined PROVE IInv'
<1>0. TypeOK /\ InOrder /\ Thread
  BY DEF IInv
<1>1. /\ fate' = [e \in Event |-> IF e \in ToSet(mQueue) THEN "done" ELSE fate[e]]
      /\ realtime_us' = [e \in Event |-> IF e \in ToSet(mQueue) THEN AtOnce ELSE realtime_us[e]]
      /\ mWakeLockCount' = 0 /\ mQueue' = <<>> /\ has_wakelock' = {}
      /\ mRunning' = FALSE /\ stopEvent' = NoEvent /\ flush' = FALSE
      /\ tpc = "none" /\ UNCHANGED <<now, deaths, mStopped, tpc, event, wakeLocked>>
  BY DEF Joined, Done, threadVars
<1>2. TypeOK'
  <2>1. realtime_us' \in [Event -> Time] /\ fate' \in [Event -> {"new", "queued", "firing", "done"}]
    BY <1>0, <1>1, Bounds DEF TypeOK
  <2>2. mQueue' \in Seq(Event) /\ mWakeLockCount' \in 0 .. MaxEvents
    BY <1>1, Bounds
  <2> QED
    BY <1>0, <1>1, <2>1, <2>2 DEF TypeOK
<1>3. InOrder'
  <2>1. Posted' = Posted
    BY <1>0, <1>1 DEF Posted, InOrder
  <2>2. ToSet(mQueue') = {} /\ DOMAIN mQueue' = {}
    BY <1>1 DEF ToSet
  <2>3. {e \in Event : fate'[e] = "queued"} = {}
    BY <1>0, <1>1 DEF InOrder
  <2> QED
    BY <1>0, <2>1, <2>2, <2>3 DEF InOrder
<1>4. Thread' /\ Stopping'
  BY <1>0, <1>1 DEF Thread, Stopping
<1>5. has_wakelock' \subseteq ToSet(mQueue') /\ NoWakeLockLeak'
  BY <1>1, FS_EmptySet DEF NoWakeLockLeak
<1> QED
  BY <1>2, <1>3, <1>4, <1>5 DEF IInv

(***************************************************************************)
(* Firing an event: the thread takes the one that it waited for, if it is  *)
(* still there.  A StopEvent that flushes is taken after those posted      *)
(* before it.                                                              *)
(***************************************************************************)
LEMMA removeEventInv ==
  ASSUME IInv, NEW id \in Event, removeEventFromQueue_l(id),
         tpc \in {"top", "check", "head", "expired"},
         UNCHANGED <<now, realtime_us, mWakeLockCount, deaths, mStopped, mRunning, flush, stopEvent>>,
         stopEvent # NoEvent /\ flush /\ id = stopEvent =>
           \A e \in 1 .. stopEvent : e # id => fate[e] # "queued"
  PROVE  IInv'
<1>0. TypeOK /\ InOrder /\ Thread /\ Stopping /\ NoWakeLockLeak
  BY DEF IInv
<1>1. ~wakeLocked
  BY <1>0 DEF Thread
<1>2. CASE id \notin ToSet(mQueue)
  <2>1. /\ tpc' = "top" /\ event' = NoEvent
        /\ UNCHANGED <<wakeLocked, mQueue, has_wakelock, fate>>
    BY <1>2 DEF removeEventFromQueue_l, Contains, Enter, ToSet
  <2>2. TypeOK' /\ InOrder'
    BY <1>0, <2>1 DEF TypeOK, InOrder, Earlier, Posted
  <2>3. Thread' /\ Stopping'
    BY <1>0, <1>1, <2>1 DEF Thread, Stopping, Posted
  <2> QED
    BY <2>1, <2>2, <2>3 DEF IInv, NoWakeLockLeak
<1>3. CASE id \in ToSet(mQueue)
  <2>1. /\ tpc' = "fire" /\ event' = id /\ wakeLocked' = (id \in has_wakelock)
        /\ mQueue' = Without(mQueue, {id}) /\ has_wakelock' = has_wakelock \ {id}
        /\ fate' = [fate EXCEPT ![id] = "firing"]
    <3>1. DOMAIN mQueue = 1 .. Len(mQueue)
      BY <1>0 DEF TypeOK
    <3>2. Contains(mQueue, id)
      BY <1>3, <3>1 DEF Contains, ToSet
    <3> QED
      BY <3>2 DEF removeEventFromQueue_l, Enter
  <2>2. fate'[id] = "firing" /\ \A e \in Event \ {id} : fate'[e] = fate[e]
    BY <1>0, <2>1 DEF TypeOK
  <2>3. /\ mQueue' \in Seq(Event) /\ ToSet(mQueue') = ToSet(mQueue) \ {id}
        /\ Posted' = Posted /\ InOrder'
    <3>1. {id} \in SUBSET ToSet(mQueue) /\ mQueue' = Without(mQueue, {id})
      BY <1>3, <2>1
    <3>2. \A e \in Event \ {id} : fate'[e] = fate[e] /\ realtime_us'[e] = realtime_us[e]
      BY <2>2
    <3>3. \A e \in {id} : fate'[e] \in {"firing", "done"}
      BY <2>2
    <3> QED
      BY <1>0, <3>1, <3>2, <3>3, RemovalInv
  <2>4. fate[id] = "queued" /\ id \in Posted
    BY <1>0, <1>3 DEF InOrder, Posted
  <2>5. TypeOK'
    <3>1. fate' \in [Event -> {"new", "queued", "firing", "done"}] /\ wakeLocked' \in BOOLEAN
      BY <1>0, <2>1 DEF TypeOK
    <3> QED
      BY <1>0, <2>1, <2>3, <3>1 DEF TypeOK
  <2>6. Thread'
    BY <2>1, <2>2, <2>3, <2>4 DEF Thread
  <2>7. Stopping'
    <3>1. stopEvent # NoEvent => stopEvent \in Event /\ 1 .. stopEvent \subseteq Event
      BY <1>0, Bounds DEF TypeOK, Event
    <3>2. stopEvent # NoEvent /\ stopEvent # id => fate'[stopEvent] = fate[stopEvent]
      BY <2>2, <3>1
    <3>3. \A e \in Event : fate[e] # "queued" \/ e = id => fate'[e] # "queued"
      BY <2>2
    <3> QED
      BY <1>0, <2>1, <2>2, <2>3, <2>4, <3>1, <3>2, <3>3 DEF Stopping
  <2>8. NoWakeLockLeak'
    <3>1. mWakeLockCount \in Nat /\ mWakeLockCount <= Cardinality(has_wakelock)
          /\ mWakeLockCount' = mWakeLockCount /\ Cardinality(has_wakelock) \in Nat
      BY <1>0, <1>1, WakeLocks, Bounds DEF TypeOK, NoWakeLockLeak
    <3>2. CASE id \in has_wakelock
      <4>1. Cardinality(has_wakelock') = Cardinality(has_wakelock) - 1
        BY <1>0, <2>1, <3>2, WakeLocks, FS_RemoveElement
      <4>2. mWakeLockCount' <= Cardinality(has_wakelock') + 1
        BY <3>1, <4>1
      <4>3. wakeLocked' = TRUE
        BY <2>1, <3>2
      <4> QED
        BY <4>2, <4>3 DEF NoWakeLockLeak
    <3>3. CASE id \notin has_wakelock
      <4>1. has_wakelock' = has_wakelock
        BY <2>1, <3>3
      <4>2. ~wakeLocked'
        BY <2>1, <3>3
      <4> QED
        BY <3>1, <4>1, <4>2 DEF NoWakeLockLeak
    <3> QED
      BY <3>2, <3>3
  <2> QED
    BY <2>1, <2>3, <2>5, <2>6, <2>7, <2>8 DEF IInv
<1> QED
  BY <1>2, <1>3

\* The head of the queue is a queued event.
LEMMA Head1 ==
  ASSUME TypeOK, InOrder, mQueue # <<>>
  PROVE  /\ mQueue[1] \in Event /\ fate[mQueue[1]] = "queued"
         /\ \A e \in Event : fate[e] = "queued" /\ e # mQueue[1] => Earlier(mQueue[1], e)
<1>1. Len(mQueue) \in Nat /\ DOMAIN mQueue = 1 .. Len(mQueue) /\ 1 \in DOMAIN mQueue
  BY DEF TypeOK
<1>2. mQueue[1] \in ToSet(mQueue)
  BY <1>1 DEF ToSet
<1>3. ASSUME NEW e \in Event, fate[e] = "queued", e # mQueue[1] PROVE Earlier(mQueue[1], e)
  <2>1. PICK j \in DOMAIN mQueue : mQueue[j] = e
    BY <1>3 DEF InOrder, ToSet
  <2>2. 1 < j
    BY <1>1, <1>3, <2>1
  <2> QED
    BY <1>1, <2>1, <2>2 DEF InOrder
<1> QED
  BY <1>2, <1>3 DEF InOrder

LEMMA HeadIsDueInv == ASSUME IInv, HeadIsDue PROVE IInv'
<1>1. TypeOK /\ InOrder /\ Stopping /\ mQueue # <<>>
  BY DEF IInv, HeadIsDue
<1>2. /\ mQueue[1] \in Event /\ fate[mQueue[1]] = "queued"
      /\ \A e \in Event : fate[e] = "queued" /\ e # mQueue[1] => Earlier(mQueue[1], e)
  BY <1>1, Head1
<1>3. ASSUME stopEvent # NoEvent, flush, mQueue[1] = stopEvent, NEW e \in 1 .. stopEvent, e # stopEvent
      PROVE  fate[e] # "queued"
  <2>1. realtime_us[stopEvent] = AtBack /\ stopEvent \in Event /\ AtBack \in Int
    BY <1>1, <1>2, <1>3, Bounds DEF Stopping
  <2>2. e \in Event /\ e < stopEvent
    BY <1>3, <2>1, Bounds DEF Event
  <2>3. realtime_us[e] \in Time
    BY <1>1, <2>2 DEF TypeOK
  <2>4. realtime_us[e] \in Int /\ realtime_us[e] <= AtBack
    BY <2>3, Bounds
  <2>5. e \in Int /\ stopEvent \in Int
    BY <2>1, <2>2, Bounds
  <2> QED
    BY <1>2, <1>3, <2>1, <2>2, <2>4, <2>5 DEF Earlier
<1>4. /\ removeEventFromQueue_l(mQueue[1]) /\ tpc \in {"top", "check", "head", "expired"}
      /\ UNCHANGED <<now, realtime_us, mWakeLockCount, deaths, mStopped, mRunning, flush, stopEvent>>
  BY DEF HeadIsDue, Looking, ownerVars
<1> QED
  BY <1>2, <1>3, <1>4, removeEventInv

LEMMA WaitedForInv == ASSUME IInv, AllCancelled \/ Expired PROVE IInv'
<1>1. /\ tpc \in {"head", "expired"} /\ removeEventFromQueue_l(event)
      /\ UNCHANGED <<now, realtime_us, mWakeLockCount, deaths, mStopped, mRunning, flush, stopEvent>>
  BY DEF AllCancelled, Expired, ownerVars
<1>2. event \in Event /\ (stopEvent # NoEvent /\ flush => event # stopEvent)
  BY <1>1 DEF IInv, Thread, Stopping, Posted
<1> QED
  BY <1>1, <1>2, removeEventInv

LEMMA WaitForHeadInv == ASSUME IInv, WaitForHead PROVE IInv'
<1>0. TypeOK /\ InOrder /\ Thread /\ Stopping
  BY DEF IInv
<1>1. mQueue[1] \in Event /\ fate[mQueue[1]] = "queued"
  BY <1>0, Head1 DEF WaitForHead
<1>2. stopEvent # NoEvent /\ flush => mQueue[1] # stopEvent
  BY <1>0, <1>1 DEF WaitForHead, Due, Stopping
<1>3. /\ tpc \in {"top", "check", "head"} /\ tpc' = "timed" /\ event' = mQueue[1]
      /\ UNCHANGED <<now, mQueue, realtime_us, has_wakelock, fate, mWakeLockCount, deaths>>
      /\ UNCHANGED <<mStopped, wakeLocked, mRunning, flush, stopEvent>>
  BY DEF WaitForHead, Looking, Enter, queueVars, ownerVars
<1>4. TypeOK' /\ InOrder'
  BY <1>0, <1>1, <1>3 DEF TypeOK, InOrder, Earlier, Posted
<1>5. Thread'
  BY <1>0, <1>1, <1>3 DEF Thread, Posted
<1>6. Stopping'
  BY <1>0, <1>2, <1>3 DEF Stopping, Posted
<1> QED
  BY <1>3, <1>4, <1>5, <1>6 DEF IInv, NoWakeLockLeak

LEMMA WaitingInv == ASSUME IInv, Stopped \/ WaitForEvent \/ TimeUp PROVE IInv'
<1>0. TypeOK /\ InOrder /\ Thread /\ Stopping
  BY DEF IInv
<1>1. /\ UNCHANGED <<now, mQueue, realtime_us, has_wakelock, fate, mWakeLockCount, deaths>>
      /\ UNCHANGED <<mStopped, event, wakeLocked, mRunning, flush, stopEvent>>
  BY DEF Stopped, WaitForEvent, TimeUp, queueVars, ownerVars
<1>2. \/ tpc = "top" /\ mStopped /\ tpc' = "none"
      \/ tpc \in {"check", "top"} /\ tpc' = "empty"
      \/ tpc = "timed" /\ Due(event) /\ tpc' = "expired"
  BY DEF Stopped, WaitForEvent, TimeUp, Enter
<1>3. TypeOK' /\ InOrder'
  BY <1>0, <1>1, <1>2 DEF TypeOK, InOrder, Earlier, Posted
<1>4. Thread'
  BY <1>0, <1>1, <1>2 DEF Thread, Posted, Due
<1>5. Stopping'
  BY <1>0, <1>1, <1>2 DEF Stopping, Posted
<1> QED
  BY <1>1, <1>3, <1>4, <1>5 DEF IInv, NoWakeLockLeak

LEMMA FiredInv == ASSUME IInv, Fired PROVE IInv'
<1>0. TypeOK /\ InOrder /\ Thread /\ Stopping
  BY DEF IInv
<1>1. /\ tpc = "fire" /\ tpc' \in {"release", "top"} /\ (tpc' = "release" <=> wakeLocked)
      /\ fate' = [e \in Event |-> IF e \in {event} THEN "done" ELSE fate[e]]
      /\ realtime_us' = [e \in Event |-> IF e \in {event} THEN AtOnce ELSE realtime_us[e]]
      /\ mStopped' = (mStopped \/ event = stopEvent) /\ event' = NoEvent
      /\ UNCHANGED <<now, mQueue, has_wakelock, mWakeLockCount, deaths, wakeLocked, mRunning, flush, stopEvent>>
  BY <1>0 DEF Fired, Done, Enter, ownerVars, TypeOK
<1>2. event \in Event /\ fate[event] = "firing" /\ mRunning
  BY <1>0, <1>1 DEF Thread, Stopping, Posted
<1>3. TypeOK'
  <2>1. realtime_us' \in [Event -> Time] /\ fate' \in [Event -> {"new", "queued", "firing", "done"}]
    BY <1>0, <1>1, Bounds DEF TypeOK
  <2>2. mStopped' \in BOOLEAN
    BY <1>0, <1>1 DEF TypeOK
  <2> QED
    BY <1>0, <1>1, <2>1, <2>2 DEF TypeOK
<1>4. Posted' = Posted
  BY <1>0, <1>1, <1>2 DEF Posted, TypeOK
<1>5. InOrder'
  <2>1. \A i \in DOMAIN mQueue : mQueue[i] \in Event /\ mQueue[i] # event
    BY <1>0, <1>2 DEF InOrder, ToSet
  <2>2. \A i \in DOMAIN mQueue : realtime_us'[mQueue[i]] = realtime_us[mQueue[i]]
    BY <1>1, <2>1
  <2>3. {e \in Event : fate'[e] = "queued"} = {e \in Event : fate[e] = "queued"}
    BY <1>1, <1>2
  <2> QED
    BY <1>0, <1>1, <1>4, <2>2, <2>3 DEF InOrder, Earlier
<1>6. fate'[event] = "done" /\ \A e \in Event : e # event => fate'[e] = fate[e] /\ realtime_us'[e] = realtime_us[e]
  BY <1>1, <1>2
<1>7. Thread'
  BY <1>0, <1>1, <1>2, <1>4, <1>6 DEF Thread
<1>8. Stopping'
  <2>1. stopEvent # NoEvent => stopEvent \in Event /\ 1 .. stopEvent \subseteq Event
    BY <1>0, Bounds DEF TypeOK, Event
  <2>2. event # NoEvent
    BY <1>2, Bounds
  <2>3. \A e \in Event : fate[e] # "queued" => fate'[e] # "queued"
    BY <1>6
  <2>4. stopEvent # NoEvent /\ fate[stopEvent] = "done" => fate'[stopEvent] = "done"
    BY <1>6, <2>1
  <2>5. stopEvent # NoEvent /\ fate'[stopEvent] = "queued" =>
          fate[stopEvent] = "queued" /\ realtime_us'[stopEvent] = realtime_us[stopEvent]
    BY <1>6, <2>1
  <2>6. stopEvent # NoEvent /\ fate'[stopEvent] # "queued" => fate[stopEvent] # "queued"
    BY <1>2, <1>6, <2>1
  <2>7. mRunning' /\ mStopped' => stopEvent' # NoEvent /\ fate'[stopEvent'] = "done"
    BY <1>0, <1>1, <1>6, <2>2, <2>4 DEF Stopping
  <2>8. stopEvent' # NoEvent => mRunning' /\ stopEvent' \in Posted'
    BY <1>0, <1>1, <1>2, <1>4 DEF Stopping
  <2>9. stopEvent # NoEvent /\ flush /\ fate'[stopEvent] # "queued" =>
          \A e \in 1 .. stopEvent : fate'[e] # "queued"
    BY <1>0, <2>1, <2>3, <2>6 DEF Stopping
  <2>10. stopEvent # NoEvent /\ flush /\ fate'[stopEvent] = "queued" => realtime_us'[stopEvent] = AtBack
    BY <1>0, <2>5 DEF Stopping
  <2> QED
    BY <1>1, <1>2, <2>7, <2>8, <2>9, <2>10 DEF Stopping
<1> QED
  BY <1>1, <1>3, <1>5, <1>7, <1>8 DEF IInv, NoWakeLockLeak

LEMMA ReleaseInv == ASSUME IInv, Release PROVE IInv'
<1>0. TypeOK /\ InOrder /\ Thread /\ Stopping /\ NoWakeLockLeak
  BY DEF IInv
<1>1. /\ tpc = "release" /\ tpc' = "top" /\ wakeLocked' = FALSE
      /\ mWakeLockCount' = Max({mWakeLockCount - 1, 0})
      /\ UNCHANGED <<now, mQueue, realtime_us, has_wakelock, fate, deaths, mStopped, event>>
      /\ UNCHANGED <<mRunning, flush, stopEvent>>
  BY DEF Release, Enter, releaseWakeLock_l, ownerVars
<1>2. mWakeLockCount \in 0 .. MaxEvents /\ Cardinality(has_wakelock) \in Nat
  BY <1>0, WakeLocks DEF TypeOK
<1>3. mWakeLockCount' \in 0 .. MaxEvents /\ (mWakeLockCount' = 0 \/ mWakeLockCount' = mWakeLockCount - 1)
  <2>1. mWakeLockCount - 1 \in Int
    BY <1>2, Bounds
  <2> QED
    BY <1>1, <1>2, <2>1, MaxFacts, Bounds
<1>4. TypeOK' /\ InOrder'
  BY <1>0, <1>1, <1>3 DEF TypeOK, InOrder, Earlier, Posted
<1>5. Thread' /\ Stopping'
  BY <1>0, <1>1 DEF Thread, Stopping, Posted
<1>6. NoWakeLockLeak'
  <2>1. mWakeLockCount <= Cardinality(has_wakelock) + 1
    <3>1. CASE wakeLocked
      BY <1>0, <3>1 DEF NoWakeLockLeak
    <3>2. CASE ~wakeLocked
      BY <1>0, <1>2, <3>2, Bounds DEF NoWakeLockLeak
    <3> QED
      BY <3>1, <3>2
  <2>2. mWakeLockCount' <= Cardinality(has_wakelock)
    BY <1>2, <1>3, <2>1, Bounds
  <2> QED
    BY <1>1, <1>2, <2>2 DEF NoWakeLockLeak
<1> QED
  BY <1>1, <1>4, <1>5, <1>6 DEF IInv

LEMMA NextInv == ASSUME IInv, [Next]_vars PROVE IInv'
<1>1. CASE UNCHANGED vars
  BY <1>1 DEF vars, queueVars, threadVars, ownerVars, IInv, TypeOK, InOrder, Earlier, Thread, Stopping,
              NoWakeLockLeak, Posted, Due
<1>2. ASSUME NEW e \in Event, NEW when \in Time, Post(e, when) PROVE IInv'
  BY <1>2, PostInv
<1>3. ASSUME NEW e \in Event, NEW flushes \in BOOLEAN, stop(e, flushes) PROVE IInv'
  BY <1>3, stopInv
<1>4. ASSUME NEW S \in SUBSET Event, cancelEvents(S) PROVE IInv'
  BY <1>4, cancelEventsInv
<1> QED
  BY <1>1, <1>2, <1>3, <1>4, TickInv, BinderDiedInv, startInv, JoinedInv, HeadIsDueInv, WaitedForInv,
     WaitForHeadInv, WaitingInv, FiredInv, ReleaseInv DEF Next, Client, threadEntry
-----------------------------------------------------------------------------
(* What follows *)

(***************************************************************************)
(* The queue holds the events in the order of their times and posts, the   *)
(* thread's event is one of them or has been cancelled, and a stop that    *)
(* flushes is behind what was posted before it.                            *)
(***************************************************************************)
THEOREM Invariant == Spec => []IInv
<1>1. Init => IInv
  BY InitInv
<1>2. IInv /\ [Next]_vars => IInv'
  BY NextInv
<1> QED
  BY <1>1, <1>2, PTL DEF Spec

(***************************************************************************)
(* The queue, the wake locks and the thread keep their types: the count    *)
(* and the numbers of the events stay within the number of posts.          *)
(***************************************************************************)
THEOREM TypeCorrect == Spec => []TypeOK
<1>1. IInv => TypeOK
  BY DEF IInv
<1> QED
  BY <1>1, Invariant, PTL

(***************************************************************************)
(* stop(true) returns once all pending events have been handled.           *)
(***************************************************************************)
THEOREM FlushHandlesAllHolds == Spec => []FlushHandlesAll
<1>1. IInv => FlushHandlesAll
  <2>1. SUFFICES ASSUME IInv, stopEvent # NoEvent, flush, tpc = "none"
                 PROVE  \A e \in 1 .. stopEvent : fate[e] # "queued"
    BY DEF FlushHandlesAll
  <2>2. fate[stopEvent] = "done"
    BY <2>1 DEF IInv, Stopping
  <2> QED
    BY <2>1, <2>2 DEF IInv, Stopping
<1> QED
  BY <1>1, Invariant, PTL

(***************************************************************************)
(* The wake lock is held for no more than the events that are far away and *)
(* the one that is fired, however often the power manager refuses or dies. *)
(***************************************************************************)
THEOREM NoWakeLockLeakHolds == Spec => []NoWakeLockLeak
<1>1. IInv => NoWakeLockLeak
  BY DEF IInv
<1> QED
  BY <1>1, Invariant, PTL

(***************************************************************************)
(* The thread fires an event when it is due and has not been cancelled,    *)
(* whatever is posted and cancelled while it waits.                        *)
(***************************************************************************)
THEOREM FiresWhenDueHolds == Spec => FiresWhenDue
<1> DEFINE Fires(e) == fate'[e] = "firing" /\ fate[e] # "firing" => fate[e] = "queued" /\ Due(e)
<1>1. ASSUME IInv, [Next]_vars, NEW e \in Event PROVE Fires(e)
  <2>0. TypeOK /\ InOrder /\ Thread
    BY <1>1 DEF IInv
  <2>1. ASSUME NEW id \in Event, Due(id), removeEventFromQueue_l(id) PROVE Fires(e)
    <3>1. UNCHANGED fate \/ (id \in ToSet(mQueue) /\ fate' = [fate EXCEPT ![id] = "firing"])
      <4>1. DOMAIN mQueue = 1 .. Len(mQueue)
        BY <2>0 DEF TypeOK
      <4> QED
        BY <2>1, <4>1 DEF removeEventFromQueue_l, Contains, ToSet
    <3>2. id \in ToSet(mQueue) => fate[id] = "queued"
      BY <2>0 DEF InOrder
    <3>3. e # id => UNCHANGED fate \/ fate'[e] = fate[e]
      BY <2>0, <3>1 DEF TypeOK
    <3> QED
      BY <2>1, <3>1, <3>2, <3>3
  <2>2. CASE HeadIsDue
    <3>1. mQueue[1] \in Event /\ Due(mQueue[1]) /\ removeEventFromQueue_l(mQueue[1])
      BY <2>0, <2>2, Head1 DEF HeadIsDue
    <3> HIDE DEF Fires
    <3> QED
      BY <2>1, <3>1
  <2>3. CASE Expired
    <3>1. event \in Event /\ Due(event) /\ removeEventFromQueue_l(event)
      BY <2>0, <2>3 DEF Expired, Thread, Posted
    <3> HIDE DEF Fires
    <3> QED
      BY <2>1, <3>1
  <2>4. CASE AllCancelled
    <3>1. fate' = fate
      BY <2>4 DEF AllCancelled, removeEventFromQueue_l, Contains
    <3> QED
      BY <3>1
  <2>5. ASSUME NEW f \in Event, NEW when, postTimedEvent(f, when) PROVE Fires(e)
    BY <2>0, <2>5 DEF postTimedEvent, TypeOK
  <2>6. ASSUME NEW S, Done(S) PROVE Fires(e)
    BY <2>6 DEF Done
  <2>7. ASSUME UNCHANGED fate PROVE Fires(e)
    BY <2>7
  <2> HIDE DEF Fires
  <2>8. CASE Client
    BY <2>5, <2>6, <2>7, <2>8 DEF Client, Post, stop, cancelEvents, start, queueVars
  <2>9. CASE Joined \/ Fired
    BY <2>6, <2>9 DEF Joined, Fired
  <2>10. CASE Tick \/ BinderDied \/ Stopped \/ WaitForEvent \/ WaitForHead \/ TimeUp \/ Release \/ UNCHANGED vars
    BY <2>7, <2>10 DEF Tick, BinderDied, Stopped, WaitForEvent, WaitForHead, TimeUp, Release, vars, queueVars
  <2> QED
    BY <1>1, <2>2, <2>3, <2>4, <2>8, <2>9, <2>10 DEF Next, threadEntry
<1>2. IInv /\ [Next]_vars => \A e \in Event : Fires(e)
  <2> HIDE DEF Fires
  <2> QED
    BY <1>1
<1> QED
  BY <1>2, Invariant, PTL DEF Spec, FiresWhenDue
=============================================================================
