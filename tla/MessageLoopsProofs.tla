-------------------------- MODULE MessageLoopsProofs --------------------------
(***************************************************************************)
(* Proofs about MessageLoops for every set of loopers, handlers and        *)
(* threads, and any number of messages.                                    *)
(***************************************************************************)
EXTENDS MessageLoops, FiniteSetTheorems, SequenceTheorems, WellFoundedInduction, TLAPS

\* The numbers in q are in the order of their times, and then of the numbers.
Ordered(q, t) ==
  \A i, j \in DOMAIN q : i < j => t[q[i]] < t[q[j]] \/ (t[q[i]] = t[q[j]] /\ q[i] < q[j])

\* The queue of a looper holds its queued messages, by their times and then by their
\* numbers, which are in the order of the posts.
Times == [m \in Message |-> event[m].whenUs]
InOrder ==
  /\ \A l \in Looper :
       /\ Ordered(mEventQueue[l], Times)
       /\ ToSet(mEventQueue[l]) = {m \in Message : state[m] = "queued" /\ LooperOf[event[m].target] = l}
  /\ \A m \in Message : state[m] = "queued" => event[m].target \in Handler
  /\ \E n \in Message \cup {NoMessage} : Posted = 1 .. n

\* In a handler.
Handling == {"handling", "asleep", "woken", "stopping", "join"}

\* A looper's thread has a message of its own while it delivers or handles it.
Delivers(t) == pc[t] \in Handling \cup {"deliver"}
Deliveries ==
  /\ \A t \in LooperThread : Delivers(t) =>
       /\ delivering[t] \in Message /\ state[delivering[t]] \in {"taken", "replied"}
       /\ pc[t] = "deliver" => state[delivering[t]] = "taken"
  /\ \A t, u \in LooperThread :
       Delivers(t) /\ Delivers(u) /\ delivering[t] = delivering[u] => t = u

\* The sender of a message that is not handled yet waits for its reply, and the reply is
\* there until the sender has got it.
Replies ==
  /\ \A c \in Thread : message[c] # NoMessage => pc[c] \in {"asleep", "woken"}
  /\ \A m \in Message :
       state[m] \in {"queued", "taken"} /\ event[m].sender # None => message[event[m].sender] = m
  /\ \A m \in mReplies : state[m] \in {"replied", "handled"}
  /\ ReplyWakesItsSender

\* A thread that its looper has forgotten is told to exit by the one who stopped the looper,
\* who waits for it unless it is the thread itself.
Live(t) == pc[t] \notin {"unborn", "dead"}
Exits ==
  /\ \A l \in Looper : mThread[l] # None => ThreadOf[mThread[l]] = l /\ pc[mThread[l]] # "unborn"
  /\ \A c \in Thread : pc[c] \in {"stopping", "join"} =>
       /\ joining[c] \in LooperThread /\ pc[joining[c]] # "unborn"
       /\ c \in Owner \/ (c \in LooperThread /\ ThreadOf[c] = ThreadOf[joining[c]])
  /\ \A t \in LooperThread : Live(t) /\ mThread[ThreadOf[t]] # t =>
       t \in exitPending \/ \E c \in Thread : pc[c] = "stopping" /\ joining[c] = t
  /\ \A t \in exitPending :
       \/ pc[t] \in Handling \cup {"check", "dead"}
       \/ \E c \in Thread : pc[c] = "join" /\ joining[c] = t

IInv == TypeOK /\ InOrder /\ Deliveries /\ Replies /\ Exits

\* One thread starts and stops loopers, and each at most twice; a handler may stop its
\* own.
OneOwner == \A c, d \in Owner : c = d
StartedTwice ==
  \A t, u, v \in LooperThread :
    ThreadOf[t] = ThreadOf[u] /\ ThreadOf[u] = ThreadOf[v] => t = u \/ u = v \/ v = t

\* A looper that has been started again has but one thread that goes on: the other one is
\* in its last handler, which has stopped the looper.
Outlived ==
  \A t \in LooperThread : Live(t) /\ mThread[ThreadOf[t]] \notin {t, None} =>
    /\ pc[t] \in Handling \cup {"check"}
    /\ t \in exitPending \/ (pc[t] = "stopping" /\ joining[t] = t)

TwoThreadsInv == IInv /\ Outlived /\ NoOversleep
-----------------------------------------------------------------------------
(* Sequences *)

(***************************************************************************)
(* A set of numbers that has 0 and the successor of each of its members.   *)
(***************************************************************************)
LEMMA AllNumbers ==
  ASSUME NEW S, 0 \in S, \A n \in Nat : n \in S => n + 1 \in S
  PROVE  Nat \subseteq S
<1> DEFINE R == {p \in Nat \X Nat : p[1] < p[2]}
<1>1. IsWellFoundedOn(R, Nat)
  BY NatLessThanWellFounded DEF OpToRel
<1>2. SUFFICES ASSUME Nat \ S # {} PROVE FALSE
  OBVIOUS
<1>3. PICK n \in Nat \ S : \A m \in Nat \ S : ~(<<m, n>> \in R)
  BY <1>1, <1>2, WFMin
<1>4. n # 0 /\ n - 1 \in Nat /\ <<n - 1, n>> \in R
  BY <1>3
<1>5. n - 1 \in S
  BY <1>3, <1>4
<1> QED
  BY <1>3, <1>4, <1>5

(***************************************************************************)
(* Positions none of which has a gap before it are the first ones.         *)
(***************************************************************************)
LEMMA NoGap ==
  ASSUME NEW n \in Nat, NEW A \in SUBSET (1 .. n), \A i \in A : \A j \in 1 .. i : j \in A
  PROVE  Cardinality(A) \in 0 .. n /\ A = 1 .. Cardinality(A)
<1> DEFINE S == {m \in Nat : 1 .. m \subseteq A}
<1>1. PICK m \in Nat : m \in S /\ m + 1 \notin A
  <2>1. SUFFICES ASSUME \A m \in Nat : m \in S => m + 1 \in A PROVE FALSE
    OBVIOUS
  <2>2. 0 \in S
    OBVIOUS
  <2>3. ASSUME NEW m \in Nat, m \in S PROVE m + 1 \in S
    <3>1. m + 1 \in A
      BY <2>1, <2>3
    <3> QED
      BY <3>1
  <2>4. Nat \subseteq S
    <3> HIDE DEF S
    <3> QED
      BY <2>2, <2>3, AllNumbers
  <2>5. n + 1 \in 1 .. n + 1 /\ n + 1 \notin 1 .. n
    OBVIOUS
  <2> QED
    BY <2>4, <2>5
<1>2. A = 1 .. m
  <2>1. ASSUME NEW i \in A PROVE i \in 1 .. m
    <3>1. i \in Nat /\ i >= 1 /\ (i > m => m + 1 \in 1 .. i)
      OBVIOUS
    <3> QED
      BY <1>1, <3>1
  <2> QED
    BY <1>1, <2>1
<1>3. Cardinality(1 .. m) = m
  BY FS_Interval
<1>4. m <= n
  <2>1. m > 0 => m \in A
    BY <1>2
  <2> QED
    BY <2>1
<1> QED
  BY <1>2, <1>3, <1>4

(***************************************************************************)
(* InsertAt moves what is behind the place one place further.              *)
(***************************************************************************)
Inserted(r, q, p, e) ==
  /\ DOMAIN r = 1 .. Len(q) + 1 /\ r[p] = e
  /\ \A i \in 1 .. Len(q) + 1 : i < p => r[i] = q[i]
  /\ \A i \in 1 .. Len(q) + 1 : i > p => r[i] = q[i - 1]

LEMMA InsertAtFacts ==
  ASSUME NEW E, NEW q \in Seq(E), NEW p \in 1 .. Len(q) + 1, NEW e \in E
  PROVE  InsertAt(q, p, e) \in Seq(E) /\ Inserted(InsertAt(q, p, e), q, p, e)
<1> DEFINE a == SubSeq(q, 1, p - 1)
           b == SubSeq(q, p, Len(q))
<1>1. Len(q) \in Nat /\ \A i \in 1 .. Len(q) : q[i] \in E
  OBVIOUS
<1>2. a \in Seq(E) /\ Len(a) = p - 1 /\ \A i \in 1 .. p - 1 : a[i] = q[i]
  BY <1>1, SubSeqProperties
<1>3. /\ b \in Seq(E) /\ Len(b) = Len(q) + 1 - p
      /\ \A i \in 1 .. Len(q) + 1 - p : b[i] = q[p + i - 1]
  BY <1>1, SubSeqProperties
<1>4. <<e>> \in Seq(E) /\ Len(<<e>>) = 1 /\ <<e>>[1] = e
  OBVIOUS
<1> DEFINE c == a \o <<e>>
<1>5. InsertAt(q, p, e) = c \o b
  BY DEF InsertAt
<1> HIDE DEF a, b
<1>6. c \in Seq(E) /\ Len(c) = p /\ \A i \in 1 .. p : c[i] = IF i < p THEN a[i] ELSE e
  <2>1. c \in Seq(E) /\ Len(c) = p - 1 + 1
        /\ \A i \in 1 .. p - 1 + 1 : c[i] = IF i <= p - 1 THEN a[i] ELSE <<e>>[i - (p - 1)]
    BY <1>2, <1>4, ConcatProperties
  <2> HIDE DEF c
  <2>2. ASSUME NEW i \in 1 .. p PROVE c[i] = IF i < p THEN a[i] ELSE e
    BY <1>4, <2>1
  <2> QED
    BY <2>1, <2>2
<1> HIDE DEF c
<1>7. c \o b \in Seq(E) /\ Len(c \o b) = Len(q) + 1
      /\ \A i \in 1 .. Len(q) + 1 : (c \o b)[i] = IF i <= p THEN c[i] ELSE b[i - p]
  <2>1. p + (Len(q) + 1 - p) = Len(q) + 1
    BY <1>1
  <2> QED
    BY <1>3, <1>6, <2>1, ConcatProperties
<1>8. ASSUME NEW i \in 1 .. Len(q) + 1
      PROVE  (c \o b)[i] = IF i < p THEN q[i] ELSE IF i = p THEN e ELSE q[i - 1]
  <2>1. CASE i <= p
    <3>1. i \in 1 .. p /\ (i # p => i \in 1 .. p - 1 /\ i < p)
      BY <1>1, <2>1
    <3>2. (c \o b)[i] = c[i]
      BY <1>7, <2>1
    <3>3. CASE i = p
      BY <1>1, <1>6, <3>1, <3>2, <3>3
    <3>4. CASE i # p
      BY <1>1, <1>2, <1>6, <3>1, <3>2, <3>4
    <3> QED
      BY <3>3, <3>4
  <2>2. CASE i > p
    <3>1. i - p \in 1 .. Len(q) + 1 - p /\ p + (i - p) - 1 = i - 1
      BY <1>1, <2>2
    <3> QED
      BY <1>3, <1>7, <2>2, <3>1
  <2>3. i \in Int /\ p \in Int
    BY <1>1
  <2> HIDE DEF c, b
  <2>4. i <= p \/ i > p
    BY <2>3
  <2> QED
    BY <2>1, <2>2, <2>4
<1>9. p \in Int /\ p \in 1 .. Len(q) + 1 /\ DOMAIN (c \o b) = 1 .. Len(q) + 1
  BY <1>1, <1>7
<1> QED
  BY <1>1, <1>5, <1>7, <1>8, <1>9 DEF Inserted

(***************************************************************************)
(* A number greater than those of the queue that is inserted behind those  *)
(* of its time and of times before leaves the queue in order.              *)
(***************************************************************************)
GoesBehind(E, q, t, e, when, p, u) ==
  /\ E \in SUBSET Nat /\ q \in Seq(E) /\ t \in [E -> Int] /\ e \in E /\ when \in Int
  /\ Ordered(q, t) /\ \A i \in DOMAIN q : q[i] < e
  /\ p = Cardinality({i \in DOMAIN q : t[q[i]] <= when}) + 1
  /\ u \in [E -> Int] /\ u[e] = when /\ \A f \in E \ {e} : u[f] = t[f]

LEMMA InsertInOrder ==
  ASSUME NEW E, NEW q, NEW t, NEW e, NEW when, NEW p, NEW u, GoesBehind(E, q, t, e, when, p, u)
  PROVE  /\ p \in 1 .. Len(q) + 1
         /\ InsertAt(q, p, e) \in Seq(E) /\ Inserted(InsertAt(q, p, e), q, p, e)
         /\ ToSet(InsertAt(q, p, e)) = ToSet(q) \cup {e}
         /\ Ordered(InsertAt(q, p, e), u)
<1> DEFINE A == {i \in DOMAIN q : t[q[i]] <= when}
           r == InsertAt(q, p, e)
<1> USE DEF GoesBehind
<1>1. /\ Len(q) \in Nat /\ DOMAIN q = 1 .. Len(q)
      /\ \A i \in DOMAIN q : q[i] \in E /\ q[i] # e /\ q[i] \in Int /\ t[q[i]] \in Int
  <2>1. Len(q) \in Nat /\ DOMAIN q = 1 .. Len(q) /\ \A i \in DOMAIN q : q[i] \in E
    OBVIOUS
  <2>2. \A f \in E : f \in Int /\ t[f] \in Int
    OBVIOUS
  <2>3. ASSUME NEW i \in DOMAIN q PROVE q[i] # e
    <3>1. q[i] \in Int /\ e \in Int /\ q[i] < e
      BY <2>1, <2>2
    <3> QED
      BY <3>1
  <2> QED
    BY <2>1, <2>2, <2>3
<1>2. ASSUME NEW i \in A, NEW j \in 1 .. i PROVE j \in A
  <2>1. i \in DOMAIN q /\ j \in DOMAIN q /\ i \in Int /\ j \in Int
    BY <1>1
  <2>2. j < i => t[q[j]] <= t[q[i]]
    <3>1. t[q[j]] \in Int /\ t[q[i]] \in Int
      BY <1>1, <2>1
    <3>2. j < i => t[q[j]] < t[q[i]] \/ t[q[j]] = t[q[i]]
      BY <2>1 DEF Ordered
    <3> QED
      BY <3>1, <3>2
  <2> QED
    BY <1>1, <2>1, <2>2
<1>3. A \in SUBSET (1 .. Len(q))
  BY <1>1
<1>4. p = Cardinality(A) + 1
  OBVIOUS
<1> HIDE DEF A
<1>5. Cardinality(A) \in 0 .. Len(q) /\ A = 1 .. Cardinality(A)
  BY <1>1, <1>2, <1>3, NoGap
<1>6. p \in 1 .. Len(q) + 1 /\ \A i \in DOMAIN q : i < p <=> t[q[i]] <= when
  <2>1. ASSUME NEW i \in DOMAIN q PROVE i < p <=> t[q[i]] <= when
    <3>1. i < p <=> i \in A
      BY <1>1, <1>4, <1>5
    <3> QED
      BY <3>1 DEF A
  <2> QED
    BY <1>1, <1>4, <1>5, <2>1
<1>7. r \in Seq(E) /\ Inserted(r, q, p, e)
  BY <1>6, InsertAtFacts
<1>8. /\ DOMAIN r = 1 .. Len(q) + 1 /\ r[p] = e
      /\ \A i \in 1 .. Len(q) + 1 : i < p => r[i] = q[i]
      /\ \A i \in 1 .. Len(q) + 1 : i > p => r[i] = q[i - 1]
  BY <1>7 DEF Inserted
<1> HIDE DEF r
<1>9. ToSet(r) = ToSet(q) \cup {e}
  <2>1. ASSUME NEW i \in DOMAIN r PROVE r[i] \in ToSet(q) \cup {e}
    <3>1. i < p => i \in DOMAIN q
      BY <1>1, <1>6, <1>8
    <3>2. i > p => i - 1 \in DOMAIN q
      BY <1>1, <1>6, <1>8
    <3>3. i < p \/ i = p \/ i > p
      BY <1>1, <1>6, <1>8
    <3> QED
      BY <1>8, <3>1, <3>2, <3>3 DEF ToSet
  <2>2. ASSUME NEW i \in DOMAIN q PROVE q[i] \in ToSet(r)
    <3>1. i < p => i \in DOMAIN r /\ r[i] = q[i]
      BY <1>1, <1>8
    <3>2. i >= p => i + 1 \in DOMAIN r /\ r[i + 1] = q[i]
      <4>0. i \in 1 .. Len(q) /\ Len(q) \in Nat /\ p \in 1 .. Len(q) + 1
        BY <1>1, <1>6
      <4>1. i \in Int /\ p \in Int /\ (i + 1) - 1 = i /\ i + 1 \in 1 .. Len(q) + 1
        BY <4>0
      <4>2. i >= p => i + 1 > p
        BY <4>1
      <4>3. i >= p => r[i + 1] = q[(i + 1) - 1]
        BY <1>8, <4>1, <4>2
      <4> QED
        BY <1>8, <4>1, <4>3
    <3>3. i < p \/ i >= p
      BY <1>1, <1>6
    <3> QED
      BY <3>1, <3>2, <3>3 DEF ToSet
  <2>3. e \in ToSet(r)
    <3>1. p \in DOMAIN r
      BY <1>6, <1>8
    <3> QED
      BY <1>8, <3>1 DEF ToSet
  <2> QED
    BY <2>1, <2>2, <2>3 DEF ToSet
<1> DEFINE Precedes(f, g) == u[f] < u[g] \/ (u[f] = u[g] /\ f < g)
<1>10. ASSUME NEW i \in DOMAIN r, NEW j \in DOMAIN r, i < j PROVE Precedes(r[i], r[j])
  <2>0. i \in Int /\ j \in Int /\ p \in Int
    BY <1>1, <1>6, <1>8
  <2>1. ASSUME NEW a \in DOMAIN q, NEW b \in DOMAIN q, a < b, r[i] = q[a], r[j] = q[b]
        PROVE  Precedes(r[i], r[j])
    <3>1. t[q[a]] < t[q[b]] \/ (t[q[a]] = t[q[b]] /\ q[a] < q[b])
      BY <2>1 DEF Ordered
    <3>2. u[q[a]] = t[q[a]] /\ u[q[b]] = t[q[b]]
      BY <1>1
    <3> QED
      BY <2>1, <3>1, <3>2
  <2>2. CASE i # p /\ j # p
    <3> DEFINE a == IF i < p THEN i ELSE i - 1
               b == IF j < p THEN j ELSE j - 1
    <3>1. a \in DOMAIN q /\ b \in DOMAIN q /\ a < b
      <4>1. i \in 1 .. Len(q) + 1 /\ j \in 1 .. Len(q) + 1 /\ p \in 1 .. Len(q) + 1
        BY <1>6, <1>8
      <4>2. Len(q) \in Nat /\ i < j
        BY <1>1, <1>10
      <4>3. a \in 1 .. Len(q)
        BY <2>2, <4>1, <4>2
      <4>4. b \in 1 .. Len(q)
        BY <2>2, <4>1, <4>2
      <4>5. a < b
        BY <2>2, <4>1, <4>2
      <4> QED
        BY <1>1, <4>3, <4>4, <4>5
    <3>2. r[i] = q[a] /\ r[j] = q[b]
      BY <1>8, <2>0, <2>2
    <3> HIDE DEF a, b, Precedes
    <3> QED
      BY <2>1, <3>1, <3>2
  <2>3. CASE i = p
    <3>1. j - 1 \in DOMAIN q /\ ~(j - 1 < p) /\ r[j] = q[j - 1] /\ r[i] = e
      BY <1>1, <1>6, <1>8, <1>10, <2>0, <2>3
    <3>2. when < t[q[j - 1]]
      BY <1>1, <1>6, <3>1
    <3> QED
      BY <1>1, <3>1, <3>2
  <2>4. CASE j = p
    <3>1. i \in DOMAIN q /\ i < p /\ r[i] = q[i] /\ r[j] = e
      BY <1>1, <1>6, <1>8, <1>10, <2>0, <2>4
    <3>2. t[q[i]] < when \/ t[q[i]] = when
      BY <1>1, <1>6, <3>1
    <3> QED
      BY <1>1, <3>1, <3>2
  <2> QED
    BY <2>2, <2>3, <2>4
<1>11. Ordered(r, u)
  BY <1>10 DEF Ordered
<1> QED
  BY <1>6, <1>7, <1>9, <1>11 DEF r

(***************************************************************************)
(* What Tail leaves.                                                       *)
(***************************************************************************)
LEMMA TailInOrder ==
  ASSUME NEW E \in SUBSET Nat, NEW q \in Seq(E), q # <<>>, NEW t \in [E -> Int], Ordered(q, t)
  PROVE  /\ Tail(q) \in Seq(E) /\ Ordered(Tail(q), t)
         /\ q[1] \in E /\ q[1] \in ToSet(q) /\ ToSet(Tail(q)) = ToSet(q) \ {q[1]}
<1>1. Len(q) \in Nat \ {0} /\ DOMAIN q = 1 .. Len(q)
  OBVIOUS
<1>2. /\ Tail(q) \in Seq(E) /\ DOMAIN Tail(q) = 1 .. Len(q) - 1
      /\ \A i \in 1 .. Len(q) - 1 : Tail(q)[i] = q[i + 1]
  OBVIOUS
<1> DEFINE w == Tail(q)
<1> HIDE DEF w
<1>3. ASSUME NEW i \in DOMAIN w PROVE i + 1 \in DOMAIN q /\ 1 \in DOMAIN q /\ w[i] = q[i + 1] /\ 1 < i + 1 /\ i \in Int
  BY <1>1, <1>2 DEF w
<1>4. Ordered(w, t)
  <2>1. SUFFICES ASSUME NEW i \in DOMAIN w, NEW j \in DOMAIN w, i < j
                 PROVE  t[w[i]] < t[w[j]] \/ (t[w[i]] = t[w[j]] /\ w[i] < w[j])
    BY DEF Ordered
  <2>2. i + 1 < j + 1
    BY <1>3, <2>1
  <2> QED
    BY <1>3, <2>1, <2>2 DEF Ordered
<1>5. \A i \in DOMAIN w : w[i] # q[1]
  <2>1. SUFFICES ASSUME NEW i \in DOMAIN w PROVE q[i + 1] # q[1]
    BY <1>3
  <2>2. t[q[1]] < t[q[i + 1]] \/ q[1] < q[i + 1]
    BY <1>3 DEF Ordered
  <2>3. q[1] \in E /\ q[i + 1] \in E
    BY <1>3
  <2>4. \A f \in E : f \in Int /\ t[f] \in Int
    OBVIOUS
  <2>5. q[1] \in Int /\ t[q[1]] \in Int
    BY <2>3, <2>4
  <2> QED
    BY <2>2, <2>5
<1>6. \A k \in DOMAIN q : k = 1 \/ (k - 1 \in DOMAIN w /\ w[k - 1] = q[k])
  <2>1. SUFFICES ASSUME NEW k \in DOMAIN q, k # 1 PROVE k - 1 \in DOMAIN w /\ w[k - 1] = q[k]
    OBVIOUS
  <2>2. k - 1 \in 1 .. Len(q) - 1 /\ (k - 1) + 1 = k
    BY <1>1, <2>1
  <2> QED
    BY <1>2, <2>2 DEF w
<1>7. ToSet(w) = ToSet(q) \ {q[1]}
  BY <1>3, <1>5, <1>6 DEF ToSet
<1>8. 1 \in DOMAIN q /\ q[1] \in E
  BY <1>1
<1> QED
  BY <1>2, <1>4, <1>7, <1>8 DEF w, ToSet
-----------------------------------------------------------------------------
(* Messages, queues and signals *)

\* Messages are numbers, and have times.
LEMMA Messages ==
  /\ Message \in SUBSET Nat /\ NoMessage \notin Message /\ \A m \in Message : 1 .. m \subseteq Message
  /\ TypeOK => Times \in [Message -> Int] /\ now \in Int
<1>1. MaxTime \in Nat /\ \A s \in Scenarios : s.messages \in Nat
  BY BoundAssumption
<1>2. Message \in SUBSET Nat /\ NoMessage \notin Message
  BY <1>1 DEF Message, NoMessage
<1>3. ASSUME NEW m \in Message PROVE 1 .. m \subseteq Message
  <2>1. PICK s \in Scenarios : m \in 1 .. s.messages
    BY DEF Message
  <2>2. 1 .. m \subseteq 1 .. s.messages
    BY <1>1, <2>1
  <2> QED
    BY <2>2 DEF Message
<1>4. ASSUME TypeOK PROVE Times \in [Message -> Int] /\ now \in Int
  <2>1. \A m \in Message : event[m].whenUs \in 0 .. MaxTime
    BY <1>4 DEF TypeOK
  <2>2. 0 .. MaxTime \subseteq Int
    BY <1>1
  <2> QED
    BY <1>4, <2>1, <2>2 DEF Times, TypeOK
<1> QED
  BY <1>2, <1>3, <1>4

LEMMA Threads ==
  /\ Owner \subseteq Client /\ Client \cap LooperThread = {} /\ Thread = Client \cup LooperThread
  /\ None \notin Thread
  /\ LooperOf \in [Handler -> Looper] /\ ThreadOf \in [LooperThread -> Looper]
  /\ \A s \in Scenarios : s.handlers \subseteq Handler /\ s.threads \subseteq Thread
  BY SetAssumption, BoundAssumption DEF Thread

\* A message that is posted to h becomes the first of its looper.
ComesFirst(h, delayUs) == Place(mEventQueue[LooperOf[h]], now + delayUs) = 1

\* What a post changes, but for the threads.
PostEffect(m, h, delayUs, awaiting) ==
  /\ state[m] = "new" /\ h \in Handler /\ Posted' = Posted \cup {m}
  /\ mEventQueue' \in [Looper -> Seq(Message)]
  /\ state' = [state EXCEPT ![m] = "queued"]
  /\ state' \in [Message -> {"new", "queued", "taken", "replied", "handled", "dropped"}]
  /\ event' \in [Message -> [target : Handler \cup {None}, whenUs : 0 .. MaxTime,
                             sender : Thread \cup {None}]]
  /\ \A n \in Message \ {m} : event'[n] = event[n]
  /\ event'[m].sender = awaiting
  /\ InOrder'
  /\ \A l \in Looper : l # LooperOf[h] => mEventQueue'[l] = mEventQueue[l]
  /\ ~ComesFirst(h, delayUs) =>
       /\ mEventQueue[LooperOf[h]] # <<>> /\ mEventQueue'[LooperOf[h]] # <<>>
       /\ mEventQueue'[LooperOf[h]][1] = mEventQueue[LooperOf[h]][1]

(***************************************************************************)
(* A post puts the message behind those of its time; the first message of  *)
(* the looper is another one only if its place is the first.               *)
(***************************************************************************)
LEMMA postFacts ==
  ASSUME TypeOK, InOrder, NEW m \in Message, NEW h, NEW delayUs \in 0 .. MaxTime,
         NEW awaiting \in Thread \cup {None}, NEW p, post(m, h, delayUs, awaiting, p)
  PROVE  PostEffect(m, h, delayUs, awaiting)
<1> DEFINE l == LooperOf[h]
           when == now + delayUs
           q == mEventQueue[l]
           place == Place(q, when)
           x == [target |-> h, whenUs |-> when, sender |-> awaiting]
<1>1. /\ m = Cardinality(Posted) + 1 /\ h \in mHandlers /\ when <= MaxTime
      /\ mEventQueue' = [mEventQueue EXCEPT ![l] = InsertAt(q, place, m)]
      /\ state' = [state EXCEPT ![m] = "queued"]
      /\ event' = [event EXCEPT ![m] = x]
  BY DEF post
<1>2. h \in Handler /\ l \in Looper /\ q \in Seq(Message)
  BY <1>1, Threads DEF TypeOK
<1>3. now \in 0 .. MaxTime /\ when \in 0 .. MaxTime /\ when \in Int /\ MaxTime \in Nat
  <2>1. MaxTime \in Nat /\ now \in 0 .. MaxTime
    BY BoundAssumption DEF TypeOK
  <2> QED
    BY <1>1, <2>1
<1>4. PICK n \in Nat : Posted = 1 .. n
  BY Messages DEF InOrder, NoMessage
<1>5. m = n + 1
  <2>1. Cardinality(1 .. n) = n
    BY FS_Interval
  <2> QED
    BY <1>1, <1>4, <2>1
<1>6. state[m] = "new" /\ \A k \in Posted : k < m
  <2>1. m \notin Posted /\ \A k \in Posted : k < m
    BY <1>4, <1>5
  <2> QED
    BY <2>1 DEF Posted
<1>7. Posted' = Posted \cup {m}
  BY <1>1 DEF Posted, TypeOK
<1>8. \E k \in Message \cup {NoMessage} : Posted' = 1 .. k
  <2>1. 1 .. n + 1 = (1 .. n) \cup {n + 1}
    BY <1>4
  <2> QED
    BY <1>4, <1>5, <1>7, <2>1
<1> HIDE DEF x, when
<1>9. /\ event' \in [Message -> [target : Handler \cup {None}, whenUs : 0 .. MaxTime,
                                 sender : Thread \cup {None}]]
      /\ event'[m] = x /\ \A k \in Message \ {m} : event'[k] = event[k]
  <2>1. x \in [target : Handler \cup {None}, whenUs : 0 .. MaxTime, sender : Thread \cup {None}]
    BY <1>2, <1>3 DEF x
  <2> QED
    BY <1>1, <2>1 DEF TypeOK
<1>10. x.target = h /\ x.whenUs = when /\ x.sender = awaiting
  BY DEF x
<1>11. state' \in [Message -> {"new", "queued", "taken", "replied", "handled", "dropped"}]
       /\ state'[m] = "queued" /\ \A k \in Message \ {m} : state'[k] = state[k]
  BY <1>1 DEF TypeOK
<1> DEFINE u == [k \in Message |-> event'[k].whenUs]
<1>12. u \in [Message -> Int] /\ u[m] = when /\ \A k \in Message \ {m} : u[k] = Times[k]
  <2>1. \A k \in Message : event'[k].whenUs \in Int
    BY <1>3, <1>9
  <2> QED
    BY <1>9, <1>10, <2>1 DEF Times
<1>13. \A k \in Looper : \A i \in DOMAIN mEventQueue[k] :
         mEventQueue[k][i] \in Posted /\ mEventQueue[k][i] \in Message \ {m}
  BY <1>6 DEF InOrder, ToSet, Posted
<1>14. place = Cardinality({i \in DOMAIN q : Times[q[i]] <= when}) + 1
  <2>1. \A i \in DOMAIN q : Times[q[i]] = event[q[i]].whenUs
    BY <1>2, <1>13 DEF Times
  <2>2. {i \in DOMAIN q : Times[q[i]] <= when} = {i \in DOMAIN q : event[q[i]].whenUs <= when}
    BY <2>1
  <2> QED
    BY <2>2 DEF Place
<1> DEFINE r == InsertAt(q, place, m)
<1>15. /\ place \in 1 .. Len(q) + 1 /\ r \in Seq(Message) /\ Inserted(r, q, place, m)
       /\ ToSet(r) = ToSet(q) \cup {m} /\ Ordered(r, u)
  <2>1. Message \in SUBSET Nat /\ Times \in [Message -> Int]
    BY Messages
  <2>2. Ordered(q, Times) /\ \A i \in DOMAIN q : q[i] < m
    BY <1>2, <1>6, <1>13 DEF InOrder
  <2> HIDE DEF q, place, u
  <2>3. GoesBehind(Message, q, Times, m, when, place, u)
    BY <1>2, <1>3, <1>12, <1>14, <2>1, <2>2 DEF GoesBehind
  <2> QED
    BY <2>3, InsertInOrder
<1>16. /\ mEventQueue' \in [Looper -> Seq(Message)] /\ mEventQueue'[l] = r
       /\ \A k \in Looper : k # l => mEventQueue'[k] = mEventQueue[k]
  <2> HIDE DEF r
  <2> QED
    BY <1>1, <1>2, <1>15 DEF TypeOK, r
<1>17. ASSUME NEW k \in Looper PROVE Ordered(mEventQueue'[k], u)
  <2>1. CASE k = l
    BY <1>15, <1>16, <2>1
  <2>2. CASE k # l
    <3>1. Ordered(mEventQueue[k], Times) /\ mEventQueue'[k] = mEventQueue[k]
      BY <1>16, <2>2 DEF InOrder
    <3>2. \A i \in DOMAIN mEventQueue[k] : u[mEventQueue[k][i]] = Times[mEventQueue[k][i]]
      BY <1>12, <1>13
    <3> HIDE DEF u
    <3> QED
      BY <3>1, <3>2 DEF Ordered
  <2> QED
    BY <2>1, <2>2
<1>18. ASSUME NEW k \in Looper
       PROVE  ToSet(mEventQueue'[k]) = {j \in Message : state'[j] = "queued" /\ LooperOf[event'[j].target] = k}
  <2>1. ToSet(mEventQueue[k]) = {j \in Message : state[j] = "queued" /\ LooperOf[event[j].target] = k}
    BY DEF InOrder
  <2>2. ToSet(mEventQueue'[k]) = ToSet(mEventQueue[k]) \cup (IF k = l THEN {m} ELSE {})
    <3> HIDE DEF r
    <3> QED
      BY <1>15, <1>16
  <2> QED
    BY <1>6, <1>9, <1>10, <1>11, <2>1, <2>2
<1>19. \A j \in Message : state'[j] = "queued" => event'[j].target \in Handler
  BY <1>2, <1>9, <1>10, <1>11 DEF InOrder
<1>20. InOrder'
  BY <1>8, <1>17, <1>18, <1>19 DEF InOrder, Times
<1>21. place # 1 => q # <<>> /\ r # <<>> /\ r[1] = q[1]
  <2>1. SUFFICES ASSUME place # 1 PROVE q # <<>> /\ r # <<>> /\ r[1] = q[1]
    OBVIOUS
  <2> HIDE DEF r, place, q
  <2>2. Len(q) \in Nat /\ 1 \in 1 .. Len(q) + 1 /\ 1 < place /\ place <= Len(q) + 1
    BY <1>2, <1>15, <2>1
  <2>3. r[1] = q[1] /\ Len(q) # 0 /\ DOMAIN r = 1 .. Len(q) + 1
    BY <1>15, <2>2 DEF Inserted
  <2>4. 1 \in DOMAIN r
    BY <2>2, <2>3
  <2> QED
    BY <2>3, <2>4
<1>22. event'[m].sender = awaiting
  BY <1>9, <1>10
<1> HIDE DEF r
<1> QED
  BY <1>1, <1>2, <1>6, <1>7, <1>9, <1>11, <1>16, <1>20, <1>21, <1>22 DEF when, ComesFirst, PostEffect

(***************************************************************************)
(* A signal wakes one of the threads that wait, if there is any, and       *)
(* changes no other.                                                       *)
(***************************************************************************)
Woken(q, p, l) == \A c \in Thread : q[c] = p[c] \/ (c \in Waiting(l) /\ q[c] = "check")

LEMMA signalFacts ==
  ASSUME NEW P, "check" \in P, NEW p \in [Thread -> P], NEW l, NEW q \in signal(l, p)
  PROVE  q \in [Thread -> P] /\ Woken(q, p, l) /\ (Waiting(l) # {} => \E t \in Waiting(l) : q[t] = "check")
<1>1. Waiting(l) \subseteq Thread
  BY Threads DEF Waiting
<1>2. CASE Waiting(l) = {}
  BY <1>2 DEF signal, Woken
<1>3. CASE Waiting(l) # {}
  <2>1. PICK t \in Waiting(l) : q = [p EXCEPT ![t] = "check"]
    BY <1>3 DEF signal
  <2> QED
    BY <1>1, <2>1 DEF Woken
<1> QED
  BY <1>2, <1>3

(***************************************************************************)
(* Steps that leave parts of the invariant alone.                          *)
(***************************************************************************)
Places == {"free", "asleep", "woken", "stopping", "join", "unborn", "check", "loop",
           "wait", "timed", "deliver", "handling", "dead"}

\* Nobody begins or ends to stop a looper; one that has to exit goes no way but to its end.
GoesOn(c) ==
  /\ pc[c] \notin {"stopping", "join", "unborn", "dead"} /\ pc'[c] \notin {"stopping", "join", "unborn"}
  /\ c \in exitPending /\ pc[c] \in Handling \cup {"check"} => pc'[c] \in Handling \cup {"check", "dead"}
LeavesExits ==
  UNCHANGED <<mThread, joining, exitPending>> /\ \A c \in Thread : pc'[c] = pc[c] \/ GoesOn(c)

LEMMA ExitsKept == ASSUME TypeOK, Exits, LeavesExits PROVE Exits'
<1>1. /\ mThread' = mThread /\ joining' = joining /\ exitPending' = exitPending
      /\ LooperThread \subseteq Thread /\ exitPending \subseteq LooperThread /\ None \notin LooperThread
  BY Threads DEF LeavesExits, TypeOK
<1>2. ASSUME NEW c \in Thread
      PROVE  /\ pc'[c] \in {"stopping", "join"} <=> pc[c] \in {"stopping", "join"}
             /\ pc[c] \in {"stopping", "join"} => pc'[c] = pc[c]
             /\ pc[c] # "unborn" => pc'[c] # "unborn"
             /\ pc'[c] \notin {"unborn", "dead"} => pc[c] \notin {"unborn", "dead"}
             /\ c \in exitPending /\ pc[c] \in Handling \cup {"check", "dead"} =>
                  pc'[c] \in Handling \cup {"check", "dead"}
  BY DEF LeavesExits, GoesOn
<1>3. \A l \in Looper : mThread'[l] # None => ThreadOf[mThread'[l]] = l /\ pc'[mThread'[l]] # "unborn"
  BY <1>1, <1>2 DEF Exits, TypeOK
<1>4. \A c \in Thread : pc'[c] \in {"stopping", "join"} =>
        /\ joining'[c] \in LooperThread /\ pc'[joining'[c]] # "unborn"
        /\ c \in Owner \/ (c \in LooperThread /\ ThreadOf[c] = ThreadOf[joining'[c]])
  BY <1>1, <1>2 DEF Exits
<1>5. \A t \in LooperThread : Live(t)' /\ mThread'[ThreadOf[t]] # t =>
        t \in exitPending' \/ \E c \in Thread : pc'[c] = "stopping" /\ joining'[c] = t
  BY <1>1, <1>2 DEF Exits, Live
<1>6. \A t \in exitPending' :
        \/ pc'[t] \in Handling \cup {"check", "dead"}
        \/ \E c \in Thread : pc'[c] = "join" /\ joining'[c] = t
  <2>1. SUFFICES ASSUME NEW t \in exitPending, pc[t] \notin Handling \cup {"check", "dead"}
                 PROVE  \E c \in Thread : pc'[c] = "join" /\ joining'[c] = t
    BY <1>1, <1>2
  <2> QED
    BY <1>1, <1>2, <2>1 DEF Exits
<1> QED
  BY <1>3, <1>4, <1>5, <1>6 DEF Exits

LeavesDeliveries ==
  /\ \A t \in LooperThread : Delivers(t)' => Delivers(t) /\ delivering'[t] = delivering[t]
  /\ \A t \in LooperThread : pc'[t] = "deliver" => pc[t] = "deliver"
  /\ \A n \in Message : state[n] # "new" => state'[n] = state[n]

LEMMA DeliveriesKept == ASSUME Deliveries, LeavesDeliveries PROVE Deliveries'
<1>1. ASSUME NEW t \in LooperThread, Delivers(t)'
      PROVE  /\ delivering'[t] \in Message /\ state'[delivering'[t]] \in {"taken", "replied"}
             /\ pc'[t] = "deliver" => state'[delivering'[t]] = "taken"
  BY <1>1 DEF Deliveries, LeavesDeliveries
<1>2. \A t, u \in LooperThread :
        Delivers(t)' /\ Delivers(u)' /\ delivering'[t] = delivering'[u] => t = u
  BY DEF Deliveries, LeavesDeliveries
<1> QED
  BY <1>1, <1>2 DEF Deliveries

LeavesReplies ==
  /\ UNCHANGED <<message, mReplies>>
  /\ \A c \in Thread : pc[c] \in {"asleep", "woken"} => pc'[c] = pc[c]
  /\ \A m \in Message : state'[m] \in {"queued", "taken"} /\ event'[m].sender # None =>
       state[m] \in {"queued", "taken"} /\ event'[m] = event[m]
  /\ \A m \in Message : state[m] \in {"replied", "handled"} => state'[m] \in {"replied", "handled"}

LEMMA RepliesKept == ASSUME TypeOK, Replies, LeavesReplies PROVE Replies'
<1>1. message' = message /\ mReplies' = mReplies /\ mReplies \subseteq Message
  BY DEF LeavesReplies, TypeOK
<1>2. \A c \in Thread : message'[c] # NoMessage => pc'[c] \in {"asleep", "woken"}
  BY <1>1 DEF Replies, LeavesReplies
<1>3. \A m \in Message :
        state'[m] \in {"queued", "taken"} /\ event'[m].sender # None => message'[event'[m].sender] = m
  BY <1>1 DEF Replies, LeavesReplies
<1>4. \A m \in mReplies' : state'[m] \in {"replied", "handled"}
  BY <1>1 DEF Replies, LeavesReplies
<1>5. ReplyWakesItsSender'
  BY <1>1 DEF Replies, LeavesReplies, ReplyWakesItsSender
<1> QED
  BY <1>2, <1>3, <1>4, <1>5 DEF Replies

LEMMA InOrderKept ==
  ASSUME InOrder, UNCHANGED <<mEventQueue, messageVars>> PROVE InOrder'
  BY DEF InOrder, messageVars, Times, Posted

(***************************************************************************)
(* A message that has been taken goes on without the queue.                *)
(***************************************************************************)
LEMMA SettledInOrder ==
  ASSUME TypeOK, InOrder, mEventQueue' = mEventQueue, NEW m \in Message, state[m] \in {"taken", "replied"},
         NEW s \in {"replied", "handled", "dropped"}, state' = [state EXCEPT ![m] = s],
         \A n \in Message \ {m} : event'[n] = event[n]
  PROVE  InOrder'
<1>1. state'[m] = s /\ \A n \in Message \ {m} : state'[n] = state[n]
  BY DEF TypeOK
<1>2. Posted' = Posted
  BY <1>1 DEF Posted
<1>3. ASSUME NEW l \in Looper PROVE Ordered(mEventQueue[l], Times')
  <2>1. mEventQueue[l] \in Seq(Message)
    BY DEF TypeOK
  <2>2. \A i \in DOMAIN mEventQueue[l] : mEventQueue[l][i] \in Message \ {m}
    BY <2>1 DEF InOrder, ToSet
  <2>3. \A i \in DOMAIN mEventQueue[l] : Times'[mEventQueue[l][i]] = Times[mEventQueue[l][i]]
    BY <2>2 DEF Times
  <2>4. Ordered(mEventQueue[l], Times)
    BY DEF InOrder
  <2> QED
    BY <2>3, <2>4 DEF Ordered
<1>4. ASSUME NEW l \in Looper
      PROVE  {n \in Message : state'[n] = "queued" /\ LooperOf[event'[n].target] = l}
               = {n \in Message : state[n] = "queued" /\ LooperOf[event[n].target] = l}
  BY <1>1
<1>5. \A n \in Message : state'[n] = "queued" => event'[n].target \in Handler
  BY <1>1 DEF InOrder
<1> QED
  BY <1>2, <1>3, <1>4, <1>5 DEF InOrder
-----------------------------------------------------------------------------
(* Init and the actions *)

LEMMA InitInv == ASSUME Init PROVE IInv
<1>1. TypeOK
  <2>1. now \in 0 .. MaxTime
    BY BoundAssumption DEF Init
  <2>2. mEventQueue \in [Looper -> Seq(Message)] /\ mThread \in [Looper -> LooperThread \cup {None}]
    BY DEF Init
  <2>3. scenario \in Scenarios /\ mHandlers \subseteq Handler /\ mReplies \subseteq Message
    BY Threads DEF Init
  <2>4. /\ state \in [Message -> {"new", "queued", "taken", "replied", "handled", "dropped"}]
        /\ event \in [Message -> [target : Handler \cup {None}, whenUs : 0 .. MaxTime,
                                  sender : Thread \cup {None}]]
    BY BoundAssumption DEF Init, Freed
  <2>5. /\ pc \in [Thread -> Places] /\ \A t \in LooperThread : pc[t] # "free"
        /\ \A c \in Client : pc[c] \in {"free", "asleep", "woken", "stopping", "join"}
    BY Threads DEF Init, Places
  <2>6. /\ message \in [Thread -> Message \cup {NoMessage}]
        /\ delivering \in [LooperThread -> Message \cup {NoMessage}]
        /\ joining \in [Thread -> LooperThread \cup {None}] /\ exitPending \subseteq LooperThread
    BY DEF Init
  <2> QED
    BY <2>1, <2>2, <2>3, <2>4, <2>5, <2>6 DEF TypeOK, Places
<1>2. InOrder
  <2>1. Posted = 1 .. NoMessage
    BY DEF Init, Posted, NoMessage
  <2>2. \A l \in Looper : ToSet(mEventQueue[l]) = {} /\ Ordered(mEventQueue[l], Times)
    BY DEF Init, ToSet, Ordered
  <2> QED
    BY <2>1, <2>2 DEF Init, InOrder
<1>3. \A t \in Thread : pc[t] \in {"free", "unborn"}
  BY DEF Init
<1>4. Deliveries
  BY <1>3, Threads DEF Init, Deliveries, Delivers, Handling
<1>5. Replies
  BY DEF Init, Replies, ReplyWakesItsSender
<1>6. Exits
  BY <1>3, Threads DEF Init, Exits, Live
<1> QED
  BY <1>1, <1>2, <1>4, <1>5, <1>6 DEF IInv

\* The types of what few actions change.
PcType == /\ pc \in [Thread -> Places] /\ \A t \in LooperThread : pc[t] # "free"
          /\ \A c \in Client : pc[c] \in {"free", "asleep", "woken", "stopping", "join"}

LEMMA TickInv == ASSUME IInv, Tick PROVE IInv' /\ LeavesExits
<1>1. TypeOK'
  <2>1. now \in 0 .. MaxTime /\ MaxTime \in Nat
    BY BoundAssumption DEF IInv, TypeOK
  <2>2. now' \in 0 .. MaxTime
    BY <2>1 DEF Tick
  <2> QED
    BY <2>2 DEF IInv, TypeOK, Tick, messageVars
<1>2. LeavesExits /\ LeavesDeliveries /\ LeavesReplies
  BY DEF Tick, messageVars, LeavesExits, LeavesDeliveries, LeavesReplies, Delivers
<1> QED
  BY <1>1, <1>2, ExitsKept, DeliveriesKept, RepliesKept, InOrderKept DEF IInv, Tick

LEMMA unregisterHandlerInv ==
  ASSUME IInv, NEW c \in Thread, NEW h \in Handler, unregisterHandler(c, h) PROVE IInv' /\ LeavesExits
<1>1. TypeOK'
  BY DEF IInv, TypeOK, unregisterHandler, messageVars
<1>2. LeavesExits /\ LeavesDeliveries /\ LeavesReplies
  BY DEF unregisterHandler, messageVars, LeavesExits, LeavesDeliveries, LeavesReplies, Delivers
<1> QED
  BY <1>1, <1>2, ExitsKept, DeliveriesKept, RepliesKept, InOrderKept DEF IInv, unregisterHandler

LEMMA startInv ==
  ASSUME IInv, NEW c \in Thread, NEW l \in Looper, NEW t \in LooperThread, start(c, l, t) PROVE IInv'
<1>1. /\ mThread[l] = None /\ ThreadOf[t] = l /\ pc[t] = "unborn"
      /\ mThread' = [mThread EXCEPT ![l] = t] /\ pc' = [pc EXCEPT ![t] = "check"]
      /\ UNCHANGED <<now, scenario, mEventQueue, mHandlers, mReplies, messageVars, state, event, message,
                     delivering, joining, exitPending>>
  BY DEF start, messageVars
<1>2. TypeOK /\ InOrder /\ Deliveries /\ Replies /\ Exits
  BY DEF IInv
<1>3. pc'[t] = "check" /\ \A d \in Thread : d # t => pc'[d] = pc[d]
  BY <1>1, <1>2, Threads DEF TypeOK
<1>4. mThread'[l] = t /\ \A k \in Looper : k # l => mThread'[k] = mThread[k]
  BY <1>1, <1>2 DEF TypeOK
<1>5. TypeOK'
  <2>1. mThread' \in [Looper -> LooperThread \cup {None}]
    BY <1>1, <1>2 DEF TypeOK
  <2>2. PcType'
    BY <1>1, <1>2, Threads DEF TypeOK, PcType, Places
  <2> QED
    BY <1>1, <1>2, <2>1, <2>2 DEF TypeOK, PcType, Places
<1>6. LeavesDeliveries /\ LeavesReplies
  BY <1>1, <1>3, Threads DEF LeavesDeliveries, LeavesReplies, Delivers, Handling
<1>7. Exits'
  <2>1. \A k \in Looper : mThread'[k] # None => ThreadOf[mThread'[k]] = k /\ pc'[mThread'[k]] # "unborn"
    BY <1>1, <1>2, <1>3, <1>4, Threads DEF Exits, TypeOK
  <2>2. \A d \in Thread : pc'[d] \in {"stopping", "join"} =>
          /\ joining'[d] \in LooperThread /\ pc'[joining'[d]] # "unborn"
          /\ d \in Owner \/ (d \in LooperThread /\ ThreadOf[d] = ThreadOf[joining'[d]])
    BY <1>1, <1>2, <1>3, Threads DEF Exits
  <2>3. \A u \in LooperThread : Live(u)' /\ mThread'[ThreadOf[u]] # u =>
          u \in exitPending' \/ \E d \in Thread : pc'[d] = "stopping" /\ joining'[d] = u
    <3>1. SUFFICES ASSUME NEW u \in LooperThread, Live(u)', mThread'[ThreadOf[u]] # u
                   PROVE  u \in exitPending \/ \E d \in Thread : pc'[d] = "stopping" /\ joining[d] = u
      BY <1>1
    <3>2. u # t /\ Live(u) /\ mThread[ThreadOf[u]] # u
      BY <1>1, <1>3, <1>4, <3>1, Threads DEF Live
    <3> QED
      BY <1>1, <1>2, <1>3, <3>2 DEF Exits
  <2>4. \A u \in exitPending' :
          \/ pc'[u] \in Handling \cup {"check", "dead"}
          \/ \E d \in Thread : pc'[d] = "join" /\ joining'[d] = u
    <3>1. SUFFICES ASSUME NEW u \in exitPending, u # t, pc[u] \notin Handling \cup {"check", "dead"}
                   PROVE  \E d \in Thread : pc'[d] = "join" /\ joining[d] = u
      BY <1>1, <1>2, <1>3, Threads DEF TypeOK
    <3> QED
      BY <1>1, <1>2, <1>3, <3>1 DEF Exits
  <2> QED
    BY <2>1, <2>2, <2>3, <2>4 DEF Exits
<1> QED
  BY <1>1, <1>2, <1>5, <1>6, <1>7, DeliveriesKept, RepliesKept, InOrderKept DEF IInv

LEMMA stopInv == ASSUME IInv, NEW c \in Thread, NEW l \in Looper, stop(c, l) PROVE IInv'
<1>1. /\ pc[c] \in Busy /\ mThread[l] # None
      /\ c \in Owner \/ (c \in LooperThread /\ ThreadOf[c] = l)
      /\ joining' = [joining EXCEPT ![c] = mThread[l]]
      /\ mThread' = [mThread EXCEPT ![l] = None] /\ pc' = [pc EXCEPT ![c] = "stopping"]
      /\ UNCHANGED <<now, scenario, mEventQueue, mHandlers, mReplies, messageVars, state, event, message,
                     delivering, exitPending>>
  BY DEF stop, messageVars
<1>2. TypeOK /\ InOrder /\ Deliveries /\ Replies /\ Exits
  BY DEF IInv
<1>3. pc'[c] = "stopping" /\ \A d \in Thread : d # c => pc'[d] = pc[d]
  BY <1>1, <1>2 DEF TypeOK
<1>4. mThread'[l] = None /\ \A k \in Looper : k # l => mThread'[k] = mThread[k]
  BY <1>1, <1>2 DEF TypeOK
<1>5. joining'[c] = mThread[l] /\ \A d \in Thread : d # c => joining'[d] = joining[d]
  BY <1>1, <1>2 DEF TypeOK
<1>6. mThread[l] \in LooperThread /\ ThreadOf[mThread[l]] = l /\ pc[mThread[l]] # "unborn"
  BY <1>1, <1>2 DEF TypeOK, Exits
<1>7. TypeOK'
  <2>1. mThread' \in [Looper -> LooperThread \cup {None}] /\ joining' \in [Thread -> LooperThread \cup {None}]
    BY <1>1, <1>2, <1>6 DEF TypeOK
  <2>2. PcType'
    BY <1>1, <1>2, Threads DEF TypeOK, PcType, Places
  <2> QED
    BY <1>1, <1>2, <2>1, <2>2 DEF TypeOK, PcType, Places
<1>8. c \in LooperThread => pc[c] = "handling"
  BY <1>1, <1>2 DEF Busy, TypeOK
<1>9. LeavesDeliveries /\ LeavesReplies
  BY <1>1, <1>3, <1>8, Threads DEF LeavesDeliveries, LeavesReplies, Delivers, Handling, Busy
<1>10. Exits'
  <2>0. pc[c] \notin {"stopping", "join", "unborn", "dead"}
    BY <1>1 DEF Busy
  <2>1. \A k \in Looper : mThread'[k] # None => ThreadOf[mThread'[k]] = k /\ pc'[mThread'[k]] # "unborn"
    <3>1. SUFFICES ASSUME NEW k \in Looper, k # l, mThread[k] # None
                   PROVE  ThreadOf[mThread[k]] = k /\ pc'[mThread[k]] # "unborn"
      BY <1>4
    <3>2. mThread[k] \in Thread /\ ThreadOf[mThread[k]] = k /\ pc[mThread[k]] # "unborn"
      BY <1>2, <3>1, Threads DEF Exits, TypeOK
    <3> QED
      BY <1>3, <3>2
  <2>2. \A d \in Thread : pc'[d] \in {"stopping", "join"} =>
          /\ joining'[d] \in LooperThread /\ pc'[joining'[d]] # "unborn"
          /\ d \in Owner \/ (d \in LooperThread /\ ThreadOf[d] = ThreadOf[joining'[d]])
    BY <1>1, <1>2, <1>3, <1>5, <1>6, Threads DEF Exits
  <2>3. \A u \in LooperThread : Live(u)' /\ mThread'[ThreadOf[u]] # u =>
          u \in exitPending' \/ \E d \in Thread : pc'[d] = "stopping" /\ joining'[d] = u
    <3>1. SUFFICES ASSUME NEW u \in LooperThread, Live(u)', u # mThread[l]
                   PROVE  mThread'[ThreadOf[u]] = u \/ u \in exitPending
                            \/ \E d \in Thread : pc'[d] = "stopping" /\ joining'[d] = u
      BY <1>1, <1>3, <1>5
    <3>2. Live(u) /\ (mThread[ThreadOf[u]] = u => mThread'[ThreadOf[u]] = u)
      BY <1>3, <1>4, <2>0, <3>1, Threads DEF Live
    <3> QED
      BY <1>2, <1>3, <1>5, <2>0, <3>2 DEF Exits
  <2>4. \A u \in exitPending' :
          \/ pc'[u] \in Handling \cup {"check", "dead"}
          \/ \E d \in Thread : pc'[d] = "join" /\ joining'[d] = u
    <3>1. SUFFICES ASSUME NEW u \in exitPending, u # c, pc[u] \notin Handling \cup {"check", "dead"}
                   PROVE  \E d \in Thread : pc'[d] = "join" /\ joining'[d] = u
      BY <1>1, <1>2, <1>3, Threads DEF TypeOK, Handling
    <3> QED
      BY <1>2, <1>3, <1>5, <2>0, <3>1 DEF Exits
  <2> QED
    BY <2>1, <2>2, <2>3, <2>4 DEF Exits
<1> QED
  BY <1>1, <1>2, <1>7, <1>9, <1>10, DeliveriesKept, RepliesKept, InOrderKept DEF IInv

LEMMA RequestExitInv == ASSUME IInv, NEW c \in Thread, RequestExit(c) PROVE IInv'
<1> DEFINE t == joining[c]
           p == [pc EXCEPT ![c] = IF c = t THEN "handling" ELSE "join"]
<1>1. /\ pc[c] = "stopping" /\ exitPending' = exitPending \cup {t}
      /\ pc' \in signal(ThreadOf[t], p)
      /\ joining' = IF c = t THEN [joining EXCEPT ![c] = None] ELSE joining
      /\ UNCHANGED <<now, scenario, mEventQueue, mThread, mHandlers, mReplies, messageVars, state, event,
                     message, delivering>>
  BY DEF RequestExit, messageVars
<1>2. TypeOK /\ InOrder /\ Deliveries /\ Replies /\ Exits
  BY DEF IInv
<1>3. t \in LooperThread /\ pc[t] # "unborn"
  BY <1>1, <1>2 DEF Exits
<1>4. p \in [Thread -> Places] /\ p[c] = (IF c = t THEN "handling" ELSE "join")
      /\ \A d \in Thread : d # c => p[d] = pc[d]
  BY <1>2 DEF TypeOK, Places
<1> HIDE DEF p
<1>5. pc' \in [Thread -> Places] /\ Woken(pc', p, ThreadOf[t])
  BY <1>1, <1>4, signalFacts DEF Places
<1>6. ASSUME NEW d \in Thread, d # c
      PROVE  pc'[d] = pc[d] \/ (d \in LooperThread /\ pc[d] \in {"wait", "timed"} /\ pc'[d] = "check")
  BY <1>4, <1>5, <1>6 DEF Woken, Waiting
<1>7. pc'[c] = IF c = t THEN "handling" ELSE "join"
  BY <1>1, <1>4, <1>5 DEF Woken, Waiting
<1>8. TypeOK'
  <2>1. joining' \in [Thread -> LooperThread \cup {None}] /\ exitPending' \subseteq LooperThread
    BY <1>1, <1>2, <1>3 DEF TypeOK
  <2>2. PcType'
    <3>1. ASSUME NEW u \in LooperThread PROVE pc'[u] # "free"
      BY <1>2, <1>6, <1>7, <3>1, Threads DEF TypeOK
    <3>2. ASSUME NEW d \in Client PROVE pc'[d] \in {"free", "asleep", "woken", "stopping", "join"}
      <4>1. d \in Thread /\ d \notin LooperThread /\ pc[d] \in {"free", "asleep", "woken", "stopping", "join"}
        BY <1>2, <3>2, Threads DEF TypeOK
      <4>2. d # c => pc'[d] = pc[d]
        BY <1>6, <4>1
      <4>3. d = c => pc'[d] = "join"
        BY <1>3, <1>7, <4>1
      <4> QED
        BY <4>1, <4>2, <4>3
    <3> QED
      BY <1>5, <3>1, <3>2 DEF PcType
  <2> QED
    BY <1>1, <1>2, <2>1, <2>2 DEF TypeOK, PcType, Places
<1>9. LeavesDeliveries /\ LeavesReplies
  <2>1. \A d \in Thread : Delivers(d)' <=> Delivers(d)
    BY <1>1, <1>6, <1>7 DEF Delivers, Handling
  <2>2. \A d \in Thread : /\ pc'[d] = "deliver" => pc[d] = "deliver"
                          /\ pc[d] \in {"asleep", "woken"} => pc'[d] = pc[d]
    BY <1>1, <1>6, <1>7
  <2> QED
    BY <1>1, <2>1, <2>2, Threads DEF LeavesDeliveries, LeavesReplies
<1>10. Exits'
  <2>0. joining'[c] = (IF c = t THEN None ELSE t) /\ \A d \in Thread : d # c => joining'[d] = joining[d]
    BY <1>1, <1>2 DEF TypeOK
  <2>1. \A k \in Looper : mThread'[k] # None => ThreadOf[mThread'[k]] = k /\ pc'[mThread'[k]] # "unborn"
    <3>1. SUFFICES ASSUME NEW k \in Looper, mThread[k] # None
                   PROVE  ThreadOf[mThread[k]] = k /\ pc'[mThread[k]] # "unborn"
      BY <1>1
    <3>2. mThread[k] \in Thread /\ ThreadOf[mThread[k]] = k /\ pc[mThread[k]] # "unborn"
      BY <1>2, <3>1, Threads DEF Exits, TypeOK
    <3> QED
      BY <1>6, <1>7, <3>2
  <2>2. \A d \in Thread : pc'[d] \in {"stopping", "join"} =>
          /\ joining'[d] \in LooperThread /\ pc'[joining'[d]] # "unborn"
          /\ d \in Owner \/ (d \in LooperThread /\ ThreadOf[d] = ThreadOf[joining'[d]])
    <3>1. SUFFICES ASSUME NEW d \in Thread, pc'[d] \in {"stopping", "join"}
                   PROVE  /\ joining'[d] \in LooperThread /\ pc'[joining'[d]] # "unborn"
                          /\ d \in Owner \/ (d \in LooperThread /\ ThreadOf[d] = ThreadOf[joining'[d]])
      OBVIOUS
    <3>2. pc[d] \in {"stopping", "join"} /\ joining'[d] = joining[d]
      BY <1>1, <1>6, <1>7, <2>0, <3>1
    <3>3. joining[d] \in Thread /\ pc[joining[d]] # "unborn"
      BY <1>2, <3>2, Threads DEF Exits
    <3>4. pc'[joining[d]] # "unborn"
      BY <1>6, <1>7, <3>3
    <3> QED
      BY <1>2, <3>2, <3>4 DEF Exits
  <2>3. \A u \in LooperThread : Live(u)' /\ mThread'[ThreadOf[u]] # u =>
          u \in exitPending' \/ \E d \in Thread : pc'[d] = "stopping" /\ joining'[d] = u
    <3>1. SUFFICES ASSUME NEW u \in LooperThread, Live(u)', mThread[ThreadOf[u]] # u, u # t
                   PROVE  u \in exitPending \/ \E d \in Thread : pc'[d] = "stopping" /\ joining'[d] = u
      BY <1>1
    <3>2. Live(u)
      BY <1>1, <1>6, <1>7, <3>1, Threads DEF Live
    <3>3. ASSUME NEW d \in Thread, pc[d] = "stopping", joining[d] = u
          PROVE  pc'[d] = "stopping" /\ joining'[d] = u
      BY <1>6, <2>0, <3>1, <3>3
    <3> QED
      BY <1>2, <3>1, <3>2, <3>3 DEF Exits
  <2>4. \A u \in exitPending' :
          \/ pc'[u] \in Handling \cup {"check", "dead"}
          \/ \E d \in Thread : pc'[d] = "join" /\ joining'[d] = u
    <3>1. CASE c = t
      <4>1. SUFFICES ASSUME NEW u \in exitPending, u # t, pc'[u] \notin Handling \cup {"check", "dead"}
                     PROVE  \E d \in Thread : pc'[d] = "join" /\ joining'[d] = u
        BY <1>1, <1>7, <3>1 DEF Handling
      <4>2. pc[u] \notin Handling \cup {"check", "dead"}
        BY <1>2, <1>6, <3>1, <4>1, Threads DEF TypeOK, Handling
      <4>3. ASSUME NEW d \in Thread, pc[d] = "join" PROVE pc'[d] = "join" /\ joining'[d] = joining[d]
        BY <1>1, <1>6, <2>0, <4>3
      <4> QED
        BY <1>2, <4>2, <4>3 DEF Exits
    <3>2. CASE c # t
      <4>1. pc'[c] = "join" /\ joining'[c] = t
        BY <1>7, <2>0, <3>2
      <4>2. SUFFICES ASSUME NEW u \in exitPending, u # t, pc'[u] \notin Handling \cup {"check", "dead"}
                     PROVE  \E d \in Thread : pc'[d] = "join" /\ joining'[d] = u
        BY <1>1, <4>1
      <4>3. pc[u] \notin Handling \cup {"check", "dead"}
        BY <1>2, <1>6, <4>1, <4>2, Threads DEF TypeOK, Handling
      <4>4. ASSUME NEW d \in Thread, pc[d] = "join" PROVE pc'[d] = "join" /\ joining'[d] = joining[d]
        BY <1>1, <1>6, <2>0, <4>4
      <4> QED
        BY <1>2, <4>3, <4>4 DEF Exits
    <3> QED
      BY <3>1, <3>2
  <2> QED
    BY <2>1, <2>2, <2>3, <2>4 DEF Exits
<1> QED
  BY <1>1, <1>2, <1>8, <1>9, <1>10, DeliveriesKept, RepliesKept, InOrderKept DEF IInv

LEMMA JoinInv == ASSUME IInv, NEW c \in Thread, Join(c) PROVE IInv'
<1>1. /\ pc[c] = "join" /\ pc[joining[c]] = "dead"
      /\ joining' = [joining EXCEPT ![c] = None]
      /\ pc' = [pc EXCEPT ![c] = IF c \in Client THEN "free" ELSE "handling"]
      /\ UNCHANGED <<now, scenario, mEventQueue, mThread, mHandlers, mReplies, messageVars, state, event,
                     message, delivering, exitPending>>
  BY DEF Join, messageVars
<1>2. TypeOK /\ InOrder /\ Deliveries /\ Replies /\ Exits
  BY DEF IInv
<1>3. pc'[c] = (IF c \in Client THEN "free" ELSE "handling") /\ \A d \in Thread : d # c => pc'[d] = pc[d]
  BY <1>1, <1>2 DEF TypeOK
<1>4. \A d \in Thread : d # c => joining'[d] = joining[d]
  BY <1>1, <1>2 DEF TypeOK
<1>5. TypeOK'
  <2>1. joining' \in [Thread -> LooperThread \cup {None}]
    BY <1>1, <1>2 DEF TypeOK
  <2>2. PcType'
    BY <1>1, <1>2, Threads DEF TypeOK, PcType, Places
  <2> QED
    BY <1>1, <1>2, <2>1, <2>2 DEF TypeOK, PcType, Places
<1>6. LeavesDeliveries /\ LeavesReplies
  BY <1>1, <1>3, Threads DEF LeavesDeliveries, LeavesReplies, Delivers, Handling
<1>7. Exits'
  <2>1. \A k \in Looper : mThread'[k] # None => ThreadOf[mThread'[k]] = k /\ pc'[mThread'[k]] # "unborn"
    BY <1>1, <1>2, <1>3, Threads DEF Exits, TypeOK
  <2>2. \A d \in Thread : pc'[d] \in {"stopping", "join"} =>
          /\ joining'[d] \in LooperThread /\ pc'[joining'[d]] # "unborn"
          /\ d \in Owner \/ (d \in LooperThread /\ ThreadOf[d] = ThreadOf[joining'[d]])
    BY <1>2, <1>3, <1>4, Threads DEF Exits
  <2>3. \A u \in LooperThread : Live(u)' /\ mThread'[ThreadOf[u]] # u =>
          u \in exitPending' \/ \E d \in Thread : pc'[d] = "stopping" /\ joining'[d] = u
    <3>1. SUFFICES ASSUME NEW u \in LooperThread, Live(u)', mThread[ThreadOf[u]] # u
                   PROVE  u \in exitPending \/ \E d \in Thread : pc'[d] = "stopping" /\ joining'[d] = u
      BY <1>1
    <3>2. Live(u)
      BY <1>1, <1>3, <3>1, Threads DEF Live
    <3>3. ASSUME NEW d \in Thread, pc[d] = "stopping" PROVE pc'[d] = "stopping" /\ joining'[d] = joining[d]
      BY <1>1, <1>3, <1>4, <3>3
    <3> QED
      BY <1>2, <3>1, <3>2, <3>3 DEF Exits
  <2>4. \A u \in exitPending' :
          \/ pc'[u] \in Handling \cup {"check", "dead"}
          \/ \E d \in Thread : pc'[d] = "join" /\ joining'[d] = u
    <3>1. SUFFICES ASSUME NEW u \in exitPending, pc'[u] \notin Handling \cup {"check", "dead"}
                   PROVE  \E d \in Thread : pc'[d] = "join" /\ joining'[d] = u
      BY <1>1
    <3>2. u \in LooperThread /\ pc'[u] = pc[u]
      <4>1. u \in LooperThread /\ u \in Thread /\ u \notin Client
        BY <1>2, <3>1, Threads DEF TypeOK
      <4>2. u = c => pc'[u] = "handling"
        BY <1>3, <4>1
      <4> QED
        BY <1>3, <3>1, <4>1, <4>2 DEF Handling
    <3>3. PICK d \in Thread : pc[d] = "join" /\ joining[d] = u
      BY <1>2, <3>1, <3>2 DEF Exits
    <3>4. d # c
      BY <1>1, <3>1, <3>2, <3>3
    <3> QED
      BY <1>3, <1>4, <3>3, <3>4
  <2> QED
    BY <2>1, <2>2, <2>3, <2>4 DEF Exits
<1> QED
  BY <1>1, <1>2, <1>5, <1>6, <1>7, DeliveriesKept, RepliesKept, InOrderKept DEF IInv

\* What a post leaves alone: pc, but for the threads that it wakes and c, which goes to
\* sleep if it waits.
LEMMA postPc ==
  ASSUME TypeOK, NEW c \in Thread, pc[c] \in Busy, NEW p \in {pc, [pc EXCEPT ![c] = "asleep"]},
         NEW m, NEW h, NEW delayUs, NEW awaiting, post(m, h, delayUs, awaiting, p),
         UNCHANGED <<mThread, joining, exitPending>>
  PROVE  /\ PcType' /\ LeavesExits
         /\ pc'[c] = p[c]
         /\ \A d \in Thread : d # c =>
              pc'[d] = pc[d] \/ (d \in LooperThread /\ pc[d] \in {"wait", "timed"} /\ pc'[d] = "check")
<1> DEFINE l == LooperOf[h]
<1>1. p \in [Thread -> Places] /\ p[c] \in {pc[c], "asleep"} /\ \A d \in Thread : d # c => p[d] = pc[d]
  BY DEF TypeOK, Places
<1>2. pc' \in [Thread -> Places] /\ Woken(pc', p, l)
  <2>1. pc' \in signal(l, p) \/ pc' = p
    BY DEF post
  <2>2. Woken(p, p, l)
    BY DEF Woken
  <2> HIDE DEF l
  <2> QED
    BY <1>1, <2>1, <2>2, signalFacts DEF Places
<1>3. ASSUME NEW d \in Thread, d # c
      PROVE  pc'[d] = pc[d] \/ (d \in LooperThread /\ pc[d] \in {"wait", "timed"} /\ pc'[d] = "check")
  BY <1>1, <1>2, <1>3 DEF Woken, Waiting
<1>4. pc'[c] = p[c]
  BY <1>2 DEF Woken, Waiting, Busy
<1>5. PcType'
  <2>1. ASSUME NEW u \in LooperThread PROVE pc'[u] # "free"
    <3>1. u \in Thread /\ pc[u] # "free"
      BY Threads DEF TypeOK
    <3> QED
      BY <1>1, <1>3, <1>4, <3>1
  <2>2. ASSUME NEW d \in Client PROVE pc'[d] \in {"free", "asleep", "woken", "stopping", "join"}
    <3>1. d \in Thread /\ d \notin LooperThread /\ pc[d] \in {"free", "asleep", "woken", "stopping", "join"}
      BY Threads DEF TypeOK
    <3> QED
      BY <1>1, <1>3, <1>4, <3>1
  <2> QED
    BY <1>2, <2>1, <2>2 DEF PcType
<1>6. LeavesExits
  <2>1. ASSUME NEW d \in Thread PROVE pc'[d] = pc[d] \/ GoesOn(d)
    <3>1. CASE d = c
      BY <1>1, <1>4, <3>1 DEF GoesOn, Busy, Handling
    <3>2. CASE d # c
      BY <1>3, <3>2 DEF GoesOn, Handling
    <3> QED
      BY <3>1, <3>2
  <2> QED
    BY <2>1 DEF LeavesExits
<1> QED
  BY <1>3, <1>4, <1>5, <1>6

LEMMA PostInv ==
  ASSUME IInv, NEW c \in Thread, NEW m \in Message, NEW h \in Handler, NEW delayUs \in 0 .. MaxTime,
         Post(c, m, h, delayUs)
  PROVE  IInv' /\ LeavesExits
<1>1. /\ pc[c] \in Busy /\ post(m, h, delayUs, None, pc)
      /\ UNCHANGED <<now, scenario, mThread, mHandlers, mReplies, message, delivering, joining, exitPending>>
  BY DEF Post
<1>2. TypeOK /\ InOrder /\ Deliveries /\ Replies /\ Exits
  BY DEF IInv
<1>3. /\ PcType' /\ LeavesExits
      /\ pc'[c] = pc[c]
      /\ \A d \in Thread : d # c =>
           pc'[d] = pc[d] \/ (d \in LooperThread /\ pc[d] \in {"wait", "timed"} /\ pc'[d] = "check")
  BY <1>1, <1>2, postPc
<1>4. /\ state[m] = "new" /\ mEventQueue' \in [Looper -> Seq(Message)]
      /\ state' = [state EXCEPT ![m] = "queued"]
      /\ state' \in [Message -> {"new", "queued", "taken", "replied", "handled", "dropped"}]
      /\ event' \in [Message -> [target : Handler \cup {None}, whenUs : 0 .. MaxTime,
                                 sender : Thread \cup {None}]]
      /\ \A n \in Message \ {m} : event'[n] = event[n]
      /\ event'[m].sender = None /\ InOrder'
  <2>1. None \in Thread \cup {None}
    OBVIOUS
  <2>2. PostEffect(m, h, delayUs, None)
    BY <1>1, <1>2, <2>1, postFacts
  <2> QED
    BY <2>2 DEF PostEffect
<1>5. TypeOK'
  BY <1>1, <1>2, <1>3, <1>4 DEF TypeOK, PcType, Places
<1>6. state'[m] = "queued" /\ \A n \in Message \ {m} : state'[n] = state[n]
  BY <1>2, <1>4 DEF TypeOK
<1>7. LeavesDeliveries
  <2>1. \A t \in LooperThread : Delivers(t)' => Delivers(t)
    BY <1>3, Threads DEF Delivers, Handling
  <2>2. \A t \in LooperThread : pc'[t] = "deliver" => pc[t] = "deliver"
    BY <1>3, Threads
  <2> QED
    BY <1>1, <1>4, <1>6, <2>1, <2>2 DEF LeavesDeliveries
<1>8. LeavesReplies
  <2>1. \A d \in Thread : pc[d] \in {"asleep", "woken"} => pc'[d] = pc[d]
    BY <1>3
  <2> QED
    BY <1>1, <1>4, <1>6, <2>1 DEF LeavesReplies
<1> QED
  BY <1>2, <1>3, <1>4, <1>5, <1>7, <1>8, ExitsKept, DeliveriesKept, RepliesKept DEF IInv

LEMMA PostAndAwaitResponseInv ==
  ASSUME IInv, NEW c \in Thread, NEW m \in Message, NEW h \in Handler, PostAndAwaitResponse(c, m, h)
  PROVE  IInv' /\ LeavesExits
<1> DEFINE p == [pc EXCEPT ![c] = "asleep"]
<1>1. /\ pc[c] \in Busy /\ post(m, h, 0, c, p) /\ message' = [message EXCEPT ![c] = m]
      /\ UNCHANGED <<now, scenario, mThread, mHandlers, mReplies, delivering, joining, exitPending>>
  BY DEF PostAndAwaitResponse
<1>2. TypeOK /\ InOrder /\ Deliveries /\ Replies /\ Exits /\ 0 \in 0 .. MaxTime
  BY BoundAssumption DEF IInv
<1>3. p[c] = "asleep" /\ p \in {pc, [pc EXCEPT ![c] = "asleep"]}
  BY <1>2 DEF TypeOK
<1> HIDE DEF p
<1>4. /\ PcType' /\ LeavesExits
      /\ pc'[c] = "asleep"
      /\ \A d \in Thread : d # c =>
           pc'[d] = pc[d] \/ (d \in LooperThread /\ pc[d] \in {"wait", "timed"} /\ pc'[d] = "check")
  <2>1. pc'[c] = p[c]
    BY <1>1, <1>2, <1>3, postPc
  <2> QED
    BY <1>1, <1>2, <1>3, <2>1, postPc
<1>5. /\ state[m] = "new" /\ mEventQueue' \in [Looper -> Seq(Message)]
      /\ state' = [state EXCEPT ![m] = "queued"]
      /\ state' \in [Message -> {"new", "queued", "taken", "replied", "handled", "dropped"}]
      /\ event' \in [Message -> [target : Handler \cup {None}, whenUs : 0 .. MaxTime,
                                 sender : Thread \cup {None}]]
      /\ \A n \in Message \ {m} : event'[n] = event[n]
      /\ event'[m].sender = c /\ InOrder'
  <2>1. PostEffect(m, h, 0, c)
    BY <1>1, <1>2, postFacts
  <2> QED
    BY <2>1 DEF PostEffect
<1>6. TypeOK'
  <2>1. message' \in [Thread -> Message \cup {NoMessage}]
    BY <1>1, <1>2 DEF TypeOK
  <2> QED
    BY <1>1, <1>2, <1>4, <1>5, <2>1 DEF TypeOK, PcType, Places
<1>7. state'[m] = "queued" /\ \A n \in Message \ {m} : state'[n] = state[n]
  BY <1>2, <1>5 DEF TypeOK
<1>8. c \in LooperThread => pc[c] = "handling"
  BY <1>1, <1>2 DEF Busy, TypeOK
<1>9. LeavesDeliveries
  <2>1. \A t \in LooperThread : Delivers(t)' => Delivers(t)
    BY <1>4, <1>8, Threads DEF Delivers, Handling
  <2>2. \A t \in LooperThread : pc'[t] = "deliver" => pc[t] = "deliver"
    BY <1>4, Threads
  <2> QED
    BY <1>1, <1>5, <1>7, <2>1, <2>2 DEF LeavesDeliveries
<1>10. message[c] = NoMessage /\ message'[c] = m /\ \A d \in Thread : d # c => message'[d] = message[d]
  BY <1>1, <1>2 DEF TypeOK, Replies, Busy
<1>11. Replies'
  <2>1. \A d \in Thread : message'[d] # NoMessage => pc'[d] \in {"asleep", "woken"}
    BY <1>2, <1>4, <1>10 DEF Replies
  <2>2. ASSUME NEW n \in Message, state'[n] \in {"queued", "taken"}, event'[n].sender # None
        PROVE  message'[event'[n].sender] = n
    <3>1. CASE n = m
      BY <1>5, <1>10, <3>1
    <3>2. CASE n # m
      <4>1. /\ event'[n] = event[n] /\ state[n] \in {"queued", "taken"} /\ event[n].sender # None
            /\ event[n].sender \in Thread
        BY <1>2, <1>5, <1>7, <2>2, <3>2 DEF TypeOK
      <4>2. message[event[n].sender] = n
        BY <1>2, <4>1 DEF Replies
      <4>3. event[n].sender # c
        BY <1>10, <4>2, Messages
      <4> QED
        BY <1>10, <4>1, <4>2, <4>3
    <3> QED
      BY <3>1, <3>2
  <2>3. \A n \in mReplies' : state'[n] \in {"replied", "handled"}
    BY <1>1, <1>2, <1>5, <1>7 DEF Replies, TypeOK
  <2>4. ReplyWakesItsSender'
    <3>1. SUFFICES ASSUME NEW n \in mReplies PROVE \E d \in Thread : message'[d] = n /\ pc'[d] = "woken"
      BY <1>1 DEF ReplyWakesItsSender
    <3>2. PICK d \in Thread : message[d] = n /\ pc[d] = "woken"
      BY <1>2, <3>1 DEF Replies, ReplyWakesItsSender
    <3>3. d # c
      BY <1>1, <3>2 DEF Busy
    <3> QED
      BY <1>4, <1>10, <3>2, <3>3
  <2> QED
    BY <2>1, <2>2, <2>3, <2>4 DEF Replies
<1> QED
  BY <1>2, <1>4, <1>5, <1>6, <1>9, <1>11, ExitsKept, DeliveriesKept DEF IInv

LEMMA GetReplyInv == ASSUME IInv, NEW c \in Thread, GetReply(c) PROVE IInv' /\ LeavesExits
<1>1. /\ pc[c] = "woken"
      /\ UNCHANGED <<now, scenario, mEventQueue, mThread, mHandlers, messageVars, state, event, delivering,
                     joining, exitPending>>
      /\ \/ /\ message[c] \in mReplies /\ mReplies' = mReplies \ {message[c]}
            /\ message' = [message EXCEPT ![c] = NoMessage]
            /\ pc' = [pc EXCEPT ![c] = IF c \in Client THEN "free" ELSE "handling"]
         \/ message[c] \notin mReplies /\ pc' = [pc EXCEPT ![c] = "asleep"] /\ UNCHANGED <<mReplies, message>>
  BY DEF GetReply, messageVars
<1>2. TypeOK /\ InOrder /\ Deliveries /\ Replies /\ Exits
  BY DEF IInv
<1>3. \A d \in Thread : d # c => pc'[d] = pc[d] /\ message'[d] = message[d]
  BY <1>1, <1>2 DEF TypeOK
<1>4. pc'[c] = (IF message[c] \notin mReplies THEN "asleep" ELSE IF c \in Client THEN "free" ELSE "handling")
  BY <1>1, <1>2 DEF TypeOK
<1>5. TypeOK'
  <2>1. message' \in [Thread -> Message \cup {NoMessage}] /\ mReplies' \subseteq Message
    BY <1>1, <1>2 DEF TypeOK
  <2>2. PcType'
    <3>1. pc' \in [Thread -> Places]
      BY <1>1, <1>2 DEF TypeOK, Places
    <3>2. ASSUME NEW u \in LooperThread PROVE pc'[u] # "free"
      <4>1. u \in Thread /\ u \notin Client /\ pc[u] # "free"
        BY <1>2, Threads DEF TypeOK
      <4>2. u = c => pc'[u] # "free"
        BY <1>4, <4>1
      <4> QED
        BY <1>3, <4>1, <4>2
    <3>3. ASSUME NEW d \in Client PROVE pc'[d] \in {"free", "asleep", "woken", "stopping", "join"}
      <4>1. d \in Thread /\ pc[d] \in {"free", "asleep", "woken", "stopping", "join"}
        BY <1>2, Threads DEF TypeOK
      <4>2. d = c => pc'[d] \in {"asleep", "free"}
        BY <1>4
      <4> QED
        BY <1>3, <4>1, <4>2
    <3> QED
      BY <3>1, <3>2, <3>3 DEF PcType
  <2> QED
    BY <1>1, <1>2, <2>1, <2>2 DEF TypeOK, PcType, Places
<1>6. LeavesExits
  <2>1. c \in exitPending => c \notin Client
    BY <1>2, Threads DEF TypeOK
  <2>2. ASSUME NEW d \in Thread PROVE pc'[d] = pc[d] \/ GoesOn(d)
    <3>1. CASE d = c
      BY <1>1, <1>4, <2>1, <3>1 DEF GoesOn, Handling
    <3> QED
      BY <1>3, <3>1
  <2> QED
    BY <1>1, <2>2 DEF LeavesExits
<1>7. LeavesDeliveries
  BY <1>1, <1>3, <1>4, Threads DEF LeavesDeliveries, Delivers, Handling
<1>8. Replies'
  <2>1. CASE message[c] \notin mReplies
    <3>1. message' = message /\ mReplies' = mReplies /\ pc'[c] = "asleep"
      BY <1>1, <1>4, <2>1
    <3>2. ReplyWakesItsSender'
      BY <1>2, <1>3, <2>1, <3>1 DEF Replies, ReplyWakesItsSender
    <3>3. \A d \in Thread : message'[d] # NoMessage => pc'[d] \in {"asleep", "woken"}
      BY <1>2, <1>3, <3>1 DEF Replies
    <3> QED
      BY <1>1, <1>2, <3>1, <3>2, <3>3 DEF Replies
  <2>2. CASE message[c] \in mReplies
    <3>1. mReplies' = mReplies \ {message[c]} /\ message'[c] = NoMessage
      BY <1>1, <1>2, <2>2 DEF TypeOK
    <3>2. ReplyWakesItsSender'
      BY <1>2, <1>3, <3>1 DEF Replies, ReplyWakesItsSender
    <3>3. \A d \in Thread : message'[d] # NoMessage => pc'[d] \in {"asleep", "woken"}
      BY <1>2, <1>3, <3>1 DEF Replies
    <3>4. ASSUME NEW n \in Message, state[n] \in {"queued", "taken"}, event[n].sender # None
          PROVE  message'[event[n].sender] = n
      <4>1. message[event[n].sender] = n /\ event[n].sender \in Thread
        BY <1>2, <3>4 DEF Replies, TypeOK
      <4>2. n \notin mReplies
        BY <1>2, <3>4 DEF Replies
      <4> QED
        BY <1>3, <2>2, <4>1, <4>2
    <3>5. \A n \in mReplies' : state'[n] \in {"replied", "handled"}
      BY <1>1, <1>2, <3>1 DEF Replies
    <3> QED
      BY <1>1, <3>2, <3>3, <3>4, <3>5 DEF Replies
  <2> QED
    BY <2>1, <2>2
<1> QED
  BY <1>1, <1>2, <1>5, <1>6, <1>7, <1>8, ExitsKept, DeliveriesKept, InOrderKept DEF IInv

LEMMA EnterFacts ==
  ASSUME TypeOK, NEW t \in LooperThread, NEW place \in Places \ {"free"}, Enter(t, place)
  PROVE  /\ PcType' /\ t \in Thread /\ t \notin Client
         /\ pc'[t] = place /\ \A c \in Thread : c # t => pc'[c] = pc[c]
<1>1. t \in Thread /\ t \notin Client /\ pc' = [pc EXCEPT ![t] = place] /\ pc \in [Thread -> Places]
  BY Threads DEF Enter, TypeOK, Places
<1>2. pc' \in [Thread -> Places] /\ pc'[t] = place /\ \A c \in Thread : c # t => pc'[c] = pc[c]
  BY <1>1
<1>3. \A u \in LooperThread : pc'[u] # "free"
  BY <1>2, Threads DEF TypeOK
<1>4. \A c \in Client : pc'[c] \in {"free", "asleep", "woken", "stopping", "join"}
  BY <1>1, <1>2, Threads DEF TypeOK
<1> QED
  BY <1>1, <1>2, <1>3, <1>4 DEF PcType

\* A step of a looper's thread without a message.
LEMMA IdleStep ==
  ASSUME IInv, NEW t \in LooperThread, pc[t] \in {"check", "loop", "timed"},
         NEW place \in {"check", "loop", "wait", "timed", "dead"}, Enter(t, place),
         t \in exitPending /\ pc[t] = "check" => place = "dead",
         delivering' \in [LooperThread -> Message \cup {NoMessage}],
         \A u \in LooperThread : u # t => delivering'[u] = delivering[u],
         UNCHANGED <<mEventQueue, mReplies, messageVars, message, loopVars>>
  PROVE  IInv' /\ LeavesExits
<1>1. TypeOK /\ InOrder /\ Deliveries /\ Replies /\ Exits
  BY DEF IInv
<1>2. UNCHANGED <<now, scenario, mThread, mHandlers, joining, exitPending, mEventQueue, mReplies, state, event,
                  message>>
  BY DEF loopVars, messageVars
<1>3. /\ PcType' /\ t \in Thread
      /\ pc'[t] = place /\ \A c \in Thread : c # t => pc'[c] = pc[c]
  <2>1. place \in Places \ {"free"}
    BY DEF Places
  <2> QED
    BY <1>1, <2>1, EnterFacts
<1>4. TypeOK'
  BY <1>1, <1>2, <1>3 DEF TypeOK, PcType, Places
<1>5. LeavesExits
  BY <1>2, <1>3 DEF LeavesExits, GoesOn, Handling
<1>6. LeavesDeliveries
  BY <1>2, <1>3, Threads DEF LeavesDeliveries, Delivers, Handling
<1>7. LeavesReplies
  BY <1>2, <1>3 DEF LeavesReplies
<1> QED
  BY <1>1, <1>2, <1>4, <1>5, <1>6, <1>7, ExitsKept, DeliveriesKept, RepliesKept, InOrderKept DEF IInv, messageVars

LEMMA IdleInv ==
  ASSUME IInv, NEW t \in LooperThread,
         Check(t) \/ Stopped(t) \/ Wait(t) \/ WaitRelative(t) \/ TimeUp(t)
  PROVE  IInv' /\ LeavesExits
<1>1. delivering \in [LooperThread -> Message \cup {NoMessage}] /\ mEventQueue \in [Looper -> Seq(Message)]
  BY DEF IInv, TypeOK
<1>2. CASE Check(t)
  <2> DEFINE place == IF t \in exitPending THEN "dead" ELSE "loop"
  <2>1. /\ pc[t] = "check" /\ Enter(t, place) /\ place \in {"check", "loop", "wait", "timed", "dead"}
        /\ t \in exitPending /\ pc[t] = "check" => place = "dead"
        /\ UNCHANGED <<mEventQueue, mReplies, messageVars, message, loopVars>>
    BY <1>2 DEF Check
  <2>2. /\ delivering' \in [LooperThread -> Message \cup {NoMessage}]
        /\ \A u \in LooperThread : u # t => delivering'[u] = delivering[u]
    BY <1>1, <1>2 DEF Check
  <2> HIDE DEF place
  <2> QED
    BY <2>1, <2>2, IdleStep
<1>3. CASE Stopped(t)
  <2>1. /\ pc[t] = "loop" /\ Enter(t, "dead") /\ delivering' = delivering
        /\ UNCHANGED <<mEventQueue, mReplies, messageVars, message, loopVars>>
    BY <1>3 DEF Stopped
  <2> QED
    BY <1>1, <2>1, IdleStep
<1>4. CASE Wait(t)
  <2>1. /\ pc[t] = "loop" /\ Enter(t, "wait") /\ delivering' = delivering
        /\ UNCHANGED <<mEventQueue, mReplies, messageVars, message, loopVars>>
    BY <1>4 DEF Wait, Looping
  <2> QED
    BY <1>1, <2>1, IdleStep
<1>5. CASE WaitRelative(t)
  <2>1. /\ pc[t] = "loop" /\ Enter(t, "timed")
        /\ UNCHANGED <<mEventQueue, mReplies, messageVars, message, loopVars>>
    BY <1>5 DEF WaitRelative, Looping
  <2>2. First(t) \in Message
    <3>1. ThreadOf[t] \in Looper /\ mEventQueue[ThreadOf[t]] # <<>>
      BY <1>5, Threads DEF WaitRelative
    <3>2. mEventQueue[ThreadOf[t]] \in Seq(Message)
      BY <1>1, <3>1
    <3> QED
      BY <3>1, <3>2 DEF First
  <2>3. /\ delivering' \in [LooperThread -> Message \cup {NoMessage}]
        /\ \A u \in LooperThread : u # t => delivering'[u] = delivering[u]
    BY <1>1, <1>5, <2>2 DEF WaitRelative
  <2> QED
    BY <2>1, <2>3, IdleStep
<1>6. CASE TimeUp(t)
  <2>1. /\ pc[t] = "timed" /\ Enter(t, "check") /\ delivering' = delivering
        /\ UNCHANGED <<mEventQueue, mReplies, messageVars, message, loopVars>>
    BY <1>6 DEF TimeUp
  <2> QED
    BY <1>1, <2>1, IdleStep
<1> QED
  BY <1>2, <1>3, <1>4, <1>5, <1>6

\* The first message of a looper's queue is queued, and the others come after it.
LEMMA FirstFacts ==
  ASSUME TypeOK, InOrder, NEW t \in LooperThread, mEventQueue[ThreadOf[t]] # <<>>
  PROVE  /\ First(t) \in Message /\ state[First(t)] = "queued" /\ LooperOf[event[First(t)].target] = ThreadOf[t]
         /\ \A n \in Message :
              state[n] = "queued" /\ n # First(t) /\ LooperOf[event[n].target] = ThreadOf[t] => Before(First(t), n)
<1> DEFINE q == mEventQueue[ThreadOf[t]]
<1>1. ThreadOf[t] \in Looper /\ q \in Seq(Message) /\ q # <<>> /\ First(t) = q[1]
  BY Threads DEF TypeOK, First
<1>2. 1 \in DOMAIN q /\ \A i \in DOMAIN q : i = 1 \/ 1 < i
  BY <1>1
<1>3. Ordered(q, Times) /\ ToSet(q) = {m \in Message : state[m] = "queued" /\ LooperOf[event[m].target] = ThreadOf[t]}
  BY <1>1 DEF InOrder
<1> HIDE DEF q
<1>4. First(t) \in ToSet(q)
  BY <1>1, <1>2 DEF ToSet
<1>5. ASSUME NEW n \in Message, state[n] = "queued", n # First(t), LooperOf[event[n].target] = ThreadOf[t]
      PROVE  Before(First(t), n)
  <2>1. n \in ToSet(q)
    BY <1>3, <1>5
  <2>2. PICK i \in DOMAIN q : n = q[i]
    BY <2>1 DEF ToSet
  <2>3. Times[q[1]] < Times[q[i]] \/ (Times[q[1]] = Times[q[i]] /\ q[1] < q[i])
    BY <1>1, <1>2, <1>3, <1>5, <2>2 DEF Ordered
  <2>4. Times[n] = event[n].whenUs /\ Times[First(t)] = event[First(t)].whenUs
    BY <1>3, <1>4 DEF Times
  <2> QED
    BY <1>1, <2>2, <2>3, <2>4 DEF Before
<1> QED
  BY <1>3, <1>4, <1>5

LEMMA TakeInv == ASSUME IInv, NEW t \in LooperThread, Take(t) PROVE IInv' /\ LeavesExits
<1> DEFINE l == ThreadOf[t]
           m == First(t)
<1>1. /\ pc[t] = "loop" /\ mEventQueue[l] # <<>> /\ Enter(t, "deliver")
      /\ delivering' = [delivering EXCEPT ![t] = m] /\ state' = [state EXCEPT ![m] = "taken"]
      /\ mEventQueue' = [mEventQueue EXCEPT ![l] = Tail(mEventQueue[l])]
      /\ UNCHANGED <<mReplies, event, message, now, scenario, mThread, mHandlers, joining, exitPending>>
  BY DEF Take, Looping, loopVars
<1>2. TypeOK /\ InOrder /\ Deliveries /\ Replies /\ Exits /\ l \in Looper
  BY Threads DEF IInv
<1>3. PcType' /\ t \in Thread /\ pc'[t] = "deliver" /\ \A c \in Thread : c # t => pc'[c] = pc[c]
  <2>1. "deliver" \in Places \ {"free"}
    BY DEF Places
  <2> QED
    BY <1>1, <1>2, <2>1, EnterFacts
<1>4. m \in Message /\ state[m] = "queued" /\ LooperOf[event[m].target] = l
  BY <1>1, <1>2, FirstFacts
<1>5. /\ Tail(mEventQueue[l]) \in Seq(Message) /\ Ordered(Tail(mEventQueue[l]), Times)
      /\ ToSet(Tail(mEventQueue[l])) = ToSet(mEventQueue[l]) \ {m}
  <2>1. Message \in SUBSET Nat /\ Times \in [Message -> Int]
    BY <1>2, Messages
  <2>2. mEventQueue[l] \in Seq(Message) /\ Ordered(mEventQueue[l], Times)
    BY <1>2 DEF InOrder, TypeOK
  <2> QED
    BY <1>1, <2>1, <2>2, TailInOrder DEF First
<1> HIDE DEF m
<1>6. state'[m] = "taken" /\ \A n \in Message : n # m => state'[n] = state[n]
  BY <1>1, <1>2, <1>4 DEF TypeOK
<1>7. /\ delivering' \in [LooperThread -> Message \cup {NoMessage}] /\ delivering'[t] = m
      /\ \A u \in LooperThread : u # t => delivering'[u] = delivering[u]
  BY <1>1, <1>2, <1>4 DEF TypeOK
<1>8. /\ mEventQueue' \in [Looper -> Seq(Message)] /\ mEventQueue'[l] = Tail(mEventQueue[l])
      /\ \A k \in Looper : k # l => mEventQueue'[k] = mEventQueue[k]
  BY <1>1, <1>2, <1>5 DEF TypeOK
<1>9. TypeOK'
  <2>1. state' \in [Message -> {"new", "queued", "taken", "replied", "handled", "dropped"}]
    BY <1>1, <1>2 DEF TypeOK
  <2> QED
    BY <1>1, <1>2, <1>3, <1>7, <1>8, <2>1 DEF TypeOK, PcType, Places
<1>10. InOrder'
  <2>1. Times' = Times /\ Posted' = Posted
    BY <1>1, <1>4, <1>6 DEF Times, Posted
  <2>2. ASSUME NEW k \in Looper
        PROVE  /\ Ordered(mEventQueue'[k], Times)
               /\ ToSet(mEventQueue'[k]) = {n \in Message : state'[n] = "queued" /\ LooperOf[event[n].target] = k}
    <3>1. /\ Ordered(mEventQueue[k], Times)
          /\ ToSet(mEventQueue[k]) = {n \in Message : state[n] = "queued" /\ LooperOf[event[n].target] = k}
      BY <1>2 DEF InOrder
    <3>2. CASE k = l
      BY <1>5, <1>6, <1>8, <3>1, <3>2
    <3>3. CASE k # l
      BY <1>4, <1>6, <1>8, <3>1, <3>3
    <3> QED
      BY <3>2, <3>3
  <2>3. \A n \in Message : state'[n] = "queued" => event'[n].target \in Handler
    BY <1>1, <1>2, <1>6 DEF InOrder
  <2>4. \E n \in Message \cup {NoMessage} : Posted' = 1 .. n
    BY <1>2, <2>1 DEF InOrder
  <2> QED
    BY <1>1, <2>1, <2>2, <2>3, <2>4 DEF InOrder
<1>11. LeavesExits
  BY <1>1, <1>3 DEF LeavesExits, GoesOn, Handling
<1>12. Deliveries'
  <2>1. ASSUME NEW u \in LooperThread, u # t
        PROVE  /\ Delivers(u)' <=> Delivers(u)
               /\ pc'[u] = pc[u] /\ delivering'[u] = delivering[u]
    BY <1>3, <1>7, <2>1, Threads DEF Delivers
  <2>2. ASSUME NEW u \in LooperThread, u # t, Delivers(u)
        PROVE  delivering[u] \in Message /\ delivering[u] # m /\ state'[delivering[u]] = state[delivering[u]]
    BY <1>2, <1>4, <1>6, <2>2 DEF Deliveries
  <2>3. \A u \in LooperThread : Delivers(u)' =>
          /\ delivering'[u] \in Message /\ state'[delivering'[u]] \in {"taken", "replied"}
          /\ pc'[u] = "deliver" => state'[delivering'[u]] = "taken"
    <3>1. SUFFICES ASSUME NEW u \in LooperThread, Delivers(u)'
                   PROVE  /\ delivering'[u] \in Message /\ state'[delivering'[u]] \in {"taken", "replied"}
                          /\ pc'[u] = "deliver" => state'[delivering'[u]] = "taken"
      OBVIOUS
    <3>2. CASE u = t
      BY <1>4, <1>6, <1>7, <3>2
    <3>3. CASE u # t
      <4>1. Delivers(u) /\ pc'[u] = pc[u] /\ delivering'[u] = delivering[u]
        BY <2>1, <3>1, <3>3
      <4> QED
        BY <1>2, <2>2, <3>3, <4>1 DEF Deliveries
    <3> QED
      BY <3>2, <3>3
  <2>4. \A u, v \in LooperThread : Delivers(u)' /\ Delivers(v)' /\ delivering'[u] = delivering'[v] => u = v
    <3>1. SUFFICES ASSUME NEW u \in LooperThread, NEW v \in LooperThread, u # v, Delivers(u)', Delivers(v)'
                   PROVE  delivering'[u] # delivering'[v]
      OBVIOUS
    <3>2. CASE u = t
      BY <1>7, <2>1, <2>2, <3>1, <3>2
    <3>3. CASE v = t
      BY <1>7, <2>1, <2>2, <3>1, <3>3
    <3>4. CASE u # t /\ v # t
      BY <1>2, <2>1, <3>1, <3>4 DEF Deliveries
    <3> QED
      BY <3>2, <3>3, <3>4
  <2> QED
    BY <2>3, <2>4 DEF Deliveries
<1>13. LeavesReplies
  BY <1>1, <1>3, <1>4, <1>6 DEF LeavesReplies
<1> QED
  BY <1>2, <1>9, <1>10, <1>11, <1>12, <1>13, ExitsKept, RepliesKept DEF IInv

\* A step of a thread with the message that it has taken.
LEMMA SettledDeliveries ==
  ASSUME Deliveries, NEW t \in LooperThread, Delivers(t),
         \A u \in LooperThread : u # t =>
           /\ Delivers(u)' => Delivers(u) /\ delivering'[u] = delivering[u]
           /\ pc'[u] = "deliver" => pc[u] = "deliver",
         \A n \in Message : n # delivering[t] => state'[n] = state[n],
         Delivers(t)' => /\ delivering'[t] = delivering[t] /\ pc'[t] # "deliver"
                         /\ state'[delivering[t]] \in {"taken", "replied"}
  PROVE  Deliveries'
<1>1. ASSUME NEW u \in LooperThread, u # t, Delivers(u)'
      PROVE  /\ delivering'[u] \in Message /\ delivering'[u] # delivering[t]
             /\ state'[delivering'[u]] \in {"taken", "replied"}
             /\ pc'[u] = "deliver" => state'[delivering'[u]] = "taken"
  BY <1>1 DEF Deliveries
<1>2. Delivers(t)' => /\ delivering'[t] \in Message /\ state'[delivering'[t]] \in {"taken", "replied"}
                      /\ pc'[t] # "deliver"
  BY DEF Deliveries
<1>3. \A u \in LooperThread : Delivers(u)' =>
        /\ delivering'[u] \in Message /\ state'[delivering'[u]] \in {"taken", "replied"}
        /\ pc'[u] = "deliver" => state'[delivering'[u]] = "taken"
  BY <1>1, <1>2
<1>4. ASSUME NEW u \in LooperThread, NEW v \in LooperThread, u # v, Delivers(u)', Delivers(v)'
      PROVE  delivering'[u] # delivering'[v]
  <2>1. CASE u = t
    BY <1>1, <1>4, <2>1
  <2>2. CASE v = t
    BY <1>1, <1>4, <2>2
  <2>3. CASE u # t /\ v # t
    BY <1>4, <2>3 DEF Deliveries
  <2> QED
    BY <2>1, <2>2, <2>3
<1> QED
  BY <1>3, <1>4 DEF Deliveries

LEMMA deliverMessageInv ==
  ASSUME IInv, NEW t \in LooperThread, deliverMessage(t) PROVE IInv' /\ LeavesExits
<1> DEFINE m == delivering[t]
<1>1. /\ pc[t] = "deliver"
      /\ UNCHANGED <<mEventQueue, mReplies, event, message, now, scenario, mThread, mHandlers, joining, exitPending>>
  BY DEF deliverMessage, loopVars
<1>2. TypeOK /\ InOrder /\ Deliveries /\ Replies /\ Exits
  BY DEF IInv
<1>3. Delivers(t) /\ m \in Message /\ state[m] = "taken"
  BY <1>1, <1>2 DEF Delivers, Deliveries
<1>4. {"handling", "check"} \subseteq Places \ {"free"}
  BY DEF Places
<1>5. CASE Enter(t, "handling") /\ UNCHANGED state /\ UNCHANGED delivering
  <2>1. PcType' /\ t \in Thread /\ pc'[t] = "handling" /\ \A c \in Thread : c # t => pc'[c] = pc[c]
    BY <1>2, <1>4, <1>5, EnterFacts
  <2>2. TypeOK'
    BY <1>1, <1>2, <1>5, <2>1 DEF TypeOK, PcType, Places
  <2>3. LeavesExits /\ LeavesDeliveries /\ LeavesReplies
    BY <1>1, <1>5, <2>1, Threads DEF LeavesExits, GoesOn, Handling, LeavesDeliveries, LeavesReplies, Delivers
  <2> QED
    BY <1>1, <1>2, <1>5, <2>2, <2>3, ExitsKept, DeliveriesKept, RepliesKept, InOrderKept DEF IInv, messageVars
<1>6. CASE /\ Enter(t, "check") /\ state' = [state EXCEPT ![m] = "dropped"]
           /\ delivering' = [delivering EXCEPT ![t] = NoMessage]
  <2>1. PcType' /\ t \in Thread /\ pc'[t] = "check" /\ \A c \in Thread : c # t => pc'[c] = pc[c]
    BY <1>2, <1>4, <1>6, EnterFacts
  <2>2. state'[m] = "dropped" /\ \A n \in Message : n # m => state'[n] = state[n]
    BY <1>2, <1>3, <1>6 DEF TypeOK
  <2>3. TypeOK'
    BY <1>1, <1>2, <1>6, <2>1 DEF TypeOK, PcType, Places
  <2>4. LeavesExits
    BY <1>1, <2>1 DEF LeavesExits, GoesOn, Handling
  <2>5. LeavesReplies
    BY <1>1, <1>3, <2>1, <2>2 DEF LeavesReplies
  <2>6. Deliveries'
    <3>1. \A u \in LooperThread : u # t =>
            /\ Delivers(u)' => Delivers(u) /\ delivering'[u] = delivering[u]
            /\ pc'[u] = "deliver" => pc[u] = "deliver"
      BY <1>2, <1>6, <2>1, Threads DEF Delivers, TypeOK
    <3>2. ~Delivers(t)'
      BY <2>1 DEF Delivers, Handling
    <3> QED
      BY <1>2, <1>3, <2>2, <3>1, <3>2, SettledDeliveries
  <2>7. InOrder'
    <3>1. \A n \in Message \ {m} : event'[n] = event[n]
      BY <1>1
    <3> HIDE DEF m
    <3> QED
      BY <1>1, <1>2, <1>3, <1>6, <3>1, SettledInOrder
  <2> QED
    BY <1>2, <2>3, <2>4, <2>5, <2>6, <2>7, ExitsKept, RepliesKept DEF IInv
<1> QED
  BY <1>5, <1>6 DEF deliverMessage

LEMMA postReplyInv == ASSUME IInv, NEW t \in LooperThread, postReply(t) PROVE IInv' /\ LeavesExits
<1> DEFINE m == delivering[t]
<1>1. /\ pc[t] = "handling" /\ event[m].sender # None /\ state[m] = "taken"
      /\ mReplies' = mReplies \cup {m} /\ state' = [state EXCEPT ![m] = "replied"]
      /\ pc' = [c \in Thread |-> IF pc[c] = "asleep" THEN "woken" ELSE pc[c]]
      /\ UNCHANGED <<mEventQueue, event, message, delivering, now, scenario, mThread, mHandlers, joining,
                     exitPending>>
  BY DEF postReply, loopVars
<1>2. TypeOK /\ InOrder /\ Deliveries /\ Replies /\ Exits
  BY DEF IInv
<1>3. Delivers(t) /\ m \in Message
  BY <1>1, <1>2 DEF Delivers, Handling, Deliveries
<1>4. \A c \in Thread : pc'[c] = pc[c] \/ (pc[c] = "asleep" /\ pc'[c] = "woken")
  BY <1>1
<1>5. state'[m] = "replied" /\ \A n \in Message : n # m => state'[n] = state[n]
  BY <1>1, <1>2, <1>3 DEF TypeOK
<1>6. TypeOK'
  <2>1. PcType'
    <3>1. pc' \in [Thread -> Places]
      BY <1>1, <1>2 DEF TypeOK, Places
    <3>2. \A u \in LooperThread : pc'[u] # "free"
      BY <1>2, <1>4, Threads DEF TypeOK
    <3>3. \A c \in Client : pc'[c] \in {"free", "asleep", "woken", "stopping", "join"}
      BY <1>2, <1>4, Threads DEF TypeOK
    <3> QED
      BY <3>1, <3>2, <3>3 DEF PcType
  <2>2. /\ state' \in [Message -> {"new", "queued", "taken", "replied", "handled", "dropped"}]
        /\ mReplies' \subseteq Message
    BY <1>1, <1>2, <1>3 DEF TypeOK
  <2> QED
    BY <1>1, <1>2, <2>1, <2>2 DEF TypeOK, PcType, Places
<1>7. LeavesExits
  <2>1. ASSUME NEW c \in Thread PROVE pc'[c] = pc[c] \/ GoesOn(c)
    BY <1>4 DEF GoesOn, Handling
  <2> QED
    BY <1>1, <2>1 DEF LeavesExits
<1>8. Deliveries'
  <2>1. \A u \in LooperThread : /\ Delivers(u)' => Delivers(u) /\ delivering'[u] = delivering[u]
                                /\ pc'[u] = "deliver" => pc[u] = "deliver"
    BY <1>1, <1>4, Threads DEF Delivers, Handling
  <2>2. pc'[t] # "deliver" /\ delivering'[t] = m
    BY <1>1, <1>4, Threads
  <2> QED
    BY <1>2, <1>3, <1>5, <2>1, <2>2, SettledDeliveries
<1>9. Replies'
  <2>1. \A c \in Thread : message'[c] # NoMessage => pc'[c] \in {"asleep", "woken"}
    BY <1>1, <1>2, <1>4 DEF Replies
  <2>2. \A n \in Message :
          state'[n] \in {"queued", "taken"} /\ event'[n].sender # None => message'[event'[n].sender] = n
    BY <1>1, <1>2, <1>5 DEF Replies
  <2>3. \A n \in mReplies' : state'[n] \in {"replied", "handled"}
    BY <1>1, <1>2, <1>5 DEF Replies, TypeOK
  <2>4. ASSUME NEW n \in mReplies' PROVE \E c \in Thread : message'[c] = n /\ pc'[c] = "woken"
    <3>1. CASE n = m
      <4>1. event[m].sender \in Thread /\ message[event[m].sender] = m
        BY <1>1, <1>2, <1>3 DEF Replies, TypeOK
      <4>2. m # NoMessage
        BY <1>3, Messages
      <4>3. pc[event[m].sender] \in {"asleep", "woken"}
        BY <1>2, <4>1, <4>2 DEF Replies
      <4>4. pc'[event[m].sender] = "woken"
        BY <1>1, <4>1, <4>3
      <4> QED
        BY <1>1, <3>1, <4>1, <4>4
    <3>2. CASE n # m
      <4>1. PICK c \in Thread : message[c] = n /\ pc[c] = "woken"
        BY <1>1, <1>2, <2>4, <3>2 DEF Replies, ReplyWakesItsSender
      <4> QED
        BY <1>1, <1>4, <4>1
    <3> QED
      BY <3>1, <3>2
  <2> QED
    BY <2>1, <2>2, <2>3, <2>4 DEF Replies, ReplyWakesItsSender
<1>10. InOrder'
  <2>1. \A n \in Message \ {m} : event'[n] = event[n]
    BY <1>1
  <2> HIDE DEF m
  <2> QED
    BY <1>1, <1>2, <1>3, <2>1, SettledInOrder
<1> QED
  BY <1>2, <1>6, <1>7, <1>8, <1>9, <1>10, ExitsKept DEF IInv

LEMMA ReturnInv == ASSUME IInv, NEW t \in LooperThread, Return(t) PROVE IInv' /\ LeavesExits
<1> DEFINE m == delivering[t]
<1>1. /\ pc[t] = "handling" /\ (event[m].sender = None \/ state[m] = "replied")
      /\ state' = [state EXCEPT ![m] = "handled"] /\ event' = [event EXCEPT ![m] = Freed]
      /\ Enter(t, "check") /\ delivering' = [delivering EXCEPT ![t] = NoMessage]
      /\ UNCHANGED <<mEventQueue, mReplies, message, now, scenario, mThread, mHandlers, joining, exitPending>>
  BY DEF Return, loopVars
<1>2. TypeOK /\ InOrder /\ Deliveries /\ Replies /\ Exits
  BY DEF IInv
<1>3. Delivers(t) /\ m \in Message /\ state[m] \in {"taken", "replied"}
  BY <1>1, <1>2 DEF Delivers, Handling, Deliveries
<1>4. PcType' /\ t \in Thread /\ pc'[t] = "check" /\ \A c \in Thread : c # t => pc'[c] = pc[c]
  <2>1. "check" \in Places \ {"free"}
    BY DEF Places
  <2> QED
    BY <1>1, <1>2, <2>1, EnterFacts
<1>5. state'[m] = "handled" /\ \A n \in Message : n # m => state'[n] = state[n]
  BY <1>1, <1>2, <1>3 DEF TypeOK
<1>6. \A n \in Message \ {m} : event'[n] = event[n]
  BY <1>1, <1>2 DEF TypeOK
<1>7. TypeOK'
  <2>1. Freed \in [target : Handler \cup {None}, whenUs : 0 .. MaxTime, sender : Thread \cup {None}]
    BY BoundAssumption DEF Freed
  <2>2. /\ state' \in [Message -> {"new", "queued", "taken", "replied", "handled", "dropped"}]
        /\ event' \in [Message -> [target : Handler \cup {None}, whenUs : 0 .. MaxTime,
                                   sender : Thread \cup {None}]]
        /\ delivering' \in [LooperThread -> Message \cup {NoMessage}]
    BY <1>1, <1>2, <2>1 DEF TypeOK
  <2> QED
    BY <1>1, <1>2, <1>4, <2>2 DEF TypeOK, PcType, Places
<1>8. LeavesExits
  BY <1>1, <1>4 DEF LeavesExits, GoesOn, Handling
<1>9. Deliveries'
  <2>1. \A u \in LooperThread : u # t =>
          /\ Delivers(u)' => Delivers(u) /\ delivering'[u] = delivering[u]
          /\ pc'[u] = "deliver" => pc[u] = "deliver"
    BY <1>1, <1>2, <1>4, Threads DEF Delivers, TypeOK
  <2>2. ~Delivers(t)'
    BY <1>4 DEF Delivers, Handling
  <2> QED
    BY <1>2, <1>3, <1>5, <2>1, <2>2, SettledDeliveries
<1>10. LeavesReplies
  BY <1>1, <1>3, <1>4, <1>5, <1>6 DEF LeavesReplies
<1>11. InOrder'
  <2> HIDE DEF m
  <2> QED
    BY <1>1, <1>2, <1>3, <1>6, SettledInOrder
<1> QED
  BY <1>2, <1>7, <1>8, <1>9, <1>10, <1>11, ExitsKept, RepliesKept DEF IInv

\* The invariant does not need the clock, or what does not change.
LEMMA StutterInv == ASSUME IInv, UNCHANGED vars PROVE IInv' /\ LeavesExits
<1>1. TypeOK'
  BY DEF IInv, TypeOK, vars, messageVars
<1>2. LeavesExits /\ LeavesDeliveries /\ LeavesReplies
  BY DEF vars, messageVars, LeavesExits, LeavesDeliveries, LeavesReplies, Delivers
<1>3. UNCHANGED <<mEventQueue, messageVars>>
  BY DEF vars
<1> QED
  BY <1>1, <1>2, <1>3, ExitsKept, DeliveriesKept, RepliesKept, InOrderKept DEF IInv

\* The steps that do not start a looper, stop one or wait for its thread.
OtherStep ==
  \/ UNCHANGED vars \/ Tick \/ \E t \in LooperThread : Run(t)
  \/ \E c \in Thread :
       \/ GetReply(c)
       \/ \E h \in Handler :
            \/ unregisterHandler(c, h)
            \/ \E m \in Message :
                 \/ PostAndAwaitResponse(c, m, h)
                 \/ \E delayUs \in 0 .. MaxTime : Post(c, m, h, delayUs)

LEMMA Steps ==
  ASSUME TypeOK, [Next]_vars
  PROVE  \/ OtherStep
         \/ \E c \in Thread : \/ \E l \in Looper : stop(c, l) \/ \E t \in LooperThread : start(c, l, t)
                              \/ RequestExit(c) \/ Join(c)
<1>1. scenario.threads \subseteq Thread
  BY Threads DEF TypeOK
<1> QED
  BY <1>1 DEF Next, Call, Proceed, OtherStep

LEMMA RunInv == ASSUME IInv, NEW t \in LooperThread, Run(t) PROVE IInv' /\ LeavesExits
  BY IdleInv, TakeInv, deliverMessageInv, postReplyInv, ReturnInv DEF Run

LEMMA OtherInv == ASSUME IInv, OtherStep PROVE IInv' /\ LeavesExits
  BY StutterInv, TickInv, RunInv, GetReplyInv, unregisterHandlerInv, PostInv, PostAndAwaitResponseInv DEF OtherStep

LEMMA NextInv == ASSUME IInv, [Next]_vars PROVE IInv'
  BY OtherInv, startInv, stopInv, RequestExitInv, JoinInv, Steps DEF IInv
-----------------------------------------------------------------------------
(* For any number of owners and threads *)

(***************************************************************************)
(* The queues stay in the order of the times and the posts, each message   *)
(* is delivered by one thread, and a sender waits until its reply is there *)
(* (ALooper::post() and loop(), ALooperRoster).                            *)
(***************************************************************************)
THEOREM Invariant == Spec => []IInv
<1>1. Init => IInv
  BY InitInv
<1>2. IInv /\ [Next]_vars => IInv'
  BY NextInv
<1> QED
  BY <1>1, <1>2, PTL DEF Spec

(***************************************************************************)
(* The loopers, the roster and the threads keep their types.               *)
(***************************************************************************)
THEOREM TypeCorrect == Spec => []TypeOK
<1>1. IInv => TypeOK
  BY DEF IInv
<1> QED
  BY <1>1, Invariant, PTL

(***************************************************************************)
(* ALooperRoster::postReply() broadcasts: whatever senders wait for a      *)
(* reply, the one whose reply it is looks for it.                          *)
(***************************************************************************)
THEOREM ReplyWakesItsSenderHolds == Spec => []ReplyWakesItsSender
<1>1. IInv => ReplyWakesItsSender
  BY DEF IInv, Replies
<1> QED
  BY <1>1, Invariant, PTL

LEMMA TakesFirst ==
  ASSUME IInv, [Next]_vars, NEW m \in Message, Takes(m)
  PROVE  \E t \in LooperThread : Take(t) /\ m = First(t)
<1>1. state \in [Message -> {"new", "queued", "taken", "replied", "handled", "dropped"}]
  BY DEF IInv, TypeOK
<1>2. state[m] = "queued" /\ state'[m] = "taken"
  BY DEF Takes
<1>3. ASSUME NEW n \in Message, NEW s \in {"queued", "replied", "handled", "dropped"}
      PROVE  state' # [state EXCEPT ![n] = s]
  BY <1>1, <1>2
<1>4. ASSUME NEW t \in LooperThread, Delivers(t) PROVE delivering[t] \in Message
  BY <1>4 DEF IInv, Deliveries
<1>5. ASSUME NEW t \in LooperThread, Run(t) PROVE Take(t) /\ m = First(t)
  <2>1. state' # state
    BY <1>2
  <2>2. ~(Check(t) \/ Stopped(t) \/ Wait(t) \/ WaitRelative(t) \/ TimeUp(t))
    BY <2>1 DEF Check, Stopped, Wait, WaitRelative, TimeUp, messageVars
  <2>3. ~(deliverMessage(t) \/ postReply(t) \/ Return(t))
    BY <1>3, <1>4, <2>1 DEF deliverMessage, postReply, Return, Delivers, Handling
  <2>4. Take(t)
    BY <1>5, <2>2, <2>3 DEF Run
  <2>5. state' = [state EXCEPT ![First(t)] = "taken"]
    BY <2>4 DEF Take
  <2> QED
    BY <1>1, <1>2, <2>4, <2>5
<1>6. ASSUME NEW c \in Thread, NEW h \in Handler, NEW n \in Message, NEW delayUs \in 0 .. MaxTime
      PROVE  ~Post(c, n, h, delayUs) /\ ~PostAndAwaitResponse(c, n, h)
  BY <1>3 DEF Post, PostAndAwaitResponse, post
<1>7. ASSUME NEW c \in Thread, NEW h \in Handler PROVE ~unregisterHandler(c, h)
  BY <1>2 DEF unregisterHandler, messageVars
<1>8. ASSUME NEW c \in Thread PROVE ~GetReply(c)
  BY <1>2 DEF GetReply, messageVars
<1>9. ~Tick /\ ~UNCHANGED vars
  BY <1>2 DEF Tick, vars, messageVars
<1>10. ASSUME OtherStep PROVE \E t \in LooperThread : Take(t) /\ m = First(t)
  <2>1. \E t \in LooperThread : Run(t)
    <3>1. ASSUME NEW c \in Thread, NEW h \in Handler, unregisterHandler(c, h) PROVE FALSE
      BY <1>7, <3>1
    <3>2. ASSUME NEW c \in Thread, NEW h \in Handler, NEW n \in Message, PostAndAwaitResponse(c, n, h)
          PROVE  FALSE
      BY <1>6, <3>2, BoundAssumption
    <3>3. ASSUME NEW c \in Thread, NEW h \in Handler, NEW n \in Message, NEW delayUs \in 0 .. MaxTime,
                 Post(c, n, h, delayUs)
          PROVE  FALSE
      BY <1>6, <3>3
    <3> QED
      BY <1>8, <1>9, <1>10, <3>1, <3>2, <3>3 DEF OtherStep
  <2>2. PICK t \in LooperThread : Run(t)
    BY <2>1
  <2> QED
    BY <1>5, <2>2
<1>11. ASSUME NEW c \in Thread, NEW l \in Looper, NEW t \in LooperThread
       PROVE  ~start(c, l, t) /\ ~stop(c, l) /\ ~RequestExit(c) /\ ~Join(c)
  BY <1>2 DEF start, stop, RequestExit, Join, messageVars
<1>12. ASSUME NEW c \in Thread PROVE ~RequestExit(c) /\ ~Join(c) /\ \A l \in Looper : ~stop(c, l)
  BY <1>2 DEF stop, RequestExit, Join, messageVars
<1> QED
  BY <1>10, <1>11, <1>12, Steps DEF IInv

InTurn ==
  \A m, n \in Message :
    Takes(m) /\ state[n] = "queued" /\ n # m
    /\ LooperOf[event[n].target] = LooperOf[event[m].target] => Before(m, n)

LEMMA InTurnStep == ASSUME IInv, [Next]_vars PROVE InTurn
<1>1. SUFFICES ASSUME NEW m \in Message, NEW n \in Message, Takes(m), state[n] = "queued", n # m,
                      LooperOf[event[n].target] = LooperOf[event[m].target]
               PROVE  Before(m, n)
  BY DEF InTurn
<1>2. PICK t \in LooperThread : Take(t) /\ m = First(t)
  BY <1>1, TakesFirst
<1>3. mEventQueue[ThreadOf[t]] # <<>>
  BY <1>2 DEF Take
<1> QED
  BY <1>1, <1>2, <1>3, FirstFacts DEF IInv

(***************************************************************************)
(* Whoever posts, and whatever threads take them: the messages of a looper *)
(* are taken in the order of their times, and then in the order in which   *)
(* they were posted (the loop of ALooper::post()).                         *)
(***************************************************************************)
THEOREM TakenInTheOrderOfPosts == Spec => [][InTurn]_vars
<1>1. IInv /\ [Next]_vars => [InTurn]_vars
  BY InTurnStep
<1> QED
  BY <1>1, Invariant, PTL DEF Spec
-----------------------------------------------------------------------------
(* With one owner, which starts each looper at most twice *)

LEMMA OutlivedKept == ASSUME TypeOK, Outlived, LeavesExits PROVE Outlived'
<1>1. /\ mThread' = mThread /\ joining' = joining /\ exitPending' = exitPending
      /\ LooperThread \subseteq Thread
  BY Threads DEF LeavesExits
<1>2. ASSUME NEW t \in LooperThread, Live(t)', mThread'[ThreadOf[t]] \notin {t, None}
      PROVE  /\ pc'[t] \in Handling \cup {"check"}
             /\ t \in exitPending' \/ (pc'[t] = "stopping" /\ joining'[t] = t)
  <2>1. Live(t)
    BY <1>1, <1>2 DEF Live, LeavesExits, GoesOn
  <2>2. /\ pc[t] \in Handling \cup {"check"}
        /\ t \in exitPending \/ (pc[t] = "stopping" /\ joining[t] = t)
    BY <1>1, <1>2, <2>1 DEF Outlived
  <2>3. pc'[t] = pc[t] \/ GoesOn(t)
    BY <1>1 DEF LeavesExits
  <2> QED
    BY <1>1, <1>2, <2>2, <2>3 DEF GoesOn, Live
<1> QED
  BY <1>2 DEF Outlived

LEMMA startOutlived ==
  ASSUME OneOwner, StartedTwice, TypeOK, Exits, Outlived,
         NEW c \in Thread, NEW l \in Looper, NEW t \in LooperThread, start(c, l, t)
  PROVE  Outlived'
<1>1. /\ c \in Owner /\ pc[c] = "free" /\ mThread[l] = None /\ ThreadOf[t] = l /\ pc[t] = "unborn"
      /\ mThread' = [mThread EXCEPT ![l] = t] /\ pc' = [pc EXCEPT ![t] = "check"]
      /\ joining' = joining /\ exitPending' = exitPending
  BY DEF start
<1>2. \A d \in Thread : d # t => pc'[d] = pc[d]
  BY <1>1 DEF TypeOK
<1>3. mThread'[l] = t /\ \A k \in Looper : k # l => mThread'[k] = mThread[k]
  BY <1>1 DEF TypeOK
<1>4. ASSUME NEW u \in LooperThread, u # t, ThreadOf[u] = l, NEW d \in Thread,
             pc[d] \in {"stopping", "join"}, joining[d] = u
      PROVE  d = u
  <2>1. d # c /\ d # t /\ d \notin Owner
    BY <1>1, <1>4 DEF OneOwner
  <2>2. d \in LooperThread /\ ThreadOf[d] = ThreadOf[u]
    BY <1>4, <2>1 DEF Exits
  <2> QED
    BY <1>1, <1>4, <2>1, <2>2 DEF StartedTwice
<1>5. ASSUME NEW u \in LooperThread, Live(u)', mThread'[ThreadOf[u]] \notin {u, None}
      PROVE  /\ pc'[u] \in Handling \cup {"check"}
             /\ u \in exitPending' \/ (pc'[u] = "stopping" /\ joining'[u] = u)
  <2>1. u # t /\ u \in Thread /\ ThreadOf[u] \in Looper
    BY <1>1, <1>3, <1>5, Threads
  <2>2. pc'[u] = pc[u] /\ Live(u)
    BY <1>2, <1>5, <2>1 DEF Live
  <2>3. CASE ThreadOf[u] = l
    <3>1. mThread[ThreadOf[u]] # u
      BY <1>1, <2>1, <2>3, Threads
    <3>2. CASE u \in exitPending
      <4>1. pc[u] \in Handling \cup {"check"} \/ \E d \in Thread : pc[d] = "join" /\ joining[d] = u
        BY <2>2, <3>2 DEF Exits, Live
      <4>2. pc[u] \in Handling \cup {"check"}
        BY <1>4, <2>1, <2>3, <4>1 DEF Handling
      <4> QED
        BY <1>1, <2>2, <3>2, <4>2
    <3>3. CASE u \notin exitPending
      <4>1. PICK d \in Thread : pc[d] = "stopping" /\ joining[d] = u
        BY <2>2, <3>1, <3>3 DEF Exits
      <4>2. d = u
        BY <1>4, <2>1, <2>3, <4>1
      <4> QED
        BY <1>1, <2>2, <4>1, <4>2 DEF Handling
    <3> QED
      BY <3>2, <3>3
  <2>4. CASE ThreadOf[u] # l
    BY <1>1, <1>3, <1>5, <2>1, <2>2, <2>4 DEF Outlived
  <2> QED
    BY <2>3, <2>4
<1> QED
  BY <1>5 DEF Outlived

LEMMA stopOutlived ==
  ASSUME TypeOK, Outlived, NEW c \in Thread, NEW l \in Looper, stop(c, l) PROVE Outlived'
<1>1. /\ pc[c] \in Busy
      /\ joining' = [joining EXCEPT ![c] = mThread[l]]
      /\ mThread' = [mThread EXCEPT ![l] = None] /\ pc' = [pc EXCEPT ![c] = "stopping"]
      /\ exitPending' = exitPending
  BY DEF stop
<1>2. pc'[c] = "stopping" /\ \A d \in Thread : d # c => pc'[d] = pc[d] /\ joining'[d] = joining[d]
  BY <1>1 DEF TypeOK
<1>3. mThread'[l] = None /\ \A k \in Looper : k # l => mThread'[k] = mThread[k]
  BY <1>1 DEF TypeOK
<1>4. ASSUME NEW u \in LooperThread, Live(u)', mThread'[ThreadOf[u]] \notin {u, None}
      PROVE  /\ pc'[u] \in Handling \cup {"check"}
             /\ u \in exitPending' \/ (pc'[u] = "stopping" /\ joining'[u] = u)
  <2>1. u \in Thread /\ mThread[ThreadOf[u]] \notin {u, None} /\ Live(u)
    <3>1. u \in Thread /\ mThread[ThreadOf[u]] \notin {u, None}
      BY <1>3, <1>4, Threads
    <3>2. u = c => Live(u)
      BY <1>1 DEF Live, Busy
    <3> QED
      BY <1>2, <1>4, <3>1, <3>2 DEF Live
  <2>2. /\ pc[u] \in Handling \cup {"check"}
        /\ u \in exitPending \/ (pc[u] = "stopping" /\ joining[u] = u)
    BY <2>1 DEF Outlived
  <2>3. CASE u = c
    BY <1>1, <1>2, <2>2, <2>3 DEF Handling, Busy
  <2>4. CASE u # c
    BY <1>1, <1>2, <2>1, <2>2, <2>4
  <2> QED
    BY <2>3, <2>4
<1> QED
  BY <1>4 DEF Outlived

LEMMA RequestExitOutlived ==
  ASSUME TypeOK, Exits, Outlived, NEW c \in Thread, RequestExit(c) PROVE Outlived'
<1> DEFINE t == joining[c]
           p == [pc EXCEPT ![c] = IF c = t THEN "handling" ELSE "join"]
<1>1. /\ pc[c] = "stopping" /\ exitPending' = exitPending \cup {t}
      /\ pc' \in signal(ThreadOf[t], p) /\ mThread' = mThread
      /\ joining' = IF c = t THEN [joining EXCEPT ![c] = None] ELSE joining
  BY DEF RequestExit
<1>2. p \in [Thread -> Places] /\ p[c] \in {"handling", "join"} /\ \A d \in Thread : d # c => p[d] = pc[d]
  BY DEF TypeOK, Places
<1> HIDE DEF p
<1>3. Woken(pc', p, ThreadOf[t])
  BY <1>1, <1>2, signalFacts DEF Places
<1>4. pc'[c] \in {"handling", "join"}
  BY <1>1, <1>2, <1>3 DEF Woken, Waiting
<1>5. \A d \in Thread : d # c =>
        /\ pc'[d] = pc[d] \/ (pc[d] \in {"wait", "timed"} /\ pc'[d] = "check")
        /\ joining'[d] = joining[d]
  BY <1>1, <1>2, <1>3 DEF Woken, Waiting, TypeOK
<1>6. ASSUME NEW u \in LooperThread, Live(u)', mThread'[ThreadOf[u]] \notin {u, None}
      PROVE  /\ pc'[u] \in Handling \cup {"check"}
             /\ u \in exitPending' \/ (pc'[u] = "stopping" /\ joining'[u] = u)
  <2>1. u \in Thread /\ Live(u)
    BY <1>1, <1>4, <1>5, <1>6, Threads DEF Live
  <2>2. /\ pc[u] \in Handling \cup {"check"}
        /\ u \in exitPending \/ (pc[u] = "stopping" /\ joining[u] = u)
    BY <1>1, <1>6, <2>1 DEF Outlived
  <2>3. CASE u = c
    BY <1>1, <1>4, <2>2, <2>3 DEF Handling
  <2>4. CASE u # c
    BY <1>1, <1>5, <2>1, <2>2, <2>4 DEF Handling
  <2> QED
    BY <2>3, <2>4
<1> QED
  BY <1>6 DEF Outlived

LEMMA JoinOutlived == ASSUME TypeOK, Outlived, NEW c \in Thread, Join(c) PROVE Outlived'
<1>1. /\ pc[c] = "join" /\ joining' = [joining EXCEPT ![c] = None] /\ mThread' = mThread
      /\ pc' = [pc EXCEPT ![c] = IF c \in Client THEN "free" ELSE "handling"] /\ exitPending' = exitPending
  BY DEF Join
<1>2. /\ pc'[c] = (IF c \in Client THEN "free" ELSE "handling")
      /\ \A d \in Thread : d # c => pc'[d] = pc[d] /\ joining'[d] = joining[d]
  BY <1>1 DEF TypeOK
<1>3. ASSUME NEW u \in LooperThread, Live(u)', mThread'[ThreadOf[u]] \notin {u, None}
      PROVE  /\ pc'[u] \in Handling \cup {"check"}
             /\ u \in exitPending' \/ (pc'[u] = "stopping" /\ joining'[u] = u)
  <2>1. u \in Thread /\ u \notin Client /\ Live(u)
    BY <1>1, <1>2, <1>3, Threads DEF Live
  <2>2. /\ pc[u] \in Handling \cup {"check"}
        /\ u \in exitPending \/ (pc[u] = "stopping" /\ joining[u] = u)
    BY <1>1, <1>3, <2>1 DEF Outlived
  <2>3. CASE u = c
    BY <1>1, <1>2, <2>1, <2>2, <2>3 DEF Handling
  <2>4. CASE u # c
    BY <1>1, <1>2, <2>1, <2>2, <2>4
  <2> QED
    BY <2>3, <2>4
<1> QED
  BY <1>3 DEF Outlived

LEMMA NextOutlived ==
  ASSUME OneOwner, StartedTwice, IInv, Outlived, [Next]_vars PROVE Outlived'
<1>1. TypeOK /\ Exits
  BY DEF IInv
<1>2. CASE OtherStep
  BY <1>1, <1>2, OtherInv, OutlivedKept
<1> QED
  BY <1>1, <1>2, Steps, startOutlived, stopOutlived, RequestExitOutlived, JoinOutlived

(***************************************************************************)
(* A signal that wakes one thread is enough: no two threads wait for the   *)
(* same looper.                                                            *)
(***************************************************************************)
WaitsFor(t) == pc[t] \in {"wait", "timed"}

LEMMA OneWaiter ==
  ASSUME OneOwner, StartedTwice, IInv, Outlived, NEW t \in LooperThread, NEW u \in LooperThread,
         ThreadOf[t] = ThreadOf[u], WaitsFor(t), WaitsFor(u)
  PROVE  t = u
<1>1. SUFFICES ASSUME t # u PROVE FALSE
  OBVIOUS
<1>2. Exits /\ TypeOK /\ LooperThread \subseteq Thread
  BY Threads DEF IInv
<1>3. ASSUME NEW v \in {t, u} PROVE mThread[ThreadOf[v]] \in {v, None}
  BY DEF Outlived, WaitsFor, Live, Handling
<1>4. mThread[ThreadOf[t]] = None
  BY <1>1, <1>3
<1>5. ASSUME NEW v \in {t, u} PROVE \E c \in Thread : pc[c] \in {"stopping", "join"} /\ joining[c] = v
  <2>1. v \in LooperThread /\ Live(v) /\ v # None /\ pc[v] \in {"wait", "timed"}
    BY <1>2, Threads DEF Live, WaitsFor
  <2>2. mThread[ThreadOf[v]] # v
    BY <1>4, <2>1
  <2> QED
    BY <1>2, <2>1, <2>2 DEF Exits, Handling
<1>6. ASSUME NEW v \in {t, u}, NEW c \in Thread, pc[c] \in {"stopping", "join"}, joining[c] = v
      PROVE  c \in Owner
  <2>1. SUFFICES ASSUME c \notin Owner PROVE FALSE
    OBVIOUS
  <2>2. c \in LooperThread /\ ThreadOf[c] = ThreadOf[t]
    BY <1>2, <1>6, <2>1 DEF Exits
  <2>3. c # t /\ c # u
    BY <1>6 DEF WaitsFor
  <2> QED
    BY <1>1, <2>2, <2>3 DEF StartedTwice
<1>7. PICK c \in Thread : pc[c] \in {"stopping", "join"} /\ joining[c] = t
  BY <1>5
<1>8. PICK d \in Thread : pc[d] \in {"stopping", "join"} /\ joining[d] = u
  BY <1>5
<1> QED
  BY <1>1, <1>6, <1>7, <1>8 DEF OneOwner

LEMMA NoOversleepKept ==
  ASSUME NoOversleep, UNCHANGED mEventQueue,
         \A t \in LooperThread : WaitsFor(t)' => pc'[t] = pc[t] /\ delivering'[t] = delivering[t]
  PROVE  NoOversleep'
  BY DEF NoOversleep, WaitsFor, First

\* The states p of the threads when c posts, and may have to wait.
Posts(c, p) == pc[c] \in Busy /\ p \in {pc, [pc EXCEPT ![c] = "asleep"]}

\* When the first message of a looper is another one, its thread does not wait any longer.
LEMMA postWakes ==
  ASSUME OneOwner, StartedTwice, IInv, Outlived, NoOversleep,
         NEW c \in Thread, NEW p, Posts(c, p),
         NEW m \in Message, NEW h \in Handler, NEW delayUs \in 0 .. MaxTime, NEW awaiting \in Thread \cup {None},
         post(m, h, delayUs, awaiting, p), UNCHANGED <<mThread, joining, exitPending, delivering>>
  PROVE  NoOversleep'
<1> DEFINE l == LooperOf[h]
           place == Place(mEventQueue[l], now + delayUs)
<1>1. TypeOK /\ InOrder
  BY DEF IInv
<1>2. ASSUME NEW t \in LooperThread, WaitsFor(t)' PROVE WaitsFor(t) /\ pc'[t] = pc[t]
  <2>1. /\ pc'[c] = p[c]
        /\ \A d \in Thread : d # c =>
             pc'[d] = pc[d] \/ (d \in LooperThread /\ pc[d] \in {"wait", "timed"} /\ pc'[d] = "check")
    BY <1>1, postPc DEF Posts
  <2>2. p[c] \in {pc[c], "asleep"} /\ pc[c] \in Busy
    BY <1>1 DEF TypeOK, Posts
  <2>3. t \in Thread /\ t # c
    BY <1>2, <2>1, <2>2, Threads DEF WaitsFor, Busy
  <2> QED
    BY <1>2, <2>1, <2>3 DEF WaitsFor
<1>3. /\ \A k \in Looper : k # l => mEventQueue'[k] = mEventQueue[k]
      /\ place # 1 => /\ mEventQueue[l] # <<>> /\ mEventQueue'[l] # <<>>
                      /\ mEventQueue'[l][1] = mEventQueue[l][1]
  <2>1. PostEffect(m, h, delayUs, awaiting)
    BY <1>1, postFacts
  <2> QED
    BY <2>1 DEF PostEffect, ComesFirst
<1>4. place = 1 => pc' \in signal(l, p)
  BY DEF post
<1>5. /\ p \in [Thread -> Places] /\ "check" \in Places
  BY <1>1 DEF TypeOK, Places, Posts
<1> HIDE DEF l, place
<1>6. ASSUME NEW t \in LooperThread, ThreadOf[t] = l, WaitsFor(t), place = 1 PROVE ~WaitsFor(t)'
  <2>1. t \in Waiting(l)
    BY <1>6 DEF Waiting, WaitsFor
  <2>2. PICK u \in Waiting(l) : pc'[u] = "check"
    BY <1>4, <1>5, <1>6, <2>1, signalFacts
  <2>3. u = t
    BY <1>6, <2>2, OneWaiter DEF Waiting, WaitsFor
  <2> QED
    BY <2>2, <2>3 DEF WaitsFor
<1>7. SUFFICES ASSUME NEW t \in LooperThread, WaitsFor(t)'
               PROVE  /\ pc'[t] = "wait" => mEventQueue'[ThreadOf[t]] = <<>>
                      /\ pc'[t] = "timed" =>
                           /\ mEventQueue'[ThreadOf[t]] # <<>>
                           /\ mEventQueue'[ThreadOf[t]][1] = delivering[t]
  BY DEF NoOversleep, WaitsFor, First
<1>8. /\ pc[t] = "wait" => mEventQueue[ThreadOf[t]] = <<>>
      /\ pc[t] = "timed" => mEventQueue[ThreadOf[t]] # <<>> /\ mEventQueue[ThreadOf[t]][1] = delivering[t]
  BY DEF NoOversleep, First
<1>9. WaitsFor(t) /\ pc'[t] = pc[t] /\ ThreadOf[t] \in Looper
  BY <1>2, <1>7, Threads
<1>10. CASE ThreadOf[t] # l
  BY <1>3, <1>8, <1>9, <1>10
<1>11. CASE ThreadOf[t] = l
  <2>1. place # 1
    BY <1>6, <1>7, <1>9, <1>11
  <2> QED
    BY <1>3, <1>8, <1>9, <1>11, <2>1
<1> QED
  BY <1>10, <1>11

LEMMA RunOversleep ==
  ASSUME IInv, Outlived, NoOversleep, NEW t \in LooperThread, Run(t) PROVE NoOversleep'
<1>1. TypeOK /\ t \in Thread /\ ThreadOf[t] \in Looper
  BY Threads DEF IInv
<1>2. ASSUME NEW place \in Places, Enter(t, place)
      PROVE  pc'[t] = place /\ \A c \in Thread : c # t => pc'[c] = pc[c]
  BY <1>1, <1>2 DEF Enter, TypeOK
<1>3. ASSUME NEW place \in {"check", "dead", "loop", "handling", "deliver"}, Enter(t, place),
             \A u \in LooperThread : u # t => delivering'[u] = delivering[u]
      PROVE  \A u \in LooperThread : WaitsFor(u)' =>
               u # t /\ pc'[u] = pc[u] /\ delivering'[u] = delivering[u]
  <2>1. place \in Places
    BY DEF Places
  <2>2. pc'[t] = place /\ \A c \in Thread : c # t => pc'[c] = pc[c]
    BY <1>2, <1>3, <2>1
  <2> QED
    BY <1>3, <2>2, Threads DEF WaitsFor
<1>4. ASSUME NEW n PROVE /\ delivering' = [delivering EXCEPT ![t] = n] =>
                              \A u \in LooperThread : u # t => delivering'[u] = delivering[u]
                         /\ n \in Message => [delivering EXCEPT ![t] = n][t] = n
  BY <1>1 DEF TypeOK
<1>5. CASE Check(t)
  <2> DEFINE place == IF t \in exitPending THEN "dead" ELSE "loop"
  <2>1. place \in {"check", "dead", "loop", "handling", "deliver"} /\ Enter(t, place)
    BY <1>5 DEF Check
  <2> HIDE DEF place
  <2>2. UNCHANGED mEventQueue /\ \A u \in LooperThread : u # t => delivering'[u] = delivering[u]
    BY <1>4, <1>5 DEF Check
  <2> QED
    BY <1>3, <2>1, <2>2, NoOversleepKept
<1>6. CASE Stopped(t)
  <2>1. Enter(t, "dead") /\ UNCHANGED <<mEventQueue, delivering>>
    BY <1>6 DEF Stopped
  <2> QED
    BY <1>3, <2>1, NoOversleepKept
<1>7. CASE TimeUp(t)
  <2>1. Enter(t, "check") /\ UNCHANGED <<mEventQueue, delivering>>
    BY <1>7 DEF TimeUp
  <2> QED
    BY <1>3, <2>1, NoOversleepKept
<1>8. CASE deliverMessage(t)
  <2>1. UNCHANGED mEventQueue /\ \A u \in LooperThread : u # t => delivering'[u] = delivering[u]
    BY <1>4, <1>8 DEF deliverMessage
  <2>2. Enter(t, "check") \/ Enter(t, "handling")
    BY <1>8 DEF deliverMessage
  <2> QED
    BY <1>3, <2>1, <2>2, NoOversleepKept
<1>9. CASE postReply(t)
  <2>1. UNCHANGED <<mEventQueue, delivering>>
    BY <1>9 DEF postReply
  <2>2. pc' = [c \in Thread |-> IF pc[c] = "asleep" THEN "woken" ELSE pc[c]]
    BY <1>9 DEF postReply
  <2>3. \A u \in LooperThread : WaitsFor(u)' => pc'[u] = pc[u]
    BY <2>2, Threads DEF WaitsFor
  <2> QED
    BY <2>1, <2>3, NoOversleepKept
<1>10. CASE Return(t)
  <2>1. Enter(t, "check") /\ UNCHANGED mEventQueue
    BY <1>10 DEF Return
  <2>2. \A u \in LooperThread : u # t => delivering'[u] = delivering[u]
    BY <1>4, <1>10 DEF Return
  <2> QED
    BY <1>3, <2>1, <2>2, NoOversleepKept
<1>11. CASE Wait(t)
  <2>1. /\ mEventQueue[ThreadOf[t]] = <<>> /\ Enter(t, "wait") /\ mEventQueue' = mEventQueue
        /\ delivering' = delivering
    BY <1>11 DEF Wait
  <2>2. pc'[t] = "wait" /\ \A c \in Thread : c # t => pc'[c] = pc[c]
    BY <1>2, <2>1 DEF Places
  <2> QED
    BY <2>1, <2>2, Threads DEF NoOversleep, First
<1>12. CASE WaitRelative(t)
  <2>1. /\ mEventQueue[ThreadOf[t]] # <<>> /\ Enter(t, "timed") /\ mEventQueue' = mEventQueue
        /\ delivering' = [delivering EXCEPT ![t] = First(t)]
    BY <1>12 DEF WaitRelative
  <2>2. pc'[t] = "timed" /\ \A c \in Thread : c # t => pc'[c] = pc[c]
    BY <1>2, <2>1 DEF Places
  <2>3. delivering'[t] = First(t) /\ \A u \in LooperThread : u # t => delivering'[u] = delivering[u]
    BY <1>1, <2>1 DEF TypeOK
  <2> QED
    BY <2>1, <2>2, <2>3, Threads DEF NoOversleep, First
<1>13. CASE Take(t)
  <2>1. /\ Enter(t, "deliver") /\ mEventQueue' = [mEventQueue EXCEPT ![ThreadOf[t]] = Tail(@)]
        /\ pc[t] = "loop" /\ mThread[ThreadOf[t]] # None
    BY <1>13 DEF Take, Looping
  <2>2. \A u \in LooperThread : u # t => delivering'[u] = delivering[u]
    BY <1>4, <1>13 DEF Take
  <2>3. \A u \in LooperThread : WaitsFor(u)' => u # t /\ pc'[u] = pc[u] /\ delivering'[u] = delivering[u]
    BY <1>3, <2>1, <2>2
  <2>4. mThread[ThreadOf[t]] = t
    BY <2>1 DEF Outlived, Live, Handling
  <2>5. ASSUME NEW u \in LooperThread, WaitsFor(u), u # t PROVE ThreadOf[u] # ThreadOf[t]
    <3>1. mThread[ThreadOf[u]] \in {u, None}
      BY <2>5 DEF Outlived, WaitsFor, Live, Handling
    <3> QED
      BY <2>1, <2>4, <2>5, <3>1
  <2>6. ASSUME NEW u \in LooperThread, WaitsFor(u)'
        PROVE  /\ pc'[u] = pc[u] /\ delivering'[u] = delivering[u]
               /\ mEventQueue'[ThreadOf[u]] = mEventQueue[ThreadOf[u]]
    <3>1. u # t /\ WaitsFor(u) /\ pc'[u] = pc[u] /\ delivering'[u] = delivering[u]
      BY <2>3, <2>6 DEF WaitsFor
    <3>2. ThreadOf[u] # ThreadOf[t] /\ ThreadOf[u] \in Looper
      BY <2>5, <3>1, Threads
    <3> QED
      BY <1>1, <2>1, <3>1, <3>2 DEF TypeOK
  <2> QED
    BY <2>6 DEF NoOversleep, First, WaitsFor
<1> QED
  BY <1>5, <1>6, <1>7, <1>8, <1>9, <1>10, <1>11, <1>12, <1>13 DEF Run

LEMMA NextOversleep ==
  ASSUME OneOwner, StartedTwice, TwoThreadsInv, [Next]_vars PROVE NoOversleep'
<1>1. IInv /\ TypeOK /\ Exits /\ Outlived /\ NoOversleep /\ LooperThread \subseteq Thread
  BY Threads DEF TwoThreadsInv, IInv
<1>2. ASSUME NEW c \in Thread, NEW l \in Looper, stop(c, l) PROVE NoOversleep'
  <2>1. UNCHANGED <<mEventQueue, delivering>> /\ pc' = [pc EXCEPT ![c] = "stopping"]
    BY <1>2 DEF stop
  <2>2. \A t \in LooperThread : WaitsFor(t)' => pc'[t] = pc[t]
    BY <1>1, <2>1 DEF TypeOK, WaitsFor
  <2> QED
    BY <1>1, <2>1, <2>2, NoOversleepKept
<1>3. ASSUME NEW c \in Thread, NEW l \in Looper, NEW t \in LooperThread, start(c, l, t) PROVE NoOversleep'
  <2>1. UNCHANGED <<mEventQueue, delivering>> /\ pc' = [pc EXCEPT ![t] = "check"]
    BY <1>3 DEF start
  <2>2. \A u \in LooperThread : WaitsFor(u)' => pc'[u] = pc[u]
    BY <1>1, <2>1 DEF TypeOK, WaitsFor
  <2> QED
    BY <1>1, <2>1, <2>2, NoOversleepKept
<1>4. ASSUME NEW c \in Thread, RequestExit(c) PROVE NoOversleep'
  <2> DEFINE p == [pc EXCEPT ![c] = IF c = joining[c] THEN "handling" ELSE "join"]
  <2>1. UNCHANGED <<mEventQueue, delivering>> /\ pc' \in signal(ThreadOf[joining[c]], p)
    BY <1>4 DEF RequestExit
  <2>2. p \in [Thread -> Places] /\ p[c] \in {"handling", "join"} /\ \A d \in Thread : d # c => p[d] = pc[d]
    BY <1>1 DEF TypeOK, Places
  <2> HIDE DEF p
  <2>3. Woken(pc', p, ThreadOf[joining[c]])
    BY <2>1, <2>2, signalFacts DEF Places
  <2>4. \A t \in LooperThread : WaitsFor(t)' => pc'[t] = pc[t]
    BY <1>1, <2>2, <2>3 DEF Woken, WaitsFor
  <2> QED
    BY <1>1, <2>1, <2>4, NoOversleepKept
<1>5. ASSUME NEW c \in Thread, Join(c) PROVE NoOversleep'
  <2>1. /\ UNCHANGED <<mEventQueue, delivering>>
        /\ pc' = [pc EXCEPT ![c] = IF c \in Client THEN "free" ELSE "handling"]
    BY <1>5 DEF Join
  <2>2. \A t \in LooperThread : WaitsFor(t)' => pc'[t] = pc[t]
    BY <1>1, <2>1 DEF TypeOK, WaitsFor
  <2> QED
    BY <1>1, <2>1, <2>2, NoOversleepKept
<1>6. CASE UNCHANGED vars
  <2>1. UNCHANGED <<mEventQueue, delivering, pc>>
    BY <1>6 DEF vars
  <2> QED
    BY <1>1, <2>1, NoOversleepKept
<1>7. CASE Tick
  <2>1. UNCHANGED <<mEventQueue, delivering, pc>>
    BY <1>7 DEF Tick
  <2> QED
    BY <1>1, <2>1, NoOversleepKept
<1>8. ASSUME NEW c \in Thread, GetReply(c) PROVE NoOversleep'
  <2>1. /\ UNCHANGED <<mEventQueue, delivering>>
        /\ \/ pc' = [pc EXCEPT ![c] = IF c \in Client THEN "free" ELSE "handling"]
           \/ pc' = [pc EXCEPT ![c] = "asleep"]
    BY <1>8 DEF GetReply
  <2>2. \A t \in LooperThread : WaitsFor(t)' => pc'[t] = pc[t]
    BY <1>1, <2>1 DEF TypeOK, WaitsFor
  <2> QED
    BY <1>1, <2>1, <2>2, NoOversleepKept
<1>9. ASSUME NEW c \in Thread, NEW h \in Handler, unregisterHandler(c, h) PROVE NoOversleep'
  <2>1. UNCHANGED <<mEventQueue, delivering, pc>>
    BY <1>9 DEF unregisterHandler
  <2> QED
    BY <1>1, <2>1, NoOversleepKept
<1>10. ASSUME NEW c \in Thread, NEW h \in Handler, NEW m \in Message, PostAndAwaitResponse(c, m, h)
       PROVE  NoOversleep'
  <2> DEFINE p == [pc EXCEPT ![c] = "asleep"]
  <2>1. /\ Posts(c, p) /\ post(m, h, 0, c, p)
        /\ UNCHANGED <<mThread, joining, exitPending, delivering>>
        /\ 0 \in 0 .. MaxTime /\ c \in Thread \cup {None}
    BY <1>10, BoundAssumption DEF PostAndAwaitResponse, Posts
  <2> HIDE DEF p
  <2> QED
    BY <1>1, <2>1, postWakes
<1>11. ASSUME NEW c \in Thread, NEW h \in Handler, NEW m \in Message, NEW delayUs \in 0 .. MaxTime,
              Post(c, m, h, delayUs)
       PROVE  NoOversleep'
  <2> DEFINE p == pc
             awaiting == None
  <2>1. /\ Posts(c, p) /\ post(m, h, delayUs, awaiting, p)
        /\ UNCHANGED <<mThread, joining, exitPending, delivering>>
        /\ awaiting \in Thread \cup {None}
    BY <1>11 DEF Post, Posts
  <2> HIDE DEF p, awaiting
  <2> QED
    BY <1>1, <2>1, postWakes
<1>12. CASE OtherStep
  BY <1>1, <1>6, <1>7, <1>8, <1>9, <1>10, <1>11, <1>12, RunOversleep DEF OtherStep
<1> QED
  BY <1>1, <1>2, <1>3, <1>4, <1>5, <1>12, Steps

LEMMA NextTwoThreads == ASSUME OneOwner, StartedTwice, TwoThreadsInv, [Next]_vars PROVE TwoThreadsInv'
<1>1. IInv /\ Outlived /\ NoOversleep
  BY DEF TwoThreadsInv
<1> QED
  BY <1>1, NextInv, NextOutlived, NextOversleep DEF TwoThreadsInv

LEMMA InitTwoThreads == ASSUME Init PROVE TwoThreadsInv
<1>1. \A t \in LooperThread : pc[t] = "unborn"
  BY Threads DEF Init
<1> QED
  BY <1>1, InitInv DEF TwoThreadsInv, Outlived, NoOversleep, Live

(***************************************************************************)
(* What start() and stop() keep, when one thread calls them and starts     *)
(* each looper at most twice, handlers stopping their own loopers as well. *)
(***************************************************************************)
THEOREM InvariantOfTwoThreads == ASSUME OneOwner, StartedTwice PROVE Spec => []TwoThreadsInv
<1>1. Init => TwoThreadsInv
  BY InitTwoThreads
<1>2. TwoThreadsInv /\ [Next]_vars => TwoThreadsInv'
  BY NextTwoThreads
<1> QED
  BY <1>1, <1>2, PTL DEF Spec

(***************************************************************************)
(* ALooper::post() signals only when the new message is the first, and     *)
(* wakes one thread: that is enough, no wakeup is lost.                    *)
(***************************************************************************)
THEOREM NoOversleepHolds == ASSUME OneOwner, StartedTwice PROVE Spec => []NoOversleep
<1>1. TwoThreadsInv => NoOversleep
  BY DEF TwoThreadsInv
<1> QED
  BY <1>1, InvariantOfTwoThreads, PTL

LEMMA CurrentThread ==
  ASSUME TwoThreadsInv, [Next]_vars, NEW t \in LooperThread, pc[t] = "loop", pc'[t] = "deliver"
  PROVE  mThread[ThreadOf[t]] = t
<1>1. IInv /\ TypeOK /\ Outlived
  BY DEF TwoThreadsInv, IInv
<1>2. mThread[ThreadOf[t]] # None
  <2>1. SUFFICES ASSUME mThread[ThreadOf[t]] = None PROVE FALSE
    OBVIOUS
  <2>2. t \in Thread /\ LooperThread \subseteq Thread /\ pc \in [Thread -> Places]
    BY <1>1, Threads DEF TypeOK, Places
  <2>3. ASSUME NEW c \in Thread, NEW place, place # "deliver", pc' = [pc EXCEPT ![c] = place] PROVE FALSE
    BY <2>2, <2>3
  <2>4. ASSUME NEW c \in Thread, NEW place \in Places \ {"deliver"}, NEW l,
               pc' \in signal(l, [pc EXCEPT ![c] = place])
        PROVE  FALSE
    <3> DEFINE p == [pc EXCEPT ![c] = place]
    <3>1. p \in [Thread -> Places] /\ p[t] # "deliver" /\ "check" \in Places
      BY <2>2 DEF Places
    <3>2. pc' \in signal(l, p)
      BY <2>4
    <3> HIDE DEF p
    <3>3. Woken(pc', p, l)
      BY <3>1, <3>2, signalFacts
    <3> QED
      BY <2>2, <3>1, <3>3 DEF Woken
  <2>5. ASSUME NEW c \in Thread, NEW m, NEW h, NEW delayUs, NEW awaiting,
               NEW p \in {pc, [pc EXCEPT ![c] = "asleep"]}, post(m, h, delayUs, awaiting, p)
        PROVE  FALSE
    <3>1. p \in [Thread -> Places] /\ p[t] # "deliver" /\ "check" \in Places
      BY <2>2 DEF Places
    <3>2. pc' \in signal(LooperOf[h], p) \/ pc' = p
      BY <2>5 DEF post
    <3>3. CASE pc' = p
      BY <3>1, <3>3
    <3>4. CASE pc' \in signal(LooperOf[h], p)
      <4>1. Woken(pc', p, LooperOf[h])
        BY <3>1, <3>4, signalFacts
      <4> QED
        BY <2>2, <3>1, <4>1 DEF Woken
    <3> QED
      BY <3>2, <3>3, <3>4
  <2>6. ASSUME NEW u \in LooperThread, Run(u) PROVE FALSE
    <3>1. CASE Take(u)
      <4>1. u # t
        BY <2>1, <3>1 DEF Take, Looping
      <4> QED
        BY <2>2, <3>1, <4>1 DEF Take, Enter
    <3>2. CASE postReply(u)
      BY <2>2, <3>2 DEF postReply
    <3>3. CASE ~Take(u) /\ ~postReply(u)
      <4>1. \E place : place # "deliver" /\ pc' = [pc EXCEPT ![u] = place]
        BY <2>6, <3>3 DEF Run, Check, Stopped, Wait, WaitRelative, TimeUp, deliverMessage, Return, Enter
      <4> QED
        BY <2>2, <2>3, <4>1
    <3> QED
      BY <3>1, <3>2, <3>3
  <2>7. ASSUME NEW c \in Thread, GetReply(c) PROVE FALSE
    <3>1. \/ pc' = [pc EXCEPT ![c] = IF c \in Client THEN "free" ELSE "handling"]
          \/ pc' = [pc EXCEPT ![c] = "asleep"]
      BY <2>7 DEF GetReply
    <3> QED
      BY <2>3, <3>1
  <2>8. pc' # pc
    OBVIOUS
  <2>9. ~OtherStep
    <3>1. ASSUME NEW c \in Thread, NEW h \in Handler, unregisterHandler(c, h) PROVE FALSE
      BY <2>8, <3>1 DEF unregisterHandler
    <3>2. ASSUME NEW c \in Thread, NEW h \in Handler, NEW m \in Message, PostAndAwaitResponse(c, m, h)
          PROVE  FALSE
      BY <2>5, <3>2 DEF PostAndAwaitResponse
    <3>3. ASSUME NEW c \in Thread, NEW h \in Handler, NEW m \in Message, NEW delayUs \in 0 .. MaxTime,
                 Post(c, m, h, delayUs)
          PROVE  FALSE
      BY <2>5, <3>3 DEF Post
    <3>4. ~Tick /\ ~UNCHANGED vars
      BY <2>8 DEF Tick, vars
    <3> QED
      BY <2>6, <2>7, <3>1, <3>2, <3>3, <3>4 DEF OtherStep
  <2>10. ASSUME NEW c \in Thread, NEW l \in Looper, NEW u \in LooperThread, start(c, l, u) PROVE FALSE
    <3>1. u \in Thread /\ "check" # "deliver" /\ pc' = [pc EXCEPT ![u] = "check"]
      BY <2>2, <2>10 DEF start
    <3> QED
      BY <2>3, <3>1
  <2>11. ASSUME NEW c \in Thread, NEW l \in Looper, stop(c, l) PROVE FALSE
    <3>1. "stopping" # "deliver" /\ pc' = [pc EXCEPT ![c] = "stopping"]
      BY <2>11 DEF stop
    <3> QED
      BY <2>3, <3>1
  <2>12. ASSUME NEW c \in Thread, RequestExit(c) PROVE FALSE
    <3> DEFINE place == IF c = joining[c] THEN "handling" ELSE "join"
    <3>1. place \in Places \ {"deliver"} /\ pc' \in signal(ThreadOf[joining[c]], [pc EXCEPT ![c] = place])
      BY <2>12 DEF RequestExit, Places
    <3> HIDE DEF place
    <3> QED
      BY <2>4, <3>1
  <2>13. ASSUME NEW c \in Thread, Join(c) PROVE FALSE
    <3> DEFINE place == IF c \in Client THEN "free" ELSE "handling"
    <3>1. place # "deliver" /\ pc' = [pc EXCEPT ![c] = place]
      BY <2>13 DEF Join
    <3> HIDE DEF place
    <3> QED
      BY <2>3, <3>1
  <2> QED
    BY <1>1, <2>9, <2>10, <2>11, <2>12, <2>13, Steps
<1> QED
  BY <1>1, <1>2 DEF Outlived, Live, Handling

(***************************************************************************)
(* The messages of a looper are taken in turn, and only by its current     *)
(* thread, although the looper may be started again before the thread that *)
(* a handler of its own has stopped has exited (ALooper::loop()).          *)
(***************************************************************************)
THEOREM TakenInTurnHolds == ASSUME OneOwner, StartedTwice PROVE Spec => TakenInTurn
<1> DEFINE A == /\ InTurn
                /\ \A t \in LooperThread : pc[t] = "loop" /\ pc'[t] = "deliver" => mThread[ThreadOf[t]] = t
<1>1. TwoThreadsInv /\ [Next]_vars => [A]_vars
  BY InTurnStep, CurrentThread DEF TwoThreadsInv
<1>2. Spec => [][A]_vars
  <2> HIDE DEF A
  <2> QED
    BY <1>1, InvariantOfTwoThreads, PTL DEF Spec
<1> QED
  BY <1>2 DEF TakenInTurn, InTurn
=============================================================================
