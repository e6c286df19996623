-------------------------- MODULE TickTimersProofs --------------------------
(***************************************************************************)
(* What holds of the Windows timers for any number of timers, timeouts and *)
(* roll-overs of the tick count.                                           *)
(***************************************************************************)
EXTENDS TickTimers, SequenceTheorems, WellFoundedInduction, TLAPS

-----------------------------------------------------------------------------
(* The list                                                                *)

LEMMA InsertAtProperties ==
    ASSUME NEW S, NEW s \in Seq(S), NEW e \in S, NEW i \in 1 .. Len(s) + 1
    PROVE  /\ InsertAt(s, i, e) \in Seq(S)
           /\ Len(InsertAt(s, i, e)) = Len(s) + 1
           /\ \A j \in 1 .. Len(s) + 1 :
                 InsertAt(s, i, e)[j] = IF j < i THEN s[j] ELSE IF j = i THEN e ELSE s[j - 1]
<1> DEFINE a == SubSeq(s, 1, i - 1)
           b == SubSeq(s, i, Len(s))
           c == a \o <<e>>
<1>1. Len(s) \in Nat /\ \A j \in 1 .. Len(s) : s[j] \in S
  BY LenProperties, ElementOfSeq
<1>2. a \in Seq(S) /\ Len(a) = i - 1 /\ \A j \in 1 .. i - 1 : a[j] = s[j]
  BY <1>1, SubSeqProperties
<1>3. b \in Seq(S) /\ Len(b) = Len(s) - i + 1 /\ \A j \in 1 .. Len(s) - i + 1 : b[j] = s[i + j - 1]
  BY <1>1, SubSeqProperties
<1>4. <<e>> \in Seq(S) /\ Len(<<e>>) = 1 /\ <<e>>[1] = e
  OBVIOUS
<1> HIDE DEF a, b
<1>5. c \in Seq(S) /\ Len(c) = i /\ \A j \in 1 .. i : c[j] = IF j < i THEN s[j] ELSE e
  <2>1. c \in Seq(S) /\ Len(c) = Len(a) + 1
        /\ \A j \in 1 .. Len(a) + 1 : c[j] = IF j <= Len(a) THEN a[j] ELSE <<e>>[j - Len(a)]
    BY <1>2, <1>4, ConcatProperties
  <2> QED
    BY <1>2, <1>4, <2>1
<1> HIDE DEF c
<1>6. /\ c \o b \in Seq(S) /\ Len(c \o b) = Len(c) + Len(b)
      /\ \A j \in 1 .. Len(c) + Len(b) :
            (c \o b)[j] = IF j <= Len(c) THEN c[j] ELSE b[j - Len(c)]
  BY <1>3, <1>5, ConcatProperties
<1>7. InsertAt(s, i, e) = c \o b
  BY DEF InsertAt, a, b, c
<1>8. Len(c) + Len(b) = Len(s) + 1
  BY <1>1, <1>3, <1>5
<1>9. ASSUME NEW j \in 1 .. Len(s) + 1
      PROVE  (c \o b)[j] = IF j < i THEN s[j] ELSE IF j = i THEN e ELSE s[j - 1]
  <2>1. CASE j <= i
    BY <1>1, <1>5, <1>6, <1>8, <2>1
  <2>2. CASE j > i
    <3>1. (c \o b)[j] = b[j - i] /\ j - i \in 1 .. Len(s) - i + 1
      BY <1>1, <1>5, <1>6, <1>8, <2>2
    <3>2. b[j - i] = s[i + (j - i) - 1] /\ i + (j - i) - 1 = j - 1
      BY <1>1, <1>3, <3>1
    <3> QED
      BY <2>2, <3>1, <3>2
  <2>3. j <= i \/ j > i
    BY <1>1
  <2> QED
    BY <2>1, <2>2, <2>3
<1> QED
  BY <1>6, <1>7, <1>8, <1>9

LEMMA RemoveAtProperties ==
    ASSUME NEW S, NEW s \in Seq(S), NEW i \in 1 .. Len(s)
    PROVE  /\ RemoveAt(s, i) \in Seq(S)
           /\ Len(RemoveAt(s, i)) = Len(s) - 1
           /\ \A j \in 1 .. Len(s) - 1 :
                 RemoveAt(s, i)[j] = IF j < i THEN s[j] ELSE s[j + 1]
<1> DEFINE a == SubSeq(s, 1, i - 1)
           b == SubSeq(s, i + 1, Len(s))
<1>1. Len(s) \in Nat /\ \A j \in 1 .. Len(s) : s[j] \in S
  BY LenProperties, ElementOfSeq
<1>2. a \in Seq(S) /\ Len(a) = i - 1 /\ \A j \in 1 .. i - 1 : a[j] = s[j]
  BY <1>1, SubSeqProperties
<1>3. b \in Seq(S) /\ Len(b) = Len(s) - i /\ \A j \in 1 .. Len(s) - i : b[j] = s[i + 1 + j - 1]
  BY <1>1, SubSeqProperties
<1> HIDE DEF a, b
<1>4. /\ a \o b \in Seq(S) /\ Len(a \o b) = Len(a) + Len(b)
      /\ \A j \in 1 .. Len(a) + Len(b) :
            (a \o b)[j] = IF j <= Len(a) THEN a[j] ELSE b[j - Len(a)]
  BY <1>2, <1>3, ConcatProperties
<1>5. RemoveAt(s, i) = a \o b
  BY DEF RemoveAt, a, b
<1>6. Len(a) + Len(b) = Len(s) - 1
  BY <1>1, <1>2, <1>3
<1>7. ASSUME NEW j \in 1 .. Len(s) - 1
      PROVE  (a \o b)[j] = IF j < i THEN s[j] ELSE s[j + 1]
  <2>1. CASE j < i
    BY <1>1, <1>2, <1>4, <1>6, <2>1
  <2>2. CASE j >= i
    <3>1. (a \o b)[j] = b[j - (i - 1)] /\ j - (i - 1) \in 1 .. Len(s) - i
      BY <1>1, <1>2, <1>4, <1>6, <2>2
    <3>2. b[j - (i - 1)] = s[i + 1 + (j - (i - 1)) - 1] /\ i + 1 + (j - (i - 1)) - 1 = j + 1
      BY <1>1, <1>3, <3>1
    <3> QED
      BY <2>2, <3>1, <3>2
  <2>3. j < i \/ j >= i
    BY <1>1
  <2> QED
    BY <2>1, <2>2, <2>3
<1> QED
  BY <1>4, <1>5, <1>6, <1>7

\* a queue q of the timers in a, in the order of the times f
Sound(q, a, f) ==
    /\ \A t \in Timers : t \in a <=> \E i \in 1 .. Len(q) : q[i] = t
    /\ \A i, j \in 1 .. Len(q) : i < j => q[i] # q[j] /\ f[q[i]] =< f[q[j]]

LEMMA RemoveFirstOnce ==
    ASSUME NEW q \in Seq(Timers), NEW k \in 1 .. Len(q),
           \A i, j \in 1 .. Len(q) : i < j => q[i] # q[j]
    PROVE  RemoveFirst(q, q[k]) = RemoveAt(q, k)
<1> DEFINE I == {i \in 1 .. Len(q) : q[i] = q[k]}
<1>0. Len(q) \in Nat
  BY LenProperties
<1>1. I = {k}
  BY <1>0
<1>2. Min(I) = k
  BY <1>1 DEF Min
<1>3. SelectInSeq(q, LAMBDA v : v = q[k]) = k
  BY <1>1, <1>2 DEF SelectInSeq
<1> QED
  BY <1>3 DEF RemoveFirst

LEMMA RemoveSound ==
    ASSUME NEW q \in Seq(Timers), NEW a \in SUBSET Timers, NEW f \in [Timers -> Int],
           NEW t \in Timers, Sound(q, a, f)
    PROVE  /\ RemoveFirst(q, t) \in Seq(Timers)
           /\ Sound(RemoveFirst(q, t), a \ {t}, f)
<1>0. Len(q) \in Nat /\ \A j \in 1 .. Len(q) : q[j] \in Timers
  BY LenProperties, ElementOfSeq
<1>1. CASE t \notin a
  <2>1. RemoveFirst(q, t) = q
    BY <1>1 DEF RemoveFirst, Sound
  <2> QED
    BY <1>1, <2>1 DEF Sound
<1>2. CASE t \in a
  <2>1. PICK k \in 1 .. Len(q) : q[k] = t
    BY <1>2 DEF Sound
  <2> DEFINE r == RemoveAt(q, k)
  <2>2. RemoveFirst(q, t) = r
    BY <2>1, RemoveFirstOnce DEF Sound
  <2>3. /\ r \in Seq(Timers) /\ Len(r) = Len(q) - 1
        /\ \A j \in 1 .. Len(q) - 1 : r[j] = IF j < k THEN q[j] ELSE q[j + 1]
    BY RemoveAtProperties
  <2> HIDE DEF r
  <2> DEFINE D(i) == IF i < k THEN i ELSE i + 1
  <2>4. ASSUME NEW i \in 1 .. Len(r)
        PROVE  D(i) \in 1 .. Len(q) /\ D(i) # k /\ r[i] = q[D(i)]
    <3>1. i \in 1 .. Len(q) - 1
      BY <2>3
    <3>2. r[i] = IF i < k THEN q[i] ELSE q[i + 1]
      BY <2>3, <3>1
    <3> QED
      BY <1>0, <3>1, <3>2
  <2>5. ASSUME NEW i \in 1 .. Len(r), NEW j \in 1 .. Len(r), i < j
        PROVE  r[i] # r[j] /\ f[r[i]] =< f[r[j]]
    <3>1. D(i) < D(j)
      BY <1>0, <2>3, <2>5
    <3> HIDE DEF D
    <3>2. /\ D(i) \in 1 .. Len(q) /\ D(j) \in 1 .. Len(q)
          /\ r[i] = q[D(i)] /\ r[j] = q[D(j)]
      BY <2>4
    <3> QED
      BY <3>1, <3>2 DEF Sound
  <2>6. ASSUME NEW u \in Timers
        PROVE  u \in a \ {t} <=> \E i \in 1 .. Len(r) : r[i] = u
    <3>1. ASSUME NEW i \in 1 .. Len(r), r[i] = u
          PROVE  u \in a \ {t}
      <4>1. D(i) \in 1 .. Len(q) /\ D(i) # k /\ q[D(i)] = u
        BY <2>4, <3>1
      <4>2. u \in a
        BY <4>1 DEF Sound
      <4>3. D(i) < k \/ D(i) > k
        BY <1>0, <4>1
      <4>4. u # t
        BY <2>1, <4>1, <4>3 DEF Sound
      <4> QED
        BY <4>2, <4>4
    <3>2. ASSUME u \in a \ {t}
          PROVE  \E i \in 1 .. Len(r) : r[i] = u
      <4>1. PICK j \in 1 .. Len(q) : q[j] = u
        BY <3>2 DEF Sound
      <4>2. j # k
        BY <2>1, <3>2, <4>1
      <4>3. CASE j < k
        <5>1. j \in 1 .. Len(r) /\ r[j] = u
          BY <1>0, <2>3, <4>1, <4>3
        <5> QED
          BY <5>1
      <4>4. CASE j > k
        <5>1. j - 1 \in 1 .. Len(r) /\ r[j - 1] = u
          BY <1>0, <2>3, <4>1, <4>4
        <5> QED
          BY <5>1
      <4> QED
        BY <1>0, <4>2, <4>3, <4>4
    <3> QED
      BY <3>1, <3>2
  <2> QED
    BY <2>2, <2>3, <2>5, <2>6 DEF Sound
<1> QED
  BY <1>1, <1>2

LEMMA InsertSound ==
    ASSUME NEW q \in Seq(Timers), NEW a \in SUBSET Timers, NEW f \in [Timers -> Int],
           NEW t \in Timers, NEW time \in Int, NEW k \in 1 .. Len(q) + 1,
           Sound(q, a, f), t \notin a,
           \A j \in 1 .. k - 1 : f[q[j]] =< time,
           k =< Len(q) => f[q[k]] > time
    PROVE  /\ InsertAt(q, k, t) \in Seq(Timers)
           /\ Sound(InsertAt(q, k, t), a \cup {t}, [f EXCEPT ![t] = time])
<1> DEFINE r == InsertAt(q, k, t)
           g == [f EXCEPT ![t] = time]
<1>0. Len(q) \in Nat /\ \A j \in 1 .. Len(q) : q[j] \in Timers /\ q[j] # t
  BY LenProperties, ElementOfSeq DEF Sound
<1>1. /\ r \in Seq(Timers) /\ Len(r) = Len(q) + 1
      /\ \A j \in 1 .. Len(q) + 1 :
            r[j] = IF j < k THEN q[j] ELSE IF j = k THEN t ELSE q[j - 1]
  BY InsertAtProperties
<1>2. g[t] = time /\ \A j \in 1 .. Len(q) : g[q[j]] = f[q[j]] /\ f[q[j]] \in Int
  BY <1>0
<1> HIDE DEF r, g
<1>3. \A j \in 1 .. Len(q) : j >= k => f[q[j]] > time
  <2> SUFFICES ASSUME NEW j \in 1 .. Len(q), j > k
               PROVE  f[q[j]] > time
    BY <1>0
  <2> QED
    BY <1>0, <1>2 DEF Sound
<1> DEFINE D(i) == IF i < k THEN i ELSE i - 1
<1>4. ASSUME NEW i \in 1 .. Len(r), i # k
      PROVE  D(i) \in 1 .. Len(q) /\ r[i] = q[D(i)]
  <2>1. i \in 1 .. Len(q) + 1
    BY <1>1
  <2>2. r[i] = IF i < k THEN q[i] ELSE q[i - 1]
    BY <1>1, <1>4, <2>1
  <2> QED
    BY <1>0, <1>4, <2>1, <2>2
<1>5. ASSUME NEW i \in 1 .. Len(r), NEW j \in 1 .. Len(r), i < j
      PROVE  r[i] # r[j] /\ g[r[i]] =< g[r[j]]
  <2>1. CASE i = k
    <3>1. r[i] = t /\ D(j) >= k
      BY <1>0, <1>1, <1>5, <2>1
    <3>2. j # k
      BY <1>0, <1>1, <1>5, <2>1
    <3> HIDE DEF D
    <3>3. r[j] = q[D(j)] /\ D(j) \in 1 .. Len(q)
      BY <1>4, <3>2
    <3>4. q[D(j)] # t /\ f[q[D(j)]] > time /\ f[q[D(j)]] \in Int /\ g[r[j]] = f[q[D(j)]]
      BY <1>0, <1>2, <1>3, <3>1, <3>3
    <3> QED
      BY <1>2, <3>1, <3>3, <3>4
  <2>2. CASE j = k
    <3>1. r[j] = t /\ r[i] = q[i] /\ i \in 1 .. Len(q) /\ i \in 1 .. k - 1
      BY <1>0, <1>1, <1>5, <2>2
    <3> QED
      BY <1>0, <1>2, <3>1
  <2>3. CASE i # k /\ j # k
    <3>1. D(i) < D(j)
      BY <1>0, <1>1, <1>5, <2>3
    <3> HIDE DEF D
    <3>2. /\ D(i) \in 1 .. Len(q) /\ D(j) \in 1 .. Len(q)
          /\ r[i] = q[D(i)] /\ r[j] = q[D(j)]
      BY <1>4, <2>3
    <3> QED
      BY <1>0, <1>2, <3>1, <3>2 DEF Sound
  <2> QED
    BY <2>1, <2>2, <2>3
<1>6. ASSUME NEW u \in Timers
      PROVE  u \in a \cup {t} <=> \E i \in 1 .. Len(r) : r[i] = u
  <2>1. ASSUME NEW i \in 1 .. Len(r), r[i] = u
        PROVE  u \in a \cup {t}
    <3>1. CASE i = k
      BY <1>0, <1>1, <2>1, <3>1
    <3>2. CASE i # k
      <4> HIDE DEF D
      <4>1. D(i) \in 1 .. Len(q) /\ q[D(i)] = u
        BY <1>4, <2>1, <3>2
      <4> QED
        BY <4>1 DEF Sound
    <3> QED
      BY <3>1, <3>2
  <2>2. CASE u = t
    BY <1>0, <1>1, <2>2
  <2>3. ASSUME u \in a
        PROVE  \E i \in 1 .. Len(r) : r[i] = u
    <3>1. PICK j \in 1 .. Len(q) : q[j] = u
      BY <2>3 DEF Sound
    <3>2. CASE j < k
      <4>1. j \in 1 .. Len(r) /\ r[j] = u
        BY <1>0, <1>1, <3>1, <3>2
      <4> QED
        BY <4>1
    <3>3. CASE j >= k
      <4>1. j + 1 \in 1 .. Len(r) /\ r[j + 1] = u
        BY <1>0, <1>1, <3>1, <3>3
      <4> QED
        BY <4>1
    <3> QED
      BY <1>0, <3>2, <3>3
  <2> QED
    BY <2>1, <2>2, <2>3
<1> QED
  BY <1>1, <1>5, <1>6 DEF Sound, r, g

-----------------------------------------------------------------------------
(* Places and times                                                        *)

LEMMA Least ==
    ASSUME NEW T \in SUBSET Nat, T # {}
    PROVE  \E x \in T : \A y \in T : x =< y
<1>1. PICK x \in T : \A y \in T : ~ (<<y, x>> \in OpToRel(<, Nat))
  BY NatLessThanWellFounded, WFMin
<1>2. ASSUME NEW y \in T
      PROVE  x =< y
  <2>1. ~ (y < x)
    BY <1>1 DEF OpToRel
  <2> QED
    BY <2>1
<1> QED
  BY <1>2

\* There is a place for every time, before the first timer that is later.
LEMMA PlaceExists ==
    ASSUME NEW q \in Seq(Timers), NEW time \in Int, target \in [Timers -> Nat]
    PROVE  /\ Place(q, time) \in 1 .. Len(q) + 1
           /\ \A j \in 1 .. Place(q, time) - 1 : target[q[j]] =< time
           /\ Place(q, time) =< Len(q) => target[q[Place(q, time)]] > time
<1>0. Len(q) \in Nat /\ \A j \in 1 .. Len(q) : q[j] \in Timers
  BY LenProperties, ElementOfSeq
<1> DEFINE T == {i \in 1 .. Len(q) + 1 : i =< Len(q) => target[q[i]] > time}
<1>1. Len(q) + 1 \in T /\ T \in SUBSET Nat
  BY <1>0
<1>2. PICK k \in T : \A y \in T : k =< y
  BY <1>1, Least
<1>3. ASSUME NEW j \in 1 .. k - 1
      PROVE  target[q[j]] =< time
  <2>1. j \in 1 .. Len(q) /\ j < k
    BY <1>0, <1>2
  <2>2. j \notin T
    BY <1>2, <2>1
  <2> QED
    BY <1>0, <2>1, <2>2
<1> DEFINE P(i) == /\ \A j \in 1 .. i - 1 : target[q[j]] =< time
                   /\ i =< Len(q) => target[q[i]] > time
<1>4. \E i \in 1 .. Len(q) + 1 : P(i)
  BY <1>2, <1>3
<1>5. Place(q, time) = CHOOSE i \in 1 .. Len(q) + 1 : P(i)
  BY DEF Place
<1>6. P(Place(q, time)) /\ Place(q, time) \in 1 .. Len(q) + 1
  <2> HIDE DEF P
  <2> QED
    BY <1>4, <1>5
<1> QED
  BY <1>6

LEMMA MillisType ==
    ASSUME NEW t \in Timers, NEW n \in Timeouts \cup {0}
    PROVE  Millis(t, n) \in 0 .. Wrap - 1 /\ Wrap \in Nat
<1>1. CASE n \in Timeouts
  BY <1>1, TimeoutAssumption, ClockAssumption
<1>2. CASE n = 0
  BY <1>2, ClockAssumption DEF Millis
<1> QED
  BY <1>1, <1>2

\* The 32-bit sum and its correction make the 64-bit time.
LEMMA TargetTimeIs ==
    ASSUME tick \in 0 .. Wrap - 1, absTimeHi \in Nat,
           NEW t \in Timers, NEW n \in Timeouts \cup {0}
    PROVE  TargetTime(t, n) = absTimeHi + tick + Millis(t, n)
BY MillisType DEF TargetTime, Add32

-----------------------------------------------------------------------------
(* The invariant.  It strengthens the type invariant and ListIsSound with  *)
(* what the thread knows of the clock, with the accuracy of the target     *)
(* times and with the head a restart finds.                                *)

ClockIsSound ==
    /\ absTimeHi =< hi
    /\ pc \in {"look", "compare", "subtract", "wait", "lock"} /\ tick < last_tc
          => absTimeHi + Wrap =< hi

TargetsAreSound == \A t \in active : due[t] = target[t] + lag[t]

ThreadIsSound ==
    /\ pc = "restart" => queue # <<>> /\ Head(queue) \in Periodic
    /\ pc = "post" <=> taken # <<>>

\* while the thread looks at the head without the lock, and no signal is set
\* or owed, the head is the one it saw
ReadingIsSound ==
    pc \in {"compare", "subtract"} /\ ~event /\ ~owes
       => /\ queue # <<>> /\ seen = {Head(queue)}
          /\ pc = "subtract" => target[Head(queue)] >= absTimeHi + last_tc

IInv == /\ TypeOK /\ ListIsSound /\ NeverOversleeps
        /\ ClockIsSound /\ TargetsAreSound /\ ThreadIsSound /\ ReadingIsSound

\* the parts that speak of the list and the times only
TimersOK == /\ queue \in Seq(Timers) /\ active \subseteq Timers
            /\ target \in [Timers -> Nat] /\ due \in [Timers -> Nat] /\ lag \in [Timers -> Nat]
            /\ interval \in [Timers -> Timeouts \cup {0}]
            /\ ListIsSound /\ TargetsAreSound

\* Stopping a timer keeps the list sound.
LEMMA UnlinkKeeps ==
    ASSUME TimersOK, NEW t \in Timers, Unlink(t)
    PROVE  TimersOK'
<1>1. target \in [Timers -> Int] /\ Sound(queue, active, target)
  BY DEF TimersOK, ListIsSound, Sound
<1>2. queue' \in Seq(Timers) /\ Sound(queue', active', target)
  BY <1>1, RemoveSound DEF TimersOK, Unlink
<1>3. ListIsSound'
  BY <1>2 DEF Unlink, ListIsSound, Sound
<1>4. TargetsAreSound'
  BY DEF Unlink, TimersOK, TargetsAreSound
<1> QED
  BY <1>2, <1>3, <1>4 DEF Unlink, TimersOK

\* So does starting one, whether it was active or not, and its target time is
\* accurate up to the roll-overs that the thread has not counted.
LEMMA ArmKeeps ==
    ASSUME TimersOK, NEW t \in Timers, NEW n \in Timeouts \cup {0}, Arm(t, n),
           hi \in Nat, absTimeHi \in Nat, absTimeHi =< hi, tick \in 0 .. Wrap - 1
    PROVE  TimersOK' /\ active' = active \cup {t} /\ queue' # <<>>
<1> DEFINE time == TargetTime(t, n)
           rest == RemoveFirst(queue, t)
           k == Place(rest, time)
<1>0. Millis(t, n) \in Nat /\ Wrap \in Nat
  BY MillisType
<1>1. time = absTimeHi + tick + Millis(t, n) /\ time \in Nat
  BY <1>0, TargetTimeIs
<1>2. target \in [Timers -> Int] /\ Sound(queue, active, target)
  BY DEF TimersOK, ListIsSound, Sound
<1>3. rest \in Seq(Timers) /\ Sound(rest, active \ {t}, target)
  BY <1>2, RemoveSound DEF TimersOK
<1>4. /\ queue' = InsertAt(rest, k, t) /\ active' = active \cup {t}
      /\ target' = [target EXCEPT ![t] = time]
      /\ interval' = [interval EXCEPT ![t] = n]
      /\ due' = [due EXCEPT ![t] = now + Millis(t, n)]
      /\ lag' = [lag EXCEPT ![t] = hi - absTimeHi]
  BY DEF Arm, Armed
<1> HIDE DEF time, rest
<1>5. /\ k \in 1 .. Len(rest) + 1
      /\ \A j \in 1 .. k - 1 : target[rest[j]] =< time
      /\ k =< Len(rest) => target[rest[k]] > time
  <2>1. target \in [Timers -> Nat] /\ time \in Int /\ rest \in Seq(Timers)
    BY <1>1, <1>3 DEF TimersOK
  <2> QED
    BY <2>1, PlaceExists
<1> HIDE DEF k
<1>6. queue' \in Seq(Timers) /\ Sound(queue', (active \ {t}) \cup {t}, target')
  <2>1. /\ active \ {t} \in SUBSET Timers /\ t \notin active \ {t} /\ time \in Int
        /\ target \in [Timers -> Int] /\ rest \in Seq(Timers)
    BY <1>1, <1>2, <1>3 DEF TimersOK
  <2> DEFINE a == active \ {t}
             g == [target EXCEPT ![t] = time]
  <2>2. Sound(rest, a, target)
    BY <1>3
  <2> HIDE DEF a
  <2>3. InsertAt(rest, k, t) \in Seq(Timers) /\ Sound(InsertAt(rest, k, t), a \cup {t}, g)
    BY <1>5, <2>1, <2>2, InsertSound DEF a
  <2> QED
    BY <1>4, <2>3 DEF a
<1>7. active' = (active \ {t}) \cup {t} /\ active' \subseteq Timers
  BY <1>4 DEF TimersOK
<1>8. ListIsSound'
  BY <1>6, <1>7 DEF ListIsSound, Sound
<1>9. now \in Nat /\ hi - absTimeHi \in Nat /\ now + Millis(t, n) = time + (hi - absTimeHi)
  BY <1>0, <1>1 DEF now
<1>10. /\ target' \in [Timers -> Nat] /\ due' \in [Timers -> Nat] /\ lag' \in [Timers -> Nat]
       /\ interval' \in [Timers -> Timeouts \cup {0}]
  BY <1>0, <1>1, <1>4, <1>9 DEF TimersOK
<1>11. TargetsAreSound'
  <2> SUFFICES ASSUME NEW u \in active'
               PROVE  due'[u] = target'[u] + lag'[u]
    BY DEF TargetsAreSound
  <2>1. CASE u = t
    BY <1>4, <1>9, <2>1 DEF TimersOK
  <2>2. CASE u # t
    <3>1. u \in active /\ u \in Timers
      BY <1>4, <1>7, <2>2
    <3> QED
      BY <1>4, <2>2, <3>1 DEF TimersOK, TargetsAreSound
  <2> QED
    BY <2>1, <2>2
<1>12. queue' # <<>>
  BY <1>3, <1>4, <1>5, InsertAtProperties, EmptySeq
<1> QED
  BY <1>4, <1>6, <1>7, <1>8, <1>10, <1>11, <1>12 DEF TimersOK

\* the types of everything else
RestType ==
    /\ hi \in Nat /\ absTimeHi \in Nat /\ sleep_time \in Nat /\ waitFrom \in Nat /\ starts \in Nat
    /\ tick \in 0 .. Wrap - 1 /\ last_tc \in 0 .. Wrap - 1
    /\ posted \in Seq(Timers) /\ seen \subseteq Timers
    /\ event \in BOOLEAN /\ owes \in BOOLEAN
    /\ pc \in {"off", "loop", "look", "compare", "subtract", "wait", "lock", "restart",
               "post", "crashed"}
    /\ taken = <<>> \/ \E t \in Timers : taken = <<t>>

LEMMA IInvParts ==
    IInv <=> /\ TimersOK /\ RestType
             /\ ClockIsSound /\ ThreadIsSound /\ ReadingIsSound /\ NeverOversleeps
BY DEF IInv, TypeOK, TimersOK, RestType

\* the same of the next state
LEMMA IInvPartsNext ==
    IInv' <=> /\ TimersOK' /\ RestType'
              /\ ClockIsSound' /\ ThreadIsSound' /\ ReadingIsSound' /\ NeverOversleeps'
BY DEF IInv, TypeOK, TimersOK, RestType

LEMMA TimersUnchanged ==
    ASSUME TimersOK, UNCHANGED timers
    PROVE  TimersOK'
BY DEF TimersOK, timers, ListIsSound, TargetsAreSound

LEMMA HeadOfQueue ==
    ASSUME TimersOK, queue # <<>>
    PROVE  Head(queue) \in Timers /\ target[Head(queue)] \in Nat
BY HeadTailProperties DEF TimersOK

LEMMA ModBounds ==
    ASSUME NEW a \in Int, NEW b \in Nat \ {0}
    PROVE  a % b \in Nat /\ (a >= 0 => a % b =< a)
OBVIOUS

-----------------------------------------------------------------------------
(* Every step preserves the invariant.                                     *)

LEMMA StartIInv ==
    ASSUME IInv, NEW t \in Timers, NEW n \in Timeouts, Start(t, n)
    PROVE  IInv'
<1>0. /\ TimersOK /\ RestType /\ ClockIsSound /\ ThreadIsSound
      /\ ReadingIsSound /\ NeverOversleeps /\ Wrap \in Nat \ {0} /\ IdleSleep \in Nat
  BY IInvParts, ClockAssumption
<1>1. TimersOK' /\ queue' # <<>>
  BY <1>0, ArmKeeps DEF Start, Calls, RestType, ClockIsSound
<1>2. RestType'
  BY <1>0 DEF Start, Calls, RestType, clock, thread, client, timers
<1>3. ClockIsSound'
  BY <1>0 DEF Start, Calls, RestType, ClockIsSound, clock, thread, client, timers
<1>4. ThreadIsSound'
  BY <1>0 DEF Start, Calls, RestType, ThreadIsSound, clock, thread, client, timers
<1>5. ReadingIsSound' /\ NeverOversleeps'
  BY <1>0 DEF Start, Calls, RestType, ReadingIsSound, NeverOversleeps, TimersOK, clock, thread, client, timers
<1> QED
  BY <1>1, <1>2, <1>3, <1>4, <1>5, IInvPartsNext

LEMMA StopIInv ==
    ASSUME IInv, NEW t \in Timers, Stop(t)
    PROVE  IInv'
<1>0. /\ TimersOK /\ RestType /\ ClockIsSound /\ ThreadIsSound
      /\ ReadingIsSound /\ NeverOversleeps /\ Wrap \in Nat \ {0} /\ IdleSleep \in Nat
  BY IInvParts, ClockAssumption
<1>1. TimersOK'
  BY <1>0, UnlinkKeeps DEF Stop, Calls
<1>2. RestType'
  BY <1>0 DEF Stop, Calls, RestType, clock, thread, client, timers
<1>3. ClockIsSound'
  BY <1>0 DEF Stop, Calls, RestType, ClockIsSound, clock, thread, client, timers
<1>4. ThreadIsSound'
  BY <1>0 DEF Stop, Calls, RestType, ThreadIsSound, clock, thread, client, timers
<1>5. ReadingIsSound' /\ NeverOversleeps'
  BY <1>0 DEF Stop, Calls, RestType, ReadingIsSound, NeverOversleeps, TimersOK, clock, thread, client, timers
<1> QED
  BY <1>1, <1>2, <1>3, <1>4, <1>5, IInvPartsNext

LEMMA SignalIInv ==
    ASSUME IInv, Signal
    PROVE  IInv'
<1>0. /\ TimersOK /\ RestType /\ ClockIsSound /\ ThreadIsSound
      /\ ReadingIsSound /\ NeverOversleeps /\ Wrap \in Nat \ {0} /\ IdleSleep \in Nat
  BY IInvParts, ClockAssumption
<1>1. TimersOK'
  BY <1>0, TimersUnchanged DEF Signal
<1>2. RestType'
  BY <1>0 DEF Signal, RestType, clock, thread, client, timers
<1>3. ClockIsSound'
  BY <1>0 DEF Signal, RestType, ClockIsSound, clock, thread, client, timers
<1>4. ThreadIsSound'
  BY <1>0 DEF Signal, RestType, ThreadIsSound, clock, thread, client, timers
<1>5. ReadingIsSound' /\ NeverOversleeps'
  BY <1>0 DEF Signal, RestType, ReadingIsSound, NeverOversleeps, TimersOK, clock, thread, client, timers
<1> QED
  BY <1>1, <1>2, <1>3, <1>4, <1>5, IInvPartsNext

LEMMA RunCallbackIInv ==
    ASSUME IInv, RunCallback
    PROVE  IInv'
<1>0. /\ TimersOK /\ RestType /\ ClockIsSound /\ ThreadIsSound
      /\ ReadingIsSound /\ NeverOversleeps /\ Wrap \in Nat \ {0} /\ IdleSleep \in Nat
  BY IInvParts, ClockAssumption
<1>1. TimersOK'
  BY <1>0, TimersUnchanged DEF RunCallback, Calls
<1>2. RestType'
  BY <1>0 DEF RunCallback, Calls, RestType, clock, thread, client, timers
<1>3. ClockIsSound'
  BY <1>0 DEF RunCallback, Calls, RestType, ClockIsSound, clock, thread, client, timers
<1>4. ThreadIsSound'
  BY <1>0 DEF RunCallback, Calls, RestType, ThreadIsSound, clock, thread, client, timers
<1>5. ReadingIsSound' /\ NeverOversleeps'
  BY <1>0 DEF RunCallback, Calls, RestType, ReadingIsSound, NeverOversleeps, TimersOK, clock, thread, client, timers
<1> QED
  BY <1>1, <1>2, <1>3, <1>4, <1>5, IInvPartsNext

LEMMA ReadTickIInv ==
    ASSUME IInv, ReadTick
    PROVE  IInv'
<1>0. /\ TimersOK /\ RestType /\ ClockIsSound /\ ThreadIsSound
      /\ ReadingIsSound /\ NeverOversleeps /\ Wrap \in Nat \ {0} /\ IdleSleep \in Nat
  BY IInvParts, ClockAssumption
<1>1. TimersOK'
  BY <1>0, TimersUnchanged DEF ReadTick
<1>2. RestType'
  BY <1>0 DEF ReadTick, RestType, clock, thread, client, timers
<1>3. ClockIsSound'
  BY <1>0 DEF ReadTick, RestType, ClockIsSound, clock, thread, client, timers
<1>4. ThreadIsSound'
  BY <1>0 DEF ReadTick, RestType, ThreadIsSound, clock, thread, client, timers
<1>5. ReadingIsSound' /\ NeverOversleeps'
  BY <1>0 DEF ReadTick, RestType, ReadingIsSound, NeverOversleeps, TimersOK, clock, thread, client, timers
<1> QED
  BY <1>1, <1>2, <1>3, <1>4, <1>5, IInvPartsNext

LEMMA LookIInv ==
    ASSUME IInv, Look
    PROVE  IInv'
<1>0. /\ TimersOK /\ RestType /\ ClockIsSound /\ ThreadIsSound
      /\ ReadingIsSound /\ NeverOversleeps /\ Wrap \in Nat \ {0} /\ IdleSleep \in Nat
  BY IInvParts, ClockAssumption
<1>1. TimersOK'
  BY <1>0, TimersUnchanged DEF Look, Wait
<1>2. RestType'
  <2>1. CASE queue = <<>>
    BY <1>0, <2>1 DEF Look, Wait, RestType, now, clock, thread, client, timers
  <2>2. CASE queue # <<>>
    BY <1>0, <2>2, HeadOfQueue DEF Look, RestType, clock, thread, client, timers
  <2> QED
    BY <2>1, <2>2
<1>3. ClockIsSound'
  BY <1>0 DEF Look, Wait, RestType, ClockIsSound, clock, thread, client, timers
<1>4. ThreadIsSound'
  BY <1>0 DEF Look, Wait, RestType, ThreadIsSound, clock, thread, client, timers
<1>5. ReadingIsSound' /\ NeverOversleeps'
  BY <1>0 DEF Look, Wait, RestType, ReadingIsSound, NeverOversleeps, TimersOK, clock, thread, client, timers
<1> QED
  BY <1>1, <1>2, <1>3, <1>4, <1>5, IInvPartsNext

LEMMA CompareIInv ==
    ASSUME IInv, Compare
    PROVE  IInv'
<1>0. /\ TimersOK /\ RestType /\ ClockIsSound /\ ThreadIsSound
      /\ ReadingIsSound /\ NeverOversleeps /\ Wrap \in Nat \ {0} /\ IdleSleep \in Nat
  BY IInvParts, ClockAssumption
<1>1. TimersOK'
  BY <1>0, TimersUnchanged DEF Compare, HeadsSeen
<1>2. RestType'
  BY <1>0, HeadOfQueue DEF Compare, HeadsSeen, RestType, clock, thread, client, timers
<1>3. ClockIsSound'
  BY <1>0 DEF Compare, HeadsSeen, RestType, ClockIsSound, clock, thread, client, timers
<1>4. ThreadIsSound'
  BY <1>0 DEF Compare, HeadsSeen, RestType, ThreadIsSound, clock, thread, client, timers
<1>5. ReadingIsSound' /\ NeverOversleeps'
  BY <1>0 DEF Compare, HeadsSeen, RestType, ReadingIsSound, NeverOversleeps, TimersOK, clock, thread, client, timers
<1> QED
  BY <1>1, <1>2, <1>3, <1>4, <1>5, IInvPartsNext

LEMMA SubtractIInv ==
    ASSUME IInv, Subtract
    PROVE  IInv'
<1>0. /\ TimersOK /\ RestType /\ ClockIsSound /\ ThreadIsSound
      /\ ReadingIsSound /\ NeverOversleeps /\ Wrap \in Nat \ {0} /\ IdleSleep \in Nat
  BY IInvParts, ClockAssumption
<1>1. TimersOK'
  BY <1>0, TimersUnchanged DEF Subtract
<1> DEFINE left(t) == target[t] - (absTimeHi + last_tc)
<1>2. PICK t \in HeadsSeen :
         IF left(t) % Wrap = 0 THEN pc' = "lock" /\ UNCHANGED <<sleep_time, waitFrom>>
                               ELSE Wait(left(t) % Wrap)
  BY DEF Subtract
<1>3. t \in Timers /\ left(t) \in Int
  BY <1>0, HeadOfQueue DEF HeadsSeen, RestType, TimersOK
<1>4. left(t) % Wrap \in Nat /\ (left(t) >= 0 => left(t) % Wrap =< left(t))
  BY <1>0, <1>3, ModBounds
<1>5. RestType'
  BY <1>0, <1>2, <1>4 DEF Subtract, Wait, RestType, now, clock, thread, client, timers
<1>6. ClockIsSound'
  BY <1>0, <1>2 DEF Subtract, Wait, RestType, ClockIsSound, clock, thread, client, timers
<1>7. ThreadIsSound'
  BY <1>0, <1>2 DEF Subtract, Wait, ThreadIsSound, clock, thread, client, timers
<1>8. ReadingIsSound' /\ NeverOversleeps'
  <2>1. pc' \in {"lock", "wait"}
    BY <1>2 DEF Wait
  <2>2. ASSUME pc' = "wait", ~event, ~owes, queue # <<>>
        PROVE  sleep_time' =< target[Head(queue)] - (absTimeHi + last_tc)
    <3>1. seen = {Head(queue)} /\ target[Head(queue)] >= absTimeHi + last_tc
      BY <1>0, <2>2 DEF ReadingIsSound, Subtract
    <3>2. t = Head(queue)
      BY <1>2, <3>1 DEF HeadsSeen
    <3>3. target[t] \in Int /\ absTimeHi + last_tc \in Int
      BY <1>0, <1>3 DEF TimersOK, RestType
    <3>4. t = Head(queue) /\ left(t) >= 0
      BY <3>1, <3>2, <3>3
    <3>5. sleep_time' = left(t) % Wrap
      BY <1>2, <2>2 DEF Wait
    <3> QED
      BY <1>4, <3>4, <3>5
  <2> QED
    BY <2>1, <2>2 DEF Subtract, ReadingIsSound, NeverOversleeps, clock, thread, client, timers
<1> QED
  BY <1>1, <1>5, <1>6, <1>7, <1>8, IInvPartsNext

LEMMA CrashIInv ==
    ASSUME IInv, Crash
    PROVE  IInv'
<1>0. /\ TimersOK /\ RestType /\ ClockIsSound /\ ThreadIsSound
      /\ ReadingIsSound /\ NeverOversleeps /\ Wrap \in Nat \ {0} /\ IdleSleep \in Nat
  BY IInvParts, ClockAssumption
<1>1. TimersOK'
  BY <1>0, TimersUnchanged DEF Crash
<1>2. RestType'
  BY <1>0 DEF Crash, RestType, clock, thread, client, timers
<1>3. ClockIsSound'
  BY <1>0 DEF Crash, RestType, ClockIsSound, clock, thread, client, timers
<1>4. ThreadIsSound'
  BY <1>0 DEF Crash, RestType, ThreadIsSound, clock, thread, client, timers
<1>5. ReadingIsSound' /\ NeverOversleeps'
  BY <1>0 DEF Crash, RestType, ReadingIsSound, NeverOversleeps, TimersOK, clock, thread, client, timers
<1> QED
  BY <1>1, <1>2, <1>3, <1>4, <1>5, IInvPartsNext

LEMMA WakeIInv ==
    ASSUME IInv, Wake
    PROVE  IInv'
<1>0. /\ TimersOK /\ RestType /\ ClockIsSound /\ ThreadIsSound
      /\ ReadingIsSound /\ NeverOversleeps /\ Wrap \in Nat \ {0} /\ IdleSleep \in Nat
  BY IInvParts, ClockAssumption
<1>1. TimersOK'
  BY <1>0, TimersUnchanged DEF Wake
<1>2. RestType'
  BY <1>0 DEF Wake, RestType, clock, thread, client, timers
<1>3. ClockIsSound'
  BY <1>0 DEF Wake, RestType, ClockIsSound, clock, thread, client, timers
<1>4. ThreadIsSound'
  BY <1>0 DEF Wake, RestType, ThreadIsSound, clock, thread, client, timers
<1>5. ReadingIsSound' /\ NeverOversleeps'
  BY <1>0 DEF Wake, RestType, ReadingIsSound, NeverOversleeps, TimersOK, clock, thread, client, timers
<1> QED
  BY <1>1, <1>2, <1>3, <1>4, <1>5, IInvPartsNext

LEMMA CheckIInv ==
    ASSUME IInv, Check
    PROVE  IInv'
<1>0. /\ TimersOK /\ RestType /\ ClockIsSound /\ ThreadIsSound
      /\ ReadingIsSound /\ NeverOversleeps /\ Wrap \in Nat \ {0} /\ IdleSleep \in Nat
  BY IInvParts, ClockAssumption
<1>1. TimersOK'
  <2>1. CASE UNCHANGED timers
    BY <1>0, <2>1, TimersUnchanged
  <2>2. CASE Expired(Rollover + tick) /\ Unlink(Head(queue))
    BY <1>0, <2>2, HeadOfQueue, UnlinkKeeps DEF Expired
  <2> QED
    BY <2>1, <2>2 DEF Check
<1>2. RestType'
  <2>1. absTimeHi' \in Nat
    BY <1>0 DEF Check, Rollover, RestType
  <2>2. taken' = <<>> \/ \E t \in Timers : taken' = <<t>>
    <3>1. CASE UNCHANGED taken
      BY <1>0, <3>1 DEF RestType
    <3>2. CASE queue # <<>> /\ taken' = <<Head(queue)>>
      BY <1>0, <3>2, HeadOfQueue
    <3> QED
      BY <3>1, <3>2 DEF Check, Expired
  <2> QED
    BY <1>0, <2>1, <2>2 DEF Check, RestType, clock, thread, client, timers
<1>3. ClockIsSound'
  BY <1>0 DEF Check, Rollover, Expired, RestType, ClockIsSound, clock, thread, client, timers
<1>4. ThreadIsSound'
  <2>1. taken = <<>>
    BY <1>0 DEF Check, ThreadIsSound
  <2>2. CASE pc' = "loop" /\ UNCHANGED taken
    BY <2>1, <2>2 DEF ThreadIsSound
  <2>3. CASE /\ pc' = "restart" /\ UNCHANGED <<timers, taken>>
             /\ queue # <<>> /\ Head(queue) \in Periodic
    BY <2>1, <2>3 DEF ThreadIsSound, timers
  <2>4. CASE pc' = "post" /\ taken' = <<Head(queue)>>
    BY <2>4 DEF ThreadIsSound
  <2> QED
    BY <2>2, <2>3, <2>4 DEF Check, Expired
<1>5. ReadingIsSound' /\ NeverOversleeps'
  BY <1>0 DEF Check, Rollover, Expired, RestType, ReadingIsSound, NeverOversleeps, TimersOK, clock, thread, client, timers
<1> QED
  BY <1>1, <1>2, <1>3, <1>4, <1>5, IInvPartsNext

LEMMA RestartIInv ==
    ASSUME IInv, Restart
    PROVE  IInv'
<1>0. /\ TimersOK /\ RestType /\ ClockIsSound /\ ThreadIsSound
      /\ ReadingIsSound /\ NeverOversleeps /\ Wrap \in Nat \ {0} /\ IdleSleep \in Nat
  BY IInvParts, ClockAssumption
<1>1. TimersOK'
  <2>1. Head(queue) \in Timers /\ interval[Head(queue)] \in Timeouts \cup {0}
    BY <1>0, HeadOfQueue DEF Restart, ThreadIsSound, TimersOK
  <2> QED
    BY <1>0, <2>1, ArmKeeps DEF Restart, RestType, ClockIsSound
<1>2. RestType'
  <2>1. \E t \in Timers : taken' = <<t>>
    BY <1>0, HeadOfQueue DEF Restart, ThreadIsSound
  <2> QED
    BY <1>0, <2>1 DEF Restart, RestType, clock, thread, client, timers
<1>3. ClockIsSound'
  BY <1>0 DEF Restart, RestType, ClockIsSound, clock, thread, client, timers
<1>4. ThreadIsSound'
  BY <1>0 DEF Restart, RestType, ThreadIsSound, clock, thread, client, timers
<1>5. ReadingIsSound' /\ NeverOversleeps'
  BY <1>0 DEF Restart, RestType, ReadingIsSound, NeverOversleeps, TimersOK, clock, thread, client, timers
<1> QED
  BY <1>1, <1>2, <1>3, <1>4, <1>5, IInvPartsNext

LEMMA PostCallbackIInv ==
    ASSUME IInv, PostCallback
    PROVE  IInv'
<1>0. /\ TimersOK /\ RestType /\ ClockIsSound /\ ThreadIsSound
      /\ ReadingIsSound /\ NeverOversleeps /\ Wrap \in Nat \ {0} /\ IdleSleep \in Nat
  BY IInvParts, ClockAssumption
<1>1. TimersOK'
  BY <1>0, TimersUnchanged DEF PostCallback
<1>2. RestType'
  <2>1. taken \in Seq(Timers) /\ posted \in Seq(Timers)
    <3>1. CASE taken = <<>>
      BY <1>0, <3>1 DEF RestType
    <3>2. CASE \E t \in Timers : taken = <<t>>
      BY <1>0, <3>2 DEF RestType
    <3> QED
      BY <1>0, <3>1, <3>2 DEF RestType
  <2>2. posted' \in Seq(Timers)
    BY <2>1, ConcatProperties DEF PostCallback
  <2> QED
    BY <1>0, <2>2 DEF PostCallback, RestType, clock, thread, client, timers
<1>3. ClockIsSound'
  BY <1>0 DEF PostCallback, RestType, ClockIsSound, clock, thread, client, timers
<1>4. ThreadIsSound'
  BY <1>0 DEF PostCallback, RestType, ThreadIsSound, clock, thread, client, timers
<1>5. ReadingIsSound' /\ NeverOversleeps'
  BY <1>0 DEF PostCallback, RestType, ReadingIsSound, NeverOversleeps, TimersOK, clock, thread, client, timers
<1> QED
  BY <1>1, <1>2, <1>3, <1>4, <1>5, IInvPartsNext

LEMMA TickIInv ==
    ASSUME IInv, Tick
    PROVE  IInv'
<1>0. /\ TimersOK /\ RestType /\ ClockIsSound /\ ThreadIsSound
      /\ ReadingIsSound /\ NeverOversleeps /\ Wrap \in Nat \ {0} /\ IdleSleep \in Nat
  BY IInvParts, ClockAssumption
<1>1. TimersOK'
  BY <1>0, TimersUnchanged DEF Tick
<1>2. RestType'
  BY <1>0 DEF Tick, RestType, clock, thread, client, timers
<1>3. ClockIsSound'
  BY <1>0 DEF Tick, RestType, ClockIsSound, clock, thread, client, timers
<1>4. ThreadIsSound'
  BY <1>0 DEF Tick, RestType, ThreadIsSound, clock, thread, client, timers
<1>5. ReadingIsSound' /\ NeverOversleeps'
  BY <1>0 DEF Tick, RestType, ReadingIsSound, NeverOversleeps, TimersOK, clock, thread, client, timers
<1> QED
  BY <1>1, <1>2, <1>3, <1>4, <1>5, IInvPartsNext

LEMMA InitIInv == Init => IInv
<1> SUFFICES ASSUME Init PROVE IInv
  OBVIOUS
<1>0. Wrap \in Nat \ {0}
  BY ClockAssumption
<1>1. <<>> \in Seq(Timers) /\ Len(<<>>) = 0
  BY EmptySeq
<1>2. TimersOK
  BY <1>1 DEF Init, TimersOK, ListIsSound, TargetsAreSound
<1>3. RestType
  <2>1. /\ hi \in Nat /\ absTimeHi \in Nat /\ sleep_time \in Nat /\ waitFrom \in Nat
        /\ starts \in Nat /\ tick \in 0 .. Wrap - 1 /\ last_tc \in 0 .. Wrap - 1
    BY <1>0 DEF Init
  <2>2. /\ posted \in Seq(Timers) /\ seen \subseteq Timers /\ taken = <<>>
        /\ event \in BOOLEAN /\ owes \in BOOLEAN /\ pc = "off"
    BY <1>1 DEF Init
  <2> QED
    BY <2>1, <2>2 DEF RestType
<1> QED
  BY <1>2, <1>3, IInvParts
     DEF Init, ClockIsSound, ThreadIsSound, ReadingIsSound, NeverOversleeps

LEMMA StepIInv == IInv /\ [Next]_vars => IInv'
<1> SUFFICES ASSUME IInv, [Next]_vars PROVE IInv'
  OBVIOUS
<1>1. CASE UNCHANGED vars
  <2>1. TimersOK'
    BY <1>1, IInvParts, TimersUnchanged DEF vars
  <2>2. /\ RestType' /\ ClockIsSound' /\ ThreadIsSound'
        /\ ReadingIsSound' /\ NeverOversleeps'
    BY <1>1, IInvParts
       DEF vars, clock, timers, thread, client, RestType, ClockIsSound, ThreadIsSound,
           ReadingIsSound, NeverOversleeps
  <2> QED
    BY <2>1, <2>2, IInvPartsNext
<1>2. CASE Next
  BY <1>2, StartIInv, StopIInv, SignalIInv, RunCallbackIInv, ReadTickIInv, LookIInv,
     CompareIInv, SubtractIInv, CrashIInv, WakeIInv, CheckIInv, RestartIInv,
     PostCallbackIInv, TickIInv DEF Next
<1> QED
  BY <1>1, <1>2

LEMMA SpecIInv == Spec => []IInv
BY InitIInv, StepIInv, PTL DEF Spec

\* The state of the list, the thread, the clock and the window has its type,
\* whatever the number of timers and the width of the tick count.
THEOREM TypeCorrect == Spec => []TypeOK
BY SpecIInv, PTL DEF IInv

\* The list of wiced_start_timer and wiced_stop_timer holds the active timers
\* in the order of their times, once each.
THEOREM ListCorrect == Spec => []ListIsSound
BY SpecIInv, PTL DEF IInv

\* The thread, which reads the head of the list without the lock, never waits
\* too long for the first timer.
THEOREM WaitCorrect == Spec => []NeverOversleeps
BY SpecIInv, PTL DEF IInv

\* The thread never counts a roll-over that has not happened.
THEOREM CountCorrect == Spec => []CountsNoFalseRollover
<1>1. IInv => CountsNoFalseRollover
  BY DEF IInv, ClockIsSound, CountsNoFalseRollover
<1> QED
  BY <1>1, SpecIInv, PTL

-----------------------------------------------------------------------------
(* Expiries come in time.                                                  *)

\* Only the look under the lock takes the thread on from there.
LEMMA LockStep ==
    ASSUME [Next]_vars, pc = "lock", pc' # "lock"
    PROVE  Check
BY DEF Next, vars, thread, Start, Stop, Signal, RunCallback, Calls, ReadTick, Look, Compare,
       Subtract, Crash, Wake, Restart, PostCallback, Tick, clock, timers, client

LEMMA TakenInTime ==
    ASSUME IInv, [Next]_vars, NEW t \in Timers, pc = "lock", pc' \in {"post", "restart"},
           t = Head(queue), Counted(t)
    PROVE  due[t] =< now
<1>1. Check
  BY LockStep
<1>2. TimersOK /\ RestType /\ Wrap \in Nat
  BY IInvParts, ClockAssumption
<1>3. queue # <<>> /\ target[t] =< absTimeHi' + tick
  BY <1>1 DEF Check, Expired
<1>4. Head(queue) = queue[1] /\ Len(queue) \in Nat /\ Len(queue) # 0
  BY <1>2, <1>3, EmptySeq, LenProperties DEF TimersOK
<1>5. t \in active
  BY <1>2, <1>4 DEF TimersOK, ListIsSound
<1>6. due[t] = target[t] + lag[t] /\ target[t] \in Nat /\ lag[t] \in Nat
  BY <1>2, <1>5 DEF TimersOK, TargetsAreSound
<1>7. absTimeHi' \in Nat /\ hi - absTimeHi' = lag[t]
  BY <1>1, <1>2 DEF Check, Rollover, RestType, Counted
<1> QED
  BY <1>2, <1>3, <1>6, <1>7 DEF RestType, now

LEMMA PassedInTime ==
    ASSUME IInv, [Next]_vars, pc = "lock", pc' = "loop", NEW t \in active, Counted(t)
    PROVE  now < due[t]
<1>1. Check
  BY LockStep
<1>2. TimersOK /\ RestType /\ Wrap \in Nat
  BY IInvParts, ClockAssumption
<1>3. t \in Timers /\ \E i \in 1 .. Len(queue) : queue[i] = t
  BY <1>2 DEF TimersOK, ListIsSound
<1>4. PICK i \in 1 .. Len(queue) : queue[i] = t
  BY <1>3
<1>5. Len(queue) \in Nat /\ queue # <<>> /\ Head(queue) = queue[1]
  BY <1>2, <1>4, EmptySeq, LenProperties DEF TimersOK
<1>6. absTimeHi' \in Nat /\ hi - absTimeHi' = lag[t]
  BY <1>1, <1>2 DEF Check, Rollover, RestType, Counted
<1>7. ~ (target[Head(queue)] =< absTimeHi' + tick)
  BY <1>1, <1>5 DEF Check, Expired
<1>8. target[Head(queue)] \in Nat /\ target[t] \in Nat /\ lag[t] \in Nat
  BY <1>2, <1>3, <1>5, HeadOfQueue DEF TimersOK
<1>9. target[Head(queue)] =< target[t]
  <2>1. CASE i = 1
    BY <1>4, <1>5, <1>8, <2>1
  <2>2. CASE i > 1
    <3>1. 1 \in 1 .. Len(queue) /\ 1 < i
      BY <1>4, <1>5, <2>2
    <3>2. target[queue[1]] =< target[queue[i]]
      BY <1>2, <1>4, <3>1 DEF TimersOK, ListIsSound
    <3> QED
      BY <1>4, <1>5, <3>2
  <2> QED
    BY <1>4, <1>5, <2>1, <2>2
<1>10. due[t] = target[t] + lag[t]
  BY <1>2 DEF TimersOK, TargetsAreSound
<1> QED
  BY <1>2, <1>6, <1>7, <1>8, <1>9, <1>10 DEF RestType, now

\* timerThread does not let a timer expire before its time, across any number
\* of roll-overs, if it counts after the start those that come after the start.
THEOREM NotEarly == Spec => NeverEarlyIfCounted
<1>1. IInv /\ [Next]_vars
         => \A t \in Timers : pc = "lock" /\ pc' \in {"post", "restart"}
                               /\ t = Head(queue) /\ Counted(t) => due[t] =< now
  BY TakenInTime
<1>2. IInv /\ [Next]_vars
         => [\A t \in Timers : pc = "lock" /\ pc' \in {"post", "restart"}
                               /\ t = Head(queue) /\ Counted(t) => due[t] =< now]_vars
  BY <1>1
<1> QED
  BY <1>2, SpecIInv, PTL DEF Spec, NeverEarlyIfCounted

\* Nor does it go back to sleep over one whose time has come.
THEOREM NotOverlooked == Spec => NothingOverlookedIfCounted
<1>1. IInv /\ [Next]_vars
         => [pc = "lock" /\ pc' = "loop"
                => \A t \in active : Counted(t) => now < due[t]]_vars
  BY PassedInTime
<1> QED
  BY <1>1, SpecIInv, PTL DEF Spec, NothingOverlookedIfCounted
-----------------------------------------------------------------------------
(* The timers implement TimerService.                                      *)

LEMMA TailOfConcat ==
    ASSUME NEW S, NEW p \in Seq(S), NEW r \in Seq(S), p # <<>>
    PROVE  p \o r # <<>> /\ Tail(p \o r) = Tail(p) \o r
<1> DEFINE x == p \o r
           y == Tail(p) \o r
<1>1. Len(p) \in Nat /\ Len(p) > 0 /\ Len(r) \in Nat
  BY EmptySeq, LenProperties
<1>2. /\ x \in Seq(S) /\ Len(x) = Len(p) + Len(r)
      /\ \A j \in 1 .. Len(p) + Len(r) : x[j] = IF j <= Len(p) THEN p[j] ELSE r[j - Len(p)]
  BY ConcatProperties
<1>3. /\ Tail(p) \in Seq(S) /\ Len(Tail(p)) = Len(p) - 1
      /\ \A j \in 1 .. Len(Tail(p)) : Tail(p)[j] = p[j + 1]
  BY HeadTailProperties
<1>4. /\ y \in Seq(S) /\ Len(y) = Len(Tail(p)) + Len(r)
      /\ \A j \in 1 .. Len(Tail(p)) + Len(r) :
            y[j] = IF j <= Len(Tail(p)) THEN Tail(p)[j] ELSE r[j - Len(Tail(p))]
  BY <1>3, ConcatProperties
<1> HIDE DEF x, y
<1>5. x # <<>>
  BY <1>1, <1>2, EmptySeq
<1>6. /\ Tail(x) \in Seq(S) /\ Len(Tail(x)) = Len(x) - 1
      /\ \A j \in 1 .. Len(Tail(x)) : Tail(x)[j] = x[j + 1]
  BY <1>2, <1>5, HeadTailProperties
<1>7. Len(Tail(x)) = Len(y)
  BY <1>1, <1>2, <1>3, <1>4, <1>6
<1>8. ASSUME NEW j \in 1 .. Len(y)
      PROVE  Tail(x)[j] = y[j]
  <2>1. Tail(x)[j] = x[j + 1] /\ j + 1 \in 1 .. Len(p) + Len(r)
    BY <1>1, <1>3, <1>4, <1>6, <1>7
  <2>2. CASE j < Len(p)
    BY <1>1, <1>2, <1>3, <1>4, <2>1, <2>2
  <2>3. CASE j >= Len(p)
    <3>1. x[j + 1] = r[j + 1 - Len(p)]
      BY <1>1, <1>2, <2>1, <2>3
    <3>2. y[j] = r[j - (Len(p) - 1)]
      BY <1>1, <1>3, <1>4, <2>3
    <3>3. j + 1 - Len(p) = j - (Len(p) - 1)
      BY <1>1, <1>4
    <3> QED
      BY <2>1, <3>1, <3>2, <3>3
  <2>4. j < Len(p) \/ j >= Len(p)
    BY <1>1, <1>4
  <2> QED
    BY <2>2, <2>3, <2>4
<1>9. Tail(x) = y
  BY <1>4, <1>6, <1>7, <1>8, SeqEqual
<1> QED
  BY <1>5, <1>9 DEF x, y

\* the timer at the head is active
LEMMA HeadIsActive ==
    ASSUME TimersOK, queue # <<>>
    PROVE  Head(queue) \in active
<1>1. Head(queue) = queue[1] /\ Len(queue) \in Nat /\ Len(queue) # 0
  BY EmptySeq, LenProperties DEF TimersOK
<1> QED
  BY <1>1, HeadOfQueue DEF TimersOK, ListIsSound

LEMMA StepService == IInv /\ [Next]_vars => [Service!Next]_(Service!vars)
<1> SUFFICES ASSUME IInv, [Next]_vars PROVE [Service!Next]_(Service!vars)
  OBVIOUS
<1>0. TimersOK /\ RestType /\ ThreadIsSound
  BY IInvParts
<1>1. taken \in Seq(Timers) /\ posted \in Seq(Timers)
  <2>1. CASE taken = <<>>
    BY <1>0, <2>1 DEF RestType
  <2>2. CASE \E t \in Timers : taken = <<t>>
    BY <1>0, <2>2 DEF RestType
  <2> QED
    BY <1>0, <2>1, <2>2 DEF RestType
<1>2. ASSUME UNCHANGED <<active, posted, taken>>
      PROVE  UNCHANGED Service!vars
  BY <1>2 DEF Service!vars
<1>3. ASSUME NEW h \in active, taken = <<>>, taken' = <<h>>, UNCHANGED posted,
             active' = IF h \in Periodic THEN active ELSE active \ {h}
      PROVE  Service!Next
  <2>1. h \in Timers /\ posted \o taken = posted
    BY <1>0, <1>1, <1>3, ConcatEmptySeq DEF TimersOK
  <2>2. posted' \o taken' = Append(posted \o taken, h)
    BY <1>1, <1>3, <2>1, AppendIsConcat
  <2>3. Service!Expire(h)
    BY <1>3, <2>2 DEF Service!Expire
  <2> QED
    BY <2>1, <2>3 DEF Service!Next
<1>4. ASSUME NEW t \in Timers, NEW n \in Timeouts, Start(t, n)
      PROVE  Service!Next
  <2>1. Service!Start(t)
    BY <1>4 DEF Start, Arm, Armed, Service!Start
  <2> QED
    BY <2>1 DEF Service!Next
<1>5. ASSUME NEW t \in Timers, Stop(t)
      PROVE  Service!Next
  <2>1. Service!Stop(t)
    BY <1>5 DEF Stop, Unlink, thread, Service!Stop
  <2> QED
    BY <2>1 DEF Service!Next
<1>6. CASE RunCallback
  <2>1. posted # <<>> /\ posted' = Tail(posted) /\ UNCHANGED <<active, taken>>
    BY <1>6 DEF RunCallback, timers, thread
  <2>2. posted \o taken # <<>> /\ Tail(posted \o taken) = Tail(posted) \o taken
    BY <1>1, <2>1, TailOfConcat
  <2>3. Service!Call
    BY <2>1, <2>2 DEF Service!Call
  <2> QED
    BY <2>3 DEF Service!Next
<1>7. CASE Check
  <2>1. taken = <<>> /\ UNCHANGED posted
    BY <1>0, <1>7 DEF Check, ThreadIsSound, client
  <2>2. CASE UNCHANGED <<timers, taken>>
    BY <1>2, <2>1, <2>2 DEF timers
  <2>3. CASE /\ queue # <<>> /\ Head(queue) \notin Periodic
             /\ Unlink(Head(queue)) /\ taken' = <<Head(queue)>>
    BY <1>0, <1>3, <2>1, <2>3, HeadIsActive DEF Unlink
  <2> QED
    BY <1>7, <2>2, <2>3 DEF Check, Expired
<1>8. CASE Restart
  <2>1. /\ taken = <<>> /\ UNCHANGED posted /\ taken' = <<Head(queue)>>
        /\ queue # <<>> /\ Head(queue) \in Periodic
    BY <1>0, <1>8 DEF Restart, ThreadIsSound, client
  <2>2. active' = active \cup {Head(queue)} /\ Head(queue) \in active
    BY <1>0, <1>8, <2>1, HeadIsActive DEF Restart, Arm, Armed
  <2> QED
    BY <1>3, <2>1, <2>2
<1>9. CASE PostCallback
  <2>1. posted' = posted \o taken /\ taken' = <<>> /\ UNCHANGED active
    BY <1>9 DEF PostCallback, timers
  <2>2. posted' \in Seq(Timers)
    BY <1>1, <2>1, ConcatProperties
  <2>3. posted' \o taken' = posted \o taken
    BY <2>1, <2>2, ConcatEmptySeq
  <2> QED
    BY <2>1, <2>3 DEF Service!vars
<1>10. CASE Signal \/ ReadTick \/ Look \/ Compare \/ Subtract \/ Crash \/ Wake \/ Tick
  BY <1>2, <1>10
     DEF Signal, ReadTick, Look, Compare, Subtract, Crash, Wake, Tick, timers, thread, client
<1>11. CASE UNCHANGED vars
  BY <1>2, <1>11 DEF vars, timers, thread, client
<1> QED
  BY <1>4, <1>5, <1>6, <1>7, <1>8, <1>9, <1>10, <1>11 DEF Next

\* The list, the thread and the window's messages are a timer service: each
\* callback is for one expiry of a timer that was active, in order.
THEOREM Refinement == Spec => ImplementsService
<1>1. Init => Service!Init
  BY ConcatEmptySeq, EmptySeq DEF Init, Service!Init
<1> QED
  BY <1>1, StepService, SpecIInv, PTL DEF Spec, Service!Spec, ImplementsService
=============================================================================
