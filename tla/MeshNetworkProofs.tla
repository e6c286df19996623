------------------------- MODULE MeshNetworkProofs -------------------------
(***************************************************************************)
(* Proofs about the mesh network API of the iOS framework, for any number  *)
(* of calls: that each is answered once, an open by the library's answer   *)
(* to that very open, and that the slot of the open and its timer go       *)
(* together.                                                               *)
(*                                                                         *)
(* A step of the main thread is a sequence of completions, and each of     *)
(* them may call the API again, so the invariant is stated of the states   *)
(* in between as well: of the manager when the first i of the waiting      *)
(* completions have been called and the completion x of the slot, if x is  *)
(* a call, has been told but still occupies the slot.  Between the steps   *)
(* i and x are 0: this is the inductive invariant IInv.                    *)
(*                                                                         *)
(* A completion is shown to make at most one call (Call), and a call to    *)
(* preserve the invariant for every i and x.  What onLinkStatus does to a  *)
(* list of any length follows by induction over the list (SetInduction).   *)
(***************************************************************************)
EXTENDS MeshNetwork, Integers, WellFoundedInduction, FiniteSetTheorems,
        SequenceTheorems, TLAPS

USE DEF Nobody, Calls

-----------------------------------------------------------------------------
(* The invariant                                                           *)

Made(s) == 1..Len(s.kind)

\* Whatever the manager holds, it holds for calls that have been made.
Typed(s) ==
    /\ s \in Manager
    /\ Len(s.told) = Len(s.kind)
    /\ Len(s.kind) <= MaxCalls
    /\ s.slot <= Len(s.kind)
    /\ s.accepted \subseteq Made(s)
    /\ s.dropped \subseteq Made(s)
    /\ \A j \in DOMAIN s.waiters : s.waiters[j] <= Len(s.kind)

\* id is in the list, behind those called already
Waits(s, i, id) == \E j \in DOMAIN s.waiters : j > i /\ s.waiters[j] = id

Answered(s, id) == Len(s.told[id]) = 1

\* The call is in one place: answered, in the list, in the slot, or lost.
Place(s, i, x, id) ==
    LET waits == Waits(s, i, id)
        holds == s.slot = id /\ id # x
        lost  == id \in s.dropped
    IN  \/ Len(s.told[id]) = 1 /\ ~waits /\ ~holds /\ ~lost
        \/ Len(s.told[id]) = 0 /\ waits /\ ~holds /\ ~lost
        \/ Len(s.told[id]) = 0 /\ ~waits /\ holds /\ ~lost
        \/ Len(s.told[id]) = 0 /\ ~waits /\ ~holds /\ lost

\* Nobody is twice in the list, those called have been told, and every call
\* is in its place.
Placed(s, i, x) ==
    /\ \A j, k \in DOMAIN s.waiters :
           j > i /\ k > i /\ s.waiters[j] = s.waiters[k] => j = k
    /\ \A j \in DOMAIN s.waiters :
           j <= i => Answered(s, s.waiters[j])
    /\ \A id \in Made(s) : Place(s, i, x, id)

\* The timer runs for the open in the slot, until that one is told.
Running(s, x) ==
    IF x = Nobody THEN s.slot # Nobody <=> s.timer ELSE s.slot = x /\ ~s.timer

TimedOut(s, j) ==
    \E i \in DOMAIN s.told[j] : s.told[j][i] = Answer("timeout")

\* an open not later than id has timed out
OneBefore(s, id) == \E j \in Made(s) : j <= id /\ TimedOut(s, j)

\* An open that the library has not reported is the one in the slot, or an
\* open has timed out by then.  It is not later than the one in the slot.
Late(s, x) ==
    /\ \A id \in s.accepted : (id = s.slot /\ id # x) \/ OneBefore(s, id)
    /\ s.slot # Nobody => \A id \in s.accepted : id <= s.slot

\* AnswersItsOwn, in the words of Late
Own(s) ==
    \A id \in Made(s) : \A i \in DOMAIN s.told[id] :
        s.told[id][i].of \in {Nobody, id} \/ OneBefore(s, id - 1)

Inv(s, i, x) ==
    Typed(s) /\ Placed(s, i, x) /\ Running(s, x) /\ Late(s, x) /\ Own(s)

\* between two steps of the main thread
IInv == Inv(m, 0, Nobody)

-----------------------------------------------------------------------------
(* A call                                                                  *)

\* No call is made.
Same(s, u) ==
    /\ u.kind = s.kind /\ u.told = s.told /\ u.waiters = s.waiters
    /\ u.slot = s.slot /\ u.timer = s.timer /\ u.accepted = s.accepted
    /\ u.dropped = s.dropped

\* A call is made and answered at once.
Answering(s, u) ==
    /\ \E a \in Answers : a.of = Nobody /\ u.told = Append(s.told, <<a>>)
    /\ u.waiters = s.waiters /\ u.slot = s.slot /\ u.accepted = s.accepted
    /\ u.timer = s.timer \/ (s.slot = Nobody /\ ~u.timer)

\* A call is made that waits for the link.
Waiting(s, u) ==
    /\ u.told = Append(s.told, <<>>)
    /\ u.waiters = Append(s.waiters, Len(s.kind) + 1)
    /\ u.slot = s.slot /\ u.timer = s.timer /\ u.accepted = s.accepted

\* A call is made that takes the slot.
Opening(s, u) ==
    /\ u.told = Append(s.told, <<>>)
    /\ u.waiters = s.waiters
    /\ s.slot = Nobody /\ u.slot = Len(s.kind) + 1 /\ u.timer
    /\ u.accepted = s.accepted \union {Len(s.kind) + 1}

New(s, u) ==
    /\ Len(s.kind) < MaxCalls
    /\ Len(u.kind) = Len(s.kind) + 1
    /\ u.dropped = s.dropped
    /\ Answering(s, u) \/ Waiting(s, u) \/ Opening(s, u)

Call(s, u) == u \in Manager /\ (Same(s, u) \/ New(s, u))

-----------------------------------------------------------------------------
(* The list, one handler after the other                                   *)

\* Induction over 0..n, stated of a set: from the least element that is
\* missing in it.
LEMMA SetInduction ==
    ASSUME NEW n \in Nat, NEW S, 0 \in S,
           \A i \in 0..(n - 1) : i \in S => i + 1 \in S
    PROVE  n \in S
<1> DEFINE T == {i \in Nat : i <= n /\ i \notin S}
           R == {p \in Nat \X Nat : p[1] < p[2]}
<1> SUFFICES ASSUME n \notin S PROVE FALSE
    OBVIOUS
<1>1. T \subseteq Nat /\ n \in T
    OBVIOUS
<1>2. IsWellFoundedOn(R, Nat)
    BY NatLessThanWellFounded DEF OpToRel
<1>3. PICK k \in T : \A j \in T : <<j, k>> \notin R
    <2> HIDE DEF T, R
    <2> QED BY <1>1, <1>2, WFMin, Zenon
<1>4. k \in Nat /\ k <= n /\ k \notin S
    BY <1>3
<1>5. k - 1 \in 0..(n - 1)
    BY <1>4
<1>6. k - 1 \in S
    <2>1. <<k - 1, k>> \in R
        BY <1>4, <1>5
    <2>2. k - 1 \notin T
        BY <1>3, <2>1
    <2> QED BY <1>5, <2>2
<1> QED BY <1>4, <1>5, <1>6

\* handled is the function that its recursive definition describes.
LEMMA Handling ==
    ASSUME NEW s, s.waiters \in Seq(Calls)
    PROVE  /\ handled(s)[0] = {s}
           /\ \A i \in 1..Len(s.waiters) :
                  handled(s)[i] =
                      UNION {complete(t, s.waiters[i], Answer("link"))
                             : t \in handled(s)[i - 1]}
<1> DEFINE n == Len(s.waiters)
           C(X, i) == UNION {complete(t, s.waiters[i], Answer("link"))
                             : t \in X}
           Def(g, k) ==
               g = [i \in 0..k |-> IF i = 0 THEN {s} ELSE C(g[i - 1], i)]
           Has(k) == \E g : Def(g, k)
           S == {k \in 0..n : Has(k)}
<1>0. n \in Nat
    OBVIOUS
<1> HIDE DEF C
<1>1. 0 \in S
    <2>1. Def([i \in 0..0 |-> {s}], 0)
        OBVIOUS
    <2>2. Has(0)
        <3> HIDE DEF Def
        <3> QED BY <2>1
    <2> HIDE DEF Has, n
    <2> QED BY <1>0, <2>2
<1>2. ASSUME NEW k \in 0..(n - 1), k \in S PROVE k + 1 \in S
    <2>1. PICK g : Def(g, k)
        BY <1>2
    <2> DEFINE h == [i \in 0..(k + 1) |-> IF i <= k THEN g[i] ELSE C(g[k], i)]
    <2>2. \A i \in 0..(k + 1) : h[i] = IF i = 0 THEN {s} ELSE C(h[i - 1], i)
        <3> TAKE i \in 0..(k + 1)
        <3>1. CASE i = 0
            BY <2>1, <3>1
        <3>2. CASE i \in 1..k
            <4>1. h[i] = g[i] /\ h[i - 1] = g[i - 1]
                BY <3>2
            <4>2. g[i] = C(g[i - 1], i)
                <5>1. i \in 0..k /\ i # 0
                    BY <3>2
                <5> QED BY <2>1, <5>1
            <4>3. h[i] = C(h[i - 1], i)
                <5> HIDE DEF h
                <5> QED BY <4>1, <4>2
            <4> QED BY <4>3, <3>2
        <3>3. CASE i = k + 1
            <4>1. h[i] = C(g[k], i) /\ h[i - 1] = g[k]
                BY <3>3
            <4> QED BY <4>1, <3>3
        <3> QED BY <3>1, <3>2, <3>3
    <2>3. h = [i \in 0..(k + 1) |-> h[i]]
        OBVIOUS
    <2>4. Def(h, k + 1)
        <3> HIDE DEF h
        <3> QED BY <2>2, <2>3
    <2>5. Has(k + 1)
        <3> HIDE DEF h, Def
        <3> QED BY <2>4
    <2> HIDE DEF Has, n
    <2> QED BY <1>0, <1>2, <2>5
<1>3. n \in S
    <2> HIDE DEF S, n
    <2> QED BY <1>0, <1>1, <1>2, SetInduction
<1>4. Def(handled(s), n)
    <2>1. \E g : Def(g, n)
        BY <1>3
    <2>2. handled(s) = CHOOSE g : Def(g, n)
        BY DEF handled, C
    <2> HIDE DEF Def
    <2> QED BY <2>1, <2>2
<1> HIDE DEF n
<1>5. handled(s)[0] = {s}
    BY <1>0, <1>4
<1>6. \A i \in 1..n : handled(s)[i] = C(handled(s)[i - 1], i)
    <2> SUFFICES ASSUME NEW i \in 1..n
                 PROVE  handled(s)[i] = C(handled(s)[i - 1], i)
        OBVIOUS
    <2>1. i \in 0..n /\ i # 0
        BY <1>0
    <2> QED BY <1>4, <2>1
<1> QED BY <1>5, <1>6 DEF C, n

-----------------------------------------------------------------------------
(* The operations of the API are calls                                     *)

\* The record of the calls after a call.
LEMMA Called ==
    ASSUME NEW s, Typed(s), NEW k \in Kinds, NEW t \in called(s, k)
    PROVE  /\ t \in Manager
           /\ newest(t) = Len(s.kind) + 1 /\ newest(t) \in Calls
           /\ Len(s.kind) < MaxCalls
           /\ t = [s EXCEPT !.kind = Append(@, k), !.told = Append(@, <<>>)]
           /\ Len(t.kind) = Len(s.kind) + 1
           /\ t.told = Append(s.told, <<>>)
           /\ t.waiters = s.waiters /\ t.slot = s.slot /\ t.timer = s.timer
           /\ t.accepted = s.accepted /\ t.dropped = s.dropped
<1>1. Len(s.kind) < MaxCalls
    BY DEF called
<1>2. t = [s EXCEPT !.kind = Append(@, k), !.told = Append(@, <<>>)]
    BY <1>1 DEF called
<1>3. /\ s.kind \in Seq(Kinds) /\ s.told \in Seq(Seq(Answers)) /\ s \in Manager
    BY DEF Typed, Manager
<1>4. /\ Append(s.kind, k) \in Seq(Kinds)
      /\ Append(s.told, <<>>) \in Seq(Seq(Answers))
    <2>1. <<>> \in Seq(Answers)
        OBVIOUS
    <2> HIDE DEF Kinds, Answers
    <2> QED BY <1>3, <2>1
<1>5. t.kind = Append(s.kind, k) /\ t.told = Append(s.told, <<>>)
    BY <1>2, <1>3 DEF Manager
<1>6. t \in Manager
    BY <1>2, <1>3, <1>4 DEF Manager
<1>7. Len(t.kind) = Len(s.kind) + 1
    BY <1>3, <1>5
<1>8. /\ t.waiters = s.waiters /\ t.slot = s.slot /\ t.timer = s.timer
      /\ t.accepted = s.accepted /\ t.dropped = s.dropped
    BY <1>2, <1>3 DEF Manager
<1> QED BY <1>1, <1>2, <1>3, <1>5, <1>6, <1>7, <1>8, MaxCallsAssumption
        DEF newest

\* The record of the answers after an answer.
LEMMA Tells ==
    ASSUME NEW s \in Manager, NEW id \in DOMAIN s.told, NEW a \in Answers
    PROVE  /\ told(s, id, a) \in Manager
           /\ told(s, id, a).told = [s.told EXCEPT ![id] = Append(@, a)]
           /\ Len(told(s, id, a).told) = Len(s.told)
           /\ told(s, id, a).kind = s.kind
           /\ told(s, id, a).waiters = s.waiters
           /\ told(s, id, a).slot = s.slot
           /\ told(s, id, a).timer = s.timer
           /\ told(s, id, a).accepted = s.accepted
           /\ told(s, id, a).dropped = s.dropped
<1>1. s.told \in Seq(Seq(Answers))
    BY DEF Manager
<1>2. /\ [s.told EXCEPT ![id] = Append(@, a)] \in Seq(Seq(Answers))
      /\ Len([s.told EXCEPT ![id] = Append(@, a)]) = Len(s.told)
    <2>1. Append(s.told[id], a) \in Seq(Answers)
        <3> HIDE DEF Answers
        <3> QED BY <1>1
    <2> DEFINE S == Seq(Answers)
    <2> HIDE DEF S
    <2> QED BY <1>1, <2>1
<1>3. told(s, id, a) = [s EXCEPT !.told = [s.told EXCEPT ![id] = Append(@, a)]]
    BY DEF told, Manager
<1> QED BY <1>2, <1>3 DEF Manager

\* The answers that no callback of the library is behind.
LEMMA PlainAnswer ==
    \A w \in {"timeout", "refused", "busy", "closed", "link"} :
        Answer(w) \in Answers /\ Answer(w).of = Nobody
BY DEF Answer, Answers

\* A call is made, and its last answer is given to it.
LEMMA AppendExcept ==
    ASSUME NEW S, NEW q \in Seq(S), NEW e \in S, NEW b \in S
    PROVE  [Append(q, e) EXCEPT ![Len(q) + 1] = b] = Append(q, b)
<1> DEFINE n == Len(q) + 1
           l == [Append(q, e) EXCEPT ![n] = b]
           r == Append(q, b)
<1>1. /\ n \in Nat \ {0} /\ \A i \in 1..n : i # n => i \in 1..Len(q)
    OBVIOUS
<1>2. /\ r \in Seq(S) /\ Len(r) = n /\ r[n] = b
      /\ \A i \in 1..Len(q) : r[i] = q[i]
    OBVIOUS
<1>3. /\ Append(q, e) \in Seq(S) /\ Len(Append(q, e)) = n
      /\ \A i \in 1..Len(q) : Append(q, e)[i] = q[i]
    OBVIOUS
<1>4. l \in Seq(S) /\ Len(l) = n
    <2> DEFINE p == Append(q, e)
    <2> HIDE DEF p, n
    <2> QED BY <1>1, <1>3
<1>5. l[n] = b /\ \A i \in 1..Len(q) : l[i] = q[i]
    <2> DEFINE p == Append(q, e)
    <2>1. \A i \in 1..Len(q) : i # n /\ i \in DOMAIN p
        BY <1>3
    <2>2. n \in DOMAIN p
        BY <1>1, <1>3
    <2>3. \A i \in 1..Len(q) : p[i] = q[i]
        BY <1>3
    <2>4. l = [p EXCEPT ![n] = b]
        OBVIOUS
    <2> HIDE DEF p, n, l
    <2>5. l[n] = b
        BY <2>2, <2>4
    <2>6. \A i \in 1..Len(q) : l[i] = p[i]
        BY <2>1, <2>4
    <2> QED BY <2>3, <2>5, <2>6
<1>6. \A i \in 1..n : l[i] = r[i]
    <2> HIDE DEF l, r
    <2> QED BY <1>1, <1>2, <1>5
<1> HIDE DEF l, r, n
<1>7. l = r
    BY <1>2, <1>4, <1>6, SeqEqual
<1> QED BY <1>7 DEF l, r, n

\* A call that is answered at once.
LEMMA CalledAndTold ==
    ASSUME NEW s, Typed(s), NEW k \in Kinds, NEW t \in called(s, k),
           NEW a \in Answers, a.of = Nobody
    PROVE  /\ Call(s, told(t, newest(t), a))
           /\ told(t, newest(t), a).told = Append(s.told, <<a>>)
<1> DEFINE u == told(t, newest(t), a)
           n == Len(s.kind) + 1
<1>1. /\ t \in Manager /\ newest(t) = n /\ t.told = Append(s.told, <<>>)
      /\ Len(s.kind) < MaxCalls /\ Len(t.kind) = n
      /\ t.waiters = s.waiters /\ t.slot = s.slot /\ t.timer = s.timer
      /\ t.accepted = s.accepted /\ t.dropped = s.dropped
    BY Called
<1>2. /\ s.told \in Seq(Seq(Answers)) /\ Len(s.told) = Len(s.kind)
      /\ Len(s.kind) \in Nat /\ n \in Nat
    BY DEF Typed, Manager
<1>3. n \in DOMAIN t.told /\ t.told[n] = <<>>
    BY <1>1, <1>2
<1>4. /\ u \in Manager /\ u.told = [t.told EXCEPT ![n] = Append(@, a)]
      /\ u.kind = t.kind /\ u.waiters = t.waiters /\ u.slot = t.slot
      /\ u.timer = t.timer /\ u.accepted = t.accepted /\ u.dropped = t.dropped
    <2>1. u = told(t, n, a)
        BY <1>1
    <2> HIDE DEF n, u
    <2> QED BY <1>1, <1>3, <2>1, Tells
<1>5. Append(<<>>, a) = <<a>>
    OBVIOUS
<1>6. u.told = Append(s.told, <<a>>)
    <2> DEFINE T == s.told
    <2>1. u.told = [Append(T, <<>>) EXCEPT ![n] = <<a>>]
        BY <1>1, <1>3, <1>4, <1>5
    <2>2. T \in Seq(Seq(Answers)) /\ n = Len(T) + 1
        BY <1>2
    <2>3. <<a>> \in Seq(Answers) /\ <<>> \in Seq(Answers)
        <3> HIDE DEF Answers
        <3> QED OBVIOUS
    <2>4. [Append(T, <<>>) EXCEPT ![n] = <<a>>] = Append(T, <<a>>)
        <3> DEFINE S == Seq(Answers)
                   b == <<a>>
                   e == <<>>
        <3>1. T \in Seq(S) /\ b \in S /\ e \in S
            BY <2>2, <2>3
        <3> HIDE DEF T, S, b, e
        <3>2. [Append(T, e) EXCEPT ![Len(T) + 1] = b] = Append(T, b)
            BY <3>1, AppendExcept
        <3> QED BY <2>2, <3>2 DEF b, e
    <2> QED BY <2>1, <2>4
<1>7. Answering(s, u)
    BY <1>1, <1>4, <1>6 DEF Answering
<1> QED BY <1>1, <1>4, <1>6, <1>7 DEF Call, New

\* openMeshNetwork is a call, whether the library takes the open or not.
LEMMA OpenIsCall ==
    ASSUME NEW s, Typed(s), NEW u \in open(s)
    PROVE  Call(s, u)
<1>1. "open" \in Kinds
    BY DEF Kinds
<1>2. PICK t \in called(s, "open") :
          u \in IF t.slot # Nobody
                THEN {told(t, newest(t), Answer("busy"))}
                ELSE attempt([t EXCEPT !.slot = newest(t),
                                       !.opening = newest(t),
                                       !.timer = TRUE], newest(t))
                     \union {notImported(t, newest(t))}
    BY DEF open
<1> DEFINE n == newest(t)
           r == [t EXCEPT !.slot = n, !.opening = n, !.timer = TRUE]
           a == Answer("refused")
<1>3. /\ t \in Manager /\ n = Len(s.kind) + 1 /\ n \in Calls
      /\ Len(s.kind) < MaxCalls
      /\ t.told = Append(s.told, <<>>)
      /\ Len(t.kind) = Len(s.kind) + 1
      /\ t.waiters = s.waiters /\ t.slot = s.slot /\ t.timer = s.timer
      /\ t.accepted = s.accepted /\ t.dropped = s.dropped
    BY <1>1, Called
<1>4. Call(s, told(t, n, a)) /\ told(t, n, a).told = Append(s.told, <<a>>)
    BY <1>1, CalledAndTold, PlainAnswer
<1>5. CASE t.slot # Nobody
    <2>1. u = told(t, n, Answer("busy"))
        BY <1>2, <1>5
    <2> QED BY <1>1, <2>1, CalledAndTold, PlainAnswer
<1>6. CASE t.slot = Nobody /\ u = [r EXCEPT !.accepted = @ \union {n}]
    <2>1. /\ u.slot = n /\ u.timer = TRUE /\ u.accepted = t.accepted \union {n}
          /\ u.kind = t.kind /\ u.told = t.told /\ u.waiters = t.waiters
          /\ u.dropped = t.dropped
        BY <1>3, <1>6 DEF Manager
    <2>2. u \in Manager
        BY <1>3, <1>6 DEF Manager
    <2>3. Opening(s, u)
        BY <1>3, <1>6, <2>1 DEF Opening
    <2> QED BY <1>3, <2>1, <2>2, <2>3 DEF Call, New
<1>7. CASE /\ t.slot = Nobody
           /\ u = [told(r, n, a) EXCEPT !.timer = FALSE, !.slot = Nobody]
    <2>1. r \in Manager /\ r.told = t.told
        BY <1>3 DEF Manager
    <2>2. n \in DOMAIN t.told
        <3>1. s.told \in Seq(Seq(Answers)) /\ Len(s.told) = Len(s.kind)
            BY DEF Typed, Manager
        <3> QED BY <1>3, <3>1
    <2>3. /\ told(r, n, a).told = told(t, n, a).told
          /\ told(r, n, a) \in Manager
          /\ told(r, n, a).kind = r.kind
          /\ told(r, n, a).waiters = r.waiters
          /\ told(r, n, a).accepted = r.accepted
          /\ told(r, n, a).dropped = r.dropped
        <3>1. a \in Answers
            BY PlainAnswer
        <3> HIDE DEF a, n, r
        <3>3. n \in DOMAIN r.told
            BY <2>1, <2>2
        <3>4. told(r, n, a).told = [r.told EXCEPT ![n] = Append(@, a)]
            BY <2>1, <3>1, <3>3, Tells
        <3>5. told(t, n, a).told = [t.told EXCEPT ![n] = Append(@, a)]
            BY <1>3, <2>2, <3>1, Tells
        <3>2. /\ told(r, n, a).told = [r.told EXCEPT ![n] = Append(@, a)]
              /\ told(t, n, a).told = [t.told EXCEPT ![n] = Append(@, a)]
            BY <3>4, <3>5
        <3> QED BY <2>1, <3>1, <3>2, <3>3, Tells
    <2>4. /\ r.kind = t.kind /\ r.waiters = t.waiters
          /\ r.accepted = t.accepted /\ r.dropped = t.dropped
        BY <1>3 DEF Manager
    <2> DEFINE v == told(r, n, a)
    <2> HIDE DEF v, r
    <2>5. /\ u \in Manager /\ u.told = v.told /\ u.kind = v.kind
          /\ u.waiters = v.waiters /\ u.accepted = v.accepted
          /\ u.dropped = v.dropped /\ u.timer = FALSE /\ u.slot = Nobody
        <3>1. v \in Manager
            BY <2>3 DEF v
        <3>2. u = [v EXCEPT !.timer = FALSE, !.slot = Nobody]
            BY <1>7 DEF v
        <3> QED BY <3>1, <3>2 DEF Manager
    <2>6. Answering(s, u)
        BY <1>3, <1>4, <1>7, <2>3, <2>4, <2>5, PlainAnswer DEF Answering, v
    <2> QED BY <1>3, <2>3, <2>4, <2>5, <2>6 DEF Call, New, v
<1>8. CASE t.slot = Nobody /\ u = [told(t, n, a) EXCEPT !.timer = FALSE]
    <2> DEFINE v == told(t, n, a)
    <2>1. v \in Manager /\ Len(v.kind) = n /\ v.dropped = s.dropped
        <3>1. n \in DOMAIN t.told
            <4>1. s.told \in Seq(Seq(Answers)) /\ Len(s.told) = Len(s.kind)
                BY DEF Typed, Manager
            <4> QED BY <1>3, <4>1
        <3> QED BY <1>3, <3>1, Tells, PlainAnswer
    <2>2. v.waiters = t.waiters /\ v.slot = t.slot /\ v.accepted = t.accepted
        <3>1. n \in DOMAIN t.told
            <4>1. s.told \in Seq(Seq(Answers)) /\ Len(s.told) = Len(s.kind)
                BY DEF Typed, Manager
            <4> QED BY <1>3, <4>1
        <3> QED BY <1>3, <3>1, Tells, PlainAnswer
    <2>3. v.told = Append(s.told, <<a>>)
        BY <1>4
    <2> HIDE DEF v
    <2>4. /\ u \in Manager /\ u.told = v.told /\ u.kind = v.kind
          /\ u.waiters = v.waiters /\ u.accepted = v.accepted
          /\ u.dropped = v.dropped /\ u.timer = FALSE /\ u.slot = v.slot
        <3>1. u = [v EXCEPT !.timer = FALSE]
            BY <1>8 DEF v
        <3> QED BY <2>1, <3>1 DEF Manager
    <2>5. Answering(s, u)
        BY <1>3, <1>8, <2>2, <2>3, <2>4, PlainAnswer DEF Answering
    <2> QED BY <1>3, <2>1, <2>4, <2>5 DEF Call, New
<1>9. \/ t.slot # Nobody
      \/ t.slot = Nobody /\ u = [r EXCEPT !.accepted = @ \union {n}]
      \/ /\ t.slot = Nobody
         /\ u = [told(r, n, a) EXCEPT !.timer = FALSE, !.slot = Nobody]
      \/ t.slot = Nobody /\ u = [told(t, n, a) EXCEPT !.timer = FALSE]
    BY <1>2 DEF attempt, notImported
<1> QED BY <1>5, <1>6, <1>7, <1>8, <1>9

\* closeMeshNetwork is none, and takes nobody from the slot.
LEMMA CloseIsSame ==
    ASSUME NEW s \in Manager
    PROVE  close(s) \in Manager /\ Same(s, close(s))
BY DEF close, Same, Manager

\* A call that waits for the link is one.
LEMMA AskedIsCall ==
    ASSUME NEW s, Typed(s), NEW k \in Kinds, NEW t \in called(s, k)
    PROVE  Call(s, asked(t))
<1> DEFINE u == asked(t)
<1>1. /\ t \in Manager /\ newest(t) = Len(s.kind) + 1 /\ newest(t) \in Calls
      /\ Len(s.kind) < MaxCalls
      /\ t.told = Append(s.told, <<>>)
      /\ Len(t.kind) = Len(s.kind) + 1
      /\ t.waiters = s.waiters /\ t.slot = s.slot /\ t.timer = s.timer
      /\ t.accepted = s.accepted /\ t.dropped = s.dropped
    BY Called
<1>2. u = [t EXCEPT !.linking = TRUE, !.waiters = Append(t.waiters, newest(t))]
    BY <1>1 DEF asked, Manager
<1>3. Append(t.waiters, newest(t)) \in Seq(Calls)
    <2> HIDE DEF Calls
    <2> QED BY <1>1 DEF Manager
<1>4. /\ u \in Manager /\ u.told = t.told /\ u.kind = t.kind
      /\ u.waiters = Append(t.waiters, newest(t)) /\ u.slot = t.slot
      /\ u.timer = t.timer /\ u.accepted = t.accepted /\ u.dropped = t.dropped
    BY <1>1, <1>2, <1>3 DEF Manager
<1>5. Waiting(s, u)
    BY <1>1, <1>4 DEF Waiting
<1> QED BY <1>1, <1>4, <1>5 DEF Call, New

\* connectMeshNetwork is a call.
LEMMA ConnectIsCall ==
    ASSUME NEW s, Typed(s), NEW u \in connect(s)
    PROVE  Call(s, u)
<1>1. "link" \in Kinds
    BY DEF Kinds
<1>2. PICK t \in called(s, "link") :
          u \in {told(t, newest(t), Answer("link")),
                 told(t, newest(t), Answer("refused")), asked(t)}
    BY DEF connect
<1> QED BY <1>1, <1>2, CalledAndTold, AskedIsCall, PlainAnswer

\* runHandlerWithMeshNetworkConnected is a call.
LEMMA RunHandlerIsCall ==
    ASSUME NEW s, Typed(s), NEW u \in runHandler(s)
    PROVE  Call(s, u)
<1>1. "link" \in Kinds
    BY DEF Kinds
<1>2. \/ \E t \in called(s, "link") : u = told(t, newest(t), Answer("closed"))
      \/ u \in connect(s)
    BY DEF runHandler
<1> QED BY <1>1, <1>2, CalledAndTold, ConnectIsCall, PlainAnswer

\* Whether a state is typed depends on what a call leaves as it was.
LEMMA SameTyped ==
    ASSUME NEW s, Typed(s), NEW u \in Manager, Same(s, u)
    PROVE  Typed(u)
BY DEF Typed, Same, Made

\* A call after closing the network is a call.
LEMMA SameThenCall ==
    ASSUME NEW s, NEW t, Same(s, t), NEW u, Call(t, u)
    PROVE  Call(s, u)
BY DEF Same, Call, New, Answering, Waiting, Opening

\* The completion of a call, once it is told, makes at most one call.
LEMMA CompleteIsCall ==
    ASSUME NEW s, NEW id, NEW a, NEW t, t = told(s, id, a), Typed(t),
           NEW u \in complete(s, id, a)
    PROVE  Call(t, u)
<1> DEFINE c == close(t)
<1>1. c \in Manager /\ Same(t, c) /\ Call(t, c)
    BY CloseIsSame DEF Typed, Call
<1>2. Call(t, t)
    BY DEF Typed, Call, Same
<1>3. u = t \/ u = c \/ u \in open(c) \/ u \in open(t) \/ u \in runHandler(t)
    BY DEF complete
<1>4. CASE u \in open(c)
    <2>1. Call(c, u)
        BY <1>1, <1>4, OpenIsCall, SameTyped
    <2> QED BY <1>1, <2>1, SameThenCall
<1> QED BY <1>1, <1>2, <1>3, <1>4, OpenIsCall, RunHandlerIsCall

-----------------------------------------------------------------------------
(* A call preserves the invariant, at every point of a step                *)

\* A new call leaves the answers of the others as they were.
LEMMA NewTold ==
    ASSUME NEW s, Typed(s), NEW u \in Manager, New(s, u)
    PROVE  LET n == Len(s.kind) + 1
           IN  /\ Len(s.kind) \in Nat
               /\ Len(u.told) = n /\ Len(u.kind) = n
               /\ \A id \in Made(s) : id # n /\ u.told[id] = s.told[id]
               /\ \A id \in Made(u) : id \in Made(s) \/ id = n
               /\ \A id \in Made(s) : id \in Made(u)
               /\ n \in Made(u) /\ n \notin Made(s)
               /\ \/ Answering(s, u) /\ \E a \in Answers : a.of = Nobody /\ u.told[n] = <<a>>
                  \/ Waiting(s, u) /\ u.told[n] = <<>>
                  \/ Opening(s, u) /\ u.told[n] = <<>>
<1> DEFINE n == Len(s.kind) + 1
           T == s.told
           q == u.told
<1>1. /\ T \in Seq(Seq(Answers)) /\ Len(T) + 1 = n /\ Len(s.kind) \in Nat
      /\ Len(u.kind) = n
    BY DEF Typed, Manager, New
<1>2. /\ \A id \in Made(s) : id \in 1..Len(T) /\ id # n
      /\ \A id \in Made(u) : id \in Made(s) \/ id = n
      /\ \A id \in Made(s) : id \in Made(u)
      /\ n \in Made(u) /\ n \notin Made(s)
    BY <1>1 DEF Made
<1>3. ASSUME NEW e, q = Append(T, e)
      PROVE  Len(q) = n /\ (\A id \in Made(s) : q[id] = T[id]) /\ q[n] = e
    <2> HIDE DEF T, n, q
    <2> QED BY <1>1, <1>2, <1>3
<1>4. CASE Answering(s, u)
    <2>1. PICK a \in Answers : a.of = Nobody /\ u.told = Append(s.told, <<a>>)
        BY <1>4 DEF Answering
    <2> DEFINE e == <<a>>
    <2>2. q = Append(T, e)
        BY <2>1
    <2> HIDE DEF e
    <2>3. Len(q) = n /\ (\A id \in Made(s) : q[id] = T[id]) /\ q[n] = e
        BY <1>3, <2>2
    <2> QED BY <1>1, <1>2, <1>4, <2>1, <2>3 DEF e
<1>5. CASE Waiting(s, u) \/ Opening(s, u)
    <2> DEFINE e == <<>>
    <2>1. q = Append(T, e)
        BY <1>5 DEF Waiting, Opening
    <2> HIDE DEF e
    <2>2. Len(q) = n /\ (\A id \in Made(s) : q[id] = T[id]) /\ q[n] = e
        BY <1>3, <2>1
    <2> QED BY <1>1, <1>2, <1>5, <2>2 DEF e
<1> QED BY <1>4, <1>5 DEF New

\* A call adds itself to the list, or leaves the list alone.
LEMMA NewWaiters ==
    ASSUME NEW s, Typed(s), NEW u \in Manager, New(s, u)
    PROVE  LET n == Len(s.kind) + 1
               l == Len(s.waiters)
           IN  /\ l \in Nat /\ DOMAIN s.waiters = 1..l
               /\ \A j \in 1..l : s.waiters[j] \in Made(s)
               /\ \A j \in 1..l : u.waiters[j] = s.waiters[j]
               /\ Len(u.waiters) >= l
               /\ \/ ~Waiting(s, u) /\ u.waiters = s.waiters
                  \/ /\ Waiting(s, u)
                     /\ DOMAIN u.waiters = 1..(l + 1) /\ u.waiters[l + 1] = n
<1> DEFINE n == Len(s.kind) + 1
           l == Len(s.waiters)
           w == s.waiters
           v == u.waiters
<1>1. w \in Seq(Calls) /\ n \in Nat /\ Len(s.kind) \in Nat
    BY DEF Typed, Manager
<1>2. l \in Nat /\ DOMAIN w = 1..l /\ \A j \in 1..l : w[j] \in Calls
    <2> HIDE DEF Calls
    <2> QED BY <1>1
<1>3. \A j \in 1..l : w[j] \in Made(s)
    <2> SUFFICES ASSUME NEW j \in 1..l PROVE w[j] \in Made(s)
        OBVIOUS
    <2>1. w[j] \in Nat /\ w[j] >= 1
        BY <1>2, MaxCallsAssumption
    <2>2. w[j] <= Len(s.kind)
        BY <1>2 DEF Typed
    <2> HIDE DEF w
    <2> QED BY <1>1, <2>1, <2>2 DEF Made
<1>4. CASE Waiting(s, u)
    <2>1. v = Append(w, n)
        BY <1>4 DEF Waiting
    <2>2. /\ DOMAIN v = 1..(l + 1) /\ v[l + 1] = n /\ Len(v) = l + 1
          /\ \A j \in 1..l : v[j] = w[j]
        <3> HIDE DEF n, w, v
        <3> QED BY <1>1, <1>2, <2>1
    <2> QED BY <1>2, <1>3, <1>4, <2>2
<1>5. CASE ~Waiting(s, u)
    <2>1. v = w
        BY <1>5 DEF New, Answering, Opening
    <2> QED BY <1>2, <1>3, <1>5, <2>1
<1> QED BY <1>4, <1>5

\* A new call is typed.
LEMMA NewTyped ==
    ASSUME NEW s, Typed(s), NEW u \in Manager, New(s, u)
    PROVE  Typed(u)
<1> DEFINE n == Len(s.kind) + 1
<1>1. /\ Len(s.kind) \in Nat /\ Len(u.told) = n /\ Len(u.kind) = n
      /\ Made(s) \subseteq Made(u) /\ n \in Made(u)
    BY NewTold
<1>2. n <= MaxCalls
    BY <1>1, MaxCallsAssumption DEF New
<1>3. u.slot <= n
    <2>1. s.slot \in Nat /\ s.slot <= Len(s.kind)
        BY DEF Typed, Manager
    <2>2. u.slot = s.slot \/ u.slot = n
        BY DEF New, Answering, Waiting, Opening
    <2> QED BY <1>1, <2>1, <2>2
<1>4. u.accepted \subseteq Made(u) /\ u.dropped \subseteq Made(u)
    BY <1>1 DEF New, Answering, Waiting, Opening, Typed
<1>5. \A j \in DOMAIN u.waiters : u.waiters[j] <= n
    BY <1>1, NewWaiters DEF Made
<1> QED BY <1>1, <1>2, <1>3, <1>4, <1>5 DEF Typed

\* A new call gets a place of its own, and the others keep theirs.
LEMMA NewPlaced ==
    ASSUME NEW s, Typed(s), NEW u \in Manager, New(s, u),
           NEW i \in 0..Len(s.waiters), NEW x \in Nat, x <= Len(s.kind),
           Placed(s, i, x)
    PROVE  Placed(u, i, x)
<1> DEFINE n == Len(s.kind) + 1
           l == Len(s.waiters)
<1>1. /\ Len(s.kind) \in Nat /\ n \in Nat /\ Len(u.told) = n /\ Len(u.kind) = n
      /\ \A id \in Made(s) : id # n /\ u.told[id] = s.told[id]
      /\ \A id \in Made(u) : id \in Made(s) \/ id = n
      /\ n \notin Made(s)
      /\ \/ Answering(s, u) /\ \E a \in Answers : u.told[n] = <<a>>
         \/ Waiting(s, u) /\ u.told[n] = <<>>
         \/ Opening(s, u) /\ u.told[n] = <<>>
    BY NewTold
<1>2. /\ l \in Nat /\ DOMAIN s.waiters = 1..l
      /\ \A j \in 1..l : s.waiters[j] \in Made(s)
      /\ \A j \in 1..l : u.waiters[j] = s.waiters[j]
      /\ \/ ~Waiting(s, u) /\ u.waiters = s.waiters
         \/ /\ Waiting(s, u)
            /\ DOMAIN u.waiters = 1..(l + 1) /\ u.waiters[l + 1] = n
    BY NewWaiters
<1> HIDE DEF l, n
<1>3. \A j, k \in DOMAIN u.waiters :
          j > i /\ k > i /\ u.waiters[j] = u.waiters[k] => j = k
    <2> SUFFICES ASSUME NEW j \in DOMAIN u.waiters, NEW k \in DOMAIN u.waiters,
                        j > i, k > i, u.waiters[j] = u.waiters[k]
                 PROVE  j = k
        OBVIOUS
    <2>1. CASE j \in 1..l /\ k \in 1..l
        BY <1>2, <2>1 DEF Placed
    <2>2. CASE ~(j \in 1..l /\ k \in 1..l)
        <3>1. DOMAIN u.waiters = 1..(l + 1) /\ u.waiters[l + 1] = n
            BY <1>2, <2>2
        <3>2. \A h \in 1..l : u.waiters[h] # n
            BY <1>1, <1>2
        <3>3. \A h \in DOMAIN u.waiters : h \in 1..l \/ h = l + 1
            BY <1>2, <3>1
        <3> QED BY <2>2, <3>1, <3>2, <3>3
    <2> QED BY <2>1, <2>2
<1>4. \A j \in DOMAIN u.waiters : j <= i => Answered(u, u.waiters[j])
    <2> SUFFICES ASSUME NEW j \in DOMAIN u.waiters, j <= i
                 PROVE  Answered(u, u.waiters[j])
        OBVIOUS
    <2>1. j \in 1..l
        BY <1>2 DEF l
    <2>2. Answered(s, s.waiters[j]) /\ s.waiters[j] \in Made(s) /\ u.waiters[j] = s.waiters[j]
        BY <1>2, <2>1 DEF Placed
    <2> QED BY <1>1, <2>2 DEF Answered
<1>5. ASSUME NEW id \in Made(s) PROVE Place(u, i, x, id)
    <2>1. Waits(u, i, id) <=> Waits(s, i, id)
        <3>1. CASE u.waiters = s.waiters
            BY <3>1 DEF Waits
        <3>2. CASE DOMAIN u.waiters = 1..(l + 1) /\ u.waiters[l + 1] = n
            <4>1. \A h \in DOMAIN u.waiters : u.waiters[h] = id => h \in 1..l
                BY <1>1, <1>2, <1>5, <3>2
            <4>2. \A h \in 1..l : h \in DOMAIN u.waiters /\ u.waiters[h] = s.waiters[h]
                BY <1>2, <3>2
            <4> QED BY <1>2, <4>1, <4>2 DEF Waits
        <3> QED BY <1>2, <3>1, <3>2
    <2>2. u.slot = id <=> s.slot = id
        BY <1>1, <1>5 DEF New, Answering, Waiting, Opening, n, Made
    <2>3. u.dropped = s.dropped /\ u.told[id] = s.told[id]
        BY <1>1, <1>5 DEF New
    <2>4. Place(s, i, x, id)
        BY DEF Placed
    <2> QED BY <2>1, <2>2, <2>3, <2>4 DEF Place
<1>6. Place(u, i, x, n)
    <2>1. n # x /\ n \notin u.dropped /\ s.slot # n
        <3>1. s.slot \in Nat /\ s.slot <= Len(s.kind)
            BY DEF Typed, Manager
        <3> QED BY <1>1, <3>1 DEF New, n, Typed
    <2>2. ~Waits(s, i, n)
        BY <1>1, <1>2 DEF Waits
    <2>3. CASE Answering(s, u)
        <3>1. ~Waits(u, i, n) /\ u.slot # n
            BY <2>1, <2>2, <2>3 DEF Answering, Waits
        <3>2. Len(u.told[n]) = 1
            <4>1. CASE Waiting(s, u) \/ Opening(s, u)
                BY <2>1, <2>2, <2>3, <1>1, <1>2, <4>1 DEF Waiting, Opening, Answering, Waits, n
            <4>2. CASE \E a \in Answers : u.told[n] = <<a>>
                BY <4>2
            <4> QED BY <1>1, <4>1, <4>2
        <3> QED BY <2>1, <3>1, <3>2 DEF Place
    <2>4. CASE Waiting(s, u) /\ u.told[n] = <<>>
        <3>1. Waits(u, i, n)
            BY <1>2, <2>4 DEF Waits, l
        <3>2. u.slot # n /\ Len(u.told[n]) = 0
            BY <2>1, <2>4 DEF Waiting
        <3> QED BY <2>1, <3>1, <3>2 DEF Place
    <2>5. CASE Opening(s, u) /\ u.told[n] = <<>>
        <3>1. ~Waits(u, i, n) /\ u.slot = n
            BY <2>1, <2>2, <2>5 DEF Opening, Waits, n
        <3>2. Len(u.told[n]) = 0
            BY <2>5
        <3> QED BY <2>1, <3>1, <3>2 DEF Place
    <2> QED BY <1>1, <2>3, <2>4, <2>5
<1>7. \A id \in Made(u) : Place(u, i, x, id)
    BY <1>1, <1>5, <1>6
<1> QED BY <1>3, <1>4, <1>7 DEF Placed

\* A new call that takes the slot is later than all the library has.
LEMMA NewLate ==
    ASSUME NEW s, Typed(s), NEW u \in Manager, New(s, u),
           NEW x \in Nat, x <= Len(s.kind), Late(s, x)
    PROVE  Late(u, x) /\ \A id \in Int : OneBefore(s, id) => OneBefore(u, id)
<1> DEFINE n == Len(s.kind) + 1
<1>1. /\ Len(s.kind) \in Nat /\ n \in Nat
      /\ \A id \in Made(s) : id # n /\ u.told[id] = s.told[id]
      /\ \A id \in Made(s) : id \in Made(u)
    BY NewTold
<1>2. \A id \in Int : OneBefore(s, id) => OneBefore(u, id)
    BY <1>1 DEF OneBefore, TimedOut
<1>3. /\ s.accepted \subseteq Made(s) /\ s.slot \in Nat /\ s.slot <= Len(s.kind)
      /\ \A id \in Made(s) : id \in Int /\ id <= n /\ id # Nobody
    BY <1>1 DEF Typed, Manager, Made
<1>4. CASE Opening(s, u)
    <2>1. /\ s.slot = Nobody /\ u.slot = n /\ u.accepted = s.accepted \union {n}
          /\ n # x
        BY <1>1, <1>4 DEF Opening
    <2> HIDE DEF n
    <2> QED BY <1>1, <1>2, <1>3, <2>1 DEF Late
<1>5. CASE ~Opening(s, u)
    <2>1. u.slot = s.slot /\ u.accepted = s.accepted
        BY <1>5 DEF New, Answering, Waiting
    <2> QED BY <1>2, <1>3, <2>1 DEF Late
<1> QED BY <1>2, <1>4, <1>5

\* A new call is not answered with the report of another.
LEMMA NewOwn ==
    ASSUME NEW s, Typed(s), NEW u \in Manager, New(s, u), Own(s),
           \A id \in Int : OneBefore(s, id) => OneBefore(u, id)
    PROVE  Own(u)
<1> DEFINE n == Len(s.kind) + 1
<1>1. /\ Len(s.kind) \in Nat /\ n \in Nat
      /\ \A id \in Made(s) : id # n /\ u.told[id] = s.told[id]
      /\ \A id \in Made(u) : id \in Made(s) \/ id = n
      /\ \/ \E a \in Answers : a.of = Nobody /\ u.told[n] = <<a>>
         \/ u.told[n] = <<>>
    BY NewTold
<1>2. SUFFICES ASSUME NEW id \in Made(u), NEW i \in DOMAIN u.told[id]
               PROVE  u.told[id][i].of \in {Nobody, id} \/ OneBefore(u, id - 1)
    BY DEF Own
<1>3. CASE id \in Made(s)
    <2>1. id - 1 \in Int
        BY <1>1, <1>3 DEF Made
    <2> QED BY <1>1, <1>3, <2>1 DEF Own
<1>4. CASE id = n
    <2> HIDE DEF n
    <2>1. CASE u.told[n] = <<>>
        BY <1>4, <2>1
    <2>2. CASE \E a \in Answers : a.of = Nobody /\ u.told[n] = <<a>>
        <3>1. PICK a \in Answers : a.of = Nobody /\ u.told[n] = <<a>>
            BY <2>2
        <3>2. u.told[id] = <<a>>
            BY <1>4, <3>1
        <3>3. \A k \in DOMAIN <<a>> : <<a>>[k] = a
            OBVIOUS
        <3>4. u.told[id][i] = a
            BY <3>2, <3>3
        <3> QED BY <3>1, <3>4
    <2> QED BY <1>1, <2>1, <2>2
<1> QED BY <1>1, <1>3, <1>4

\* A call that a completion makes keeps what is being worked off.
LEMMA CallInv ==
    ASSUME NEW s, NEW i \in 0..Len(s.waiters), NEW x \in Nat, Inv(s, i, x),
           NEW u, Call(s, u)
    PROVE  /\ Inv(u, i, x)
           /\ Len(u.waiters) >= Len(s.waiters)
           /\ \A j \in 1..Len(s.waiters) : u.waiters[j] = s.waiters[j]
<1>1. Typed(s) /\ Placed(s, i, x) /\ Running(s, x) /\ Late(s, x) /\ Own(s)
    BY DEF Inv
<1>2. x <= Len(s.kind) /\ s.slot \in Nat /\ Len(s.kind) \in Nat
    BY <1>1 DEF Typed, Running, Manager
<1>3. u \in Manager /\ u.slot \in Nat /\ u.timer \in BOOLEAN /\ s.timer \in BOOLEAN
    BY <1>1 DEF Call, Manager, Typed
<1>4. CASE Same(s, u)
    <2>1. Typed(u)
        BY <1>1, <1>3, <1>4, SameTyped
    <2>2. Placed(u, i, x)
        BY <1>1, <1>4 DEF Same, Placed, Place, Waits, Answered, Made
    <2>3. Running(u, x)
        BY <1>1, <1>4 DEF Same, Running
    <2>4. Late(u, x) /\ Own(u)
        BY <1>1, <1>4 DEF Same, Late, Own, OneBefore, TimedOut, Made
    <2>5. /\ Len(u.waiters) >= Len(s.waiters)
          /\ \A j \in 1..Len(s.waiters) : u.waiters[j] = s.waiters[j]
        <3>1. Len(s.waiters) \in Nat
            BY <1>1 DEF Typed, Manager
        <3> QED BY <1>4, <3>1 DEF Same
    <2> QED BY <2>1, <2>2, <2>3, <2>4, <2>5 DEF Inv
<1>5. CASE New(s, u)
    <2>1. Typed(u)
        BY <1>1, <1>3, <1>5, NewTyped
    <2>2. Placed(u, i, x)
        BY <1>1, <1>2, <1>3, <1>5, NewPlaced
    <2>3. Running(u, x)
        <3>1. \/ u.slot = s.slot /\ u.timer = s.timer
              \/ u.slot = s.slot /\ s.slot = Nobody /\ ~u.timer
              \/ s.slot = Nobody /\ u.slot = Len(s.kind) + 1 /\ u.timer
            BY <1>5 DEF New, Answering, Waiting, Opening
        <3> QED BY <1>1, <1>2, <1>3, <3>1 DEF Running
    <2>4. Late(u, x) /\ \A id \in Int : OneBefore(s, id) => OneBefore(u, id)
        BY <1>1, <1>2, <1>3, <1>5, NewLate
    <2>5. Own(u)
        BY <1>1, <1>3, <1>5, <2>4, NewOwn
    <2>6. /\ Len(u.waiters) >= Len(s.waiters)
          /\ \A j \in 1..Len(s.waiters) : u.waiters[j] = s.waiters[j]
        BY <1>1, <1>3, <1>5, NewWaiters
    <2> QED BY <2>1, <2>2, <2>3, <2>4, <2>5, <2>6 DEF Inv
<1> QED BY <1>4, <1>5 DEF Call

-----------------------------------------------------------------------------
(* A completion is called                                                  *)

\* What telling one call does to the calls and their answers.
LEMMA ToldOne ==
    ASSUME NEW s, Typed(s), NEW id \in Made(s), NEW a \in Answers
    PROVE  LET u == told(s, id, a)
           IN  /\ Typed(u)
               /\ Made(u) = Made(s)
               /\ \A j \in Made(s) : j # id => u.told[j] = s.told[j]
               /\ u.told[id] = Append(s.told[id], a)
               /\ s.told[id] \in Seq(Answers)
               /\ u.waiters = s.waiters /\ u.slot = s.slot
               /\ u.timer = s.timer /\ u.accepted = s.accepted
               /\ u.dropped = s.dropped /\ u.kind = s.kind
<1> DEFINE u == told(s, id, a)
           T == s.told
<1>1. /\ s \in Manager /\ T \in Seq(Seq(Answers)) /\ Len(s.kind) \in Nat
      /\ DOMAIN T = Made(s)
    BY DEF Typed, Manager, Made
<1>2. /\ u \in Manager
      /\ u.told = [T EXCEPT ![id] = Append(@, a)]
      /\ Len(u.told) = Len(T) /\ u.kind = s.kind
      /\ u.waiters = s.waiters /\ u.slot = s.slot /\ u.timer = s.timer
      /\ u.accepted = s.accepted /\ u.dropped = s.dropped
    BY <1>1, Tells
<1>3. Made(u) = Made(s) /\ Typed(u)
    BY <1>2 DEF Typed, Made
<1>4. /\ \A j \in Made(s) : j # id => u.told[j] = T[j]
      /\ u.told[id] = Append(T[id], a)
    <2> HIDE DEF u, T
    <2> QED BY <1>1, <1>2
<1>5. T[id] \in Seq(Answers)
    <2> HIDE DEF T, Answers
    <2> QED BY <1>1
<1> QED BY <1>2, <1>3, <1>4, <1>5

\* An answer takes no time-out back, and may be one.
LEMMA ToldBefore ==
    ASSUME NEW s, Typed(s), NEW id \in Made(s), NEW a \in Answers
    PROVE  /\ \A h \in Int : OneBefore(s, h) => OneBefore(told(s, id, a), h)
           /\ a = Answer("timeout") => OneBefore(told(s, id, a), id)
<1> DEFINE u == told(s, id, a)
<1>1. /\ Made(u) = Made(s)
      /\ \A j \in Made(s) : j # id => u.told[j] = s.told[j]
      /\ u.told[id] = Append(s.told[id], a)
      /\ s.told[id] \in Seq(Answers)
    BY ToldOne
<1> DEFINE q == s.told[id]
<1>2. Len(q) \in Nat /\ DOMAIN q = 1..Len(q) /\ DOMAIN Append(q, a) = 1..(Len(q) + 1)
    <2> HIDE DEF q, Answers
    <2> QED BY <1>1 DEF q
<1>3. /\ \A i \in DOMAIN q : i \in DOMAIN Append(q, a) /\ Append(q, a)[i] = q[i]
      /\ Append(q, a)[Len(q) + 1] = a
    <2> HIDE DEF q, Answers
    <2> QED BY <1>1, <1>2 DEF q
<1> HIDE DEF u
<1>4. \A j \in Made(s) : TimedOut(s, j) => TimedOut(u, j)
    BY <1>1, <1>3 DEF TimedOut
<1>5. a = Answer("timeout") => TimedOut(u, id)
    BY <1>1, <1>2, <1>3 DEF TimedOut
<1>6. id <= id
    BY DEF Made
<1> QED BY <1>1, <1>4, <1>5, <1>6 DEF OneBefore, u

\* An answer that is the call's own, or comes after a time-out.
LEMMA ToldOwn ==
    ASSUME NEW s, Typed(s), Own(s), NEW id \in Made(s), NEW a \in Answers,
           a.of \in {Nobody, id} \/ OneBefore(s, id - 1)
    PROVE  Own(told(s, id, a))
<1> DEFINE u == told(s, id, a)
           q == s.told[id]
<1>1. /\ Made(u) = Made(s)
      /\ \A j \in Made(s) : j # id => u.told[j] = s.told[j]
      /\ u.told[id] = Append(q, a)
      /\ q \in Seq(Answers)
    BY ToldOne
<1>2. \A h \in Int : OneBefore(s, h) => OneBefore(u, h)
    BY ToldBefore
<1>3. \A j \in Made(s) : j - 1 \in Int
    BY DEF Made
<1>4. \A i \in DOMAIN Append(q, a) :
          (i \in DOMAIN q /\ Append(q, a)[i] = q[i]) \/ Append(q, a)[i] = a
    <2> HIDE DEF q, Answers
    <2> QED BY <1>1
<1> HIDE DEF u
<1>5. SUFFICES ASSUME NEW j \in Made(u), NEW i \in DOMAIN u.told[j]
               PROVE  u.told[j][i].of \in {Nobody, j} \/ OneBefore(u, j - 1)
    BY DEF Own, u
<1>6. CASE j # id
    BY <1>1, <1>2, <1>3, <1>6 DEF Own
<1>7. CASE j = id
    <2>1. \/ i \in DOMAIN q /\ u.told[id][i] = q[i]
          \/ u.told[id][i] = a
        BY <1>1, <1>4, <1>7
    <2>2. i \in DOMAIN q => q[i].of \in {Nobody, id} \/ OneBefore(s, id - 1)
        BY DEF Own
    <2> QED BY <1>2, <1>3, <1>7, <2>1, <2>2
<1> QED BY <1>6, <1>7

\* A handler of the list is called: the first of those not called yet.
LEMMA HandlerTold ==
    ASSUME NEW s, NEW i \in Nat, i < Len(s.waiters), Inv(s, i, Nobody)
    PROVE  Inv(told(s, s.waiters[i + 1], Answer("link")), i + 1, Nobody)
<1> DEFINE id == s.waiters[i + 1]
           a == Answer("link")
           u == told(s, id, a)
<1>1. Typed(s) /\ Placed(s, i, Nobody) /\ Running(s, Nobody) /\ Late(s, Nobody) /\ Own(s)
    BY DEF Inv
<1>2. /\ DOMAIN s.waiters = 1..Len(s.waiters) /\ Len(s.waiters) \in Nat
      /\ \A j \in DOMAIN s.waiters : s.waiters[j] \in Made(s)
      /\ Len(s.kind) \in Nat
    <2>1. s.waiters \in Seq(Calls) /\ Len(s.kind) \in Nat
        BY <1>1 DEF Typed, Manager
    <2>2. \A j \in DOMAIN s.waiters : s.waiters[j] \in Calls
        <3> HIDE DEF Calls
        <3> QED BY <2>1
    <2> QED BY <1>1, <2>1, <2>2, MaxCallsAssumption DEF Typed, Made
<1>3. i + 1 \in DOMAIN s.waiters /\ id \in Made(s)
    BY <1>2
<1>4. a \in Answers /\ a.of = Nobody
    BY PlainAnswer
<1>5. /\ Typed(u) /\ Made(u) = Made(s)
      /\ \A j \in Made(s) : j # id => u.told[j] = s.told[j]
      /\ u.told[id] = Append(s.told[id], a)
      /\ s.told[id] \in Seq(Answers)
      /\ u.waiters = s.waiters /\ u.slot = s.slot /\ u.timer = s.timer
      /\ u.accepted = s.accepted /\ u.dropped = s.dropped /\ u.kind = s.kind
    <2> HIDE DEF id, a
    <2> QED BY <1>1, <1>3, <1>4, ToldOne
<1>6. Own(u)
    <2> HIDE DEF id, a
    <2> QED BY <1>1, <1>3, <1>4, ToldOwn
<1>7. Late(u, Nobody)
    <2>1. \A h \in Int : OneBefore(s, h) => OneBefore(u, h)
        <3> HIDE DEF id, a
        <3> QED BY <1>1, <1>3, <1>4, ToldBefore
    <2>2. \A h \in s.accepted : h \in Int
        BY <1>1 DEF Typed, Made
    <2> HIDE DEF u
    <2> QED BY <1>1, <1>5, <2>1, <2>2 DEF Late
<1>8. Running(u, Nobody)
    BY <1>1, <1>5 DEF Running
<1> HIDE DEF u, a
<1>9. Waits(s, i, id)
    BY <1>2, <1>3 DEF Waits
<1>10. /\ Len(s.told[id]) = 0 /\ s.slot # id /\ id \notin s.dropped
    <2>1. Place(s, i, Nobody, id)
        BY <1>1, <1>3 DEF Placed
    <2>2. id # Nobody
        BY <1>3 DEF Made
    <2> QED BY <1>9, <2>1, <2>2 DEF Place
<1>11. Len(u.told[id]) = 1
    <2> DEFINE q == s.told[id]
    <2>1. Len(Append(q, a)) = Len(q) + 1
        <3> HIDE DEF q, Answers
        <3> QED BY <1>4, <1>5 DEF q
    <2> QED BY <1>5, <1>10, <2>1
<1>12. \A j \in DOMAIN s.waiters : j > i + 1 => s.waiters[j] # id
    BY <1>1, <1>2, <1>3 DEF Placed
<1>13. Placed(u, i + 1, Nobody)
    <2>1. \A j, k \in DOMAIN u.waiters :
              j > i + 1 /\ k > i + 1 /\ u.waiters[j] = u.waiters[k] => j = k
        <3>1. \A j \in DOMAIN s.waiters : j > i + 1 => j > i
            BY <1>2
        <3> QED BY <1>1, <1>5, <3>1 DEF Placed
    <2>2. \A j \in DOMAIN u.waiters : j <= i + 1 => Answered(u, u.waiters[j])
        <3> SUFFICES ASSUME NEW j \in DOMAIN s.waiters, j <= i + 1
                     PROVE  Answered(u, s.waiters[j])
            BY <1>5
        <3>1. CASE s.waiters[j] = id
            BY <1>11, <3>1 DEF Answered
        <3>2. CASE s.waiters[j] # id
            <4>1. j <= i
                BY <1>2, <3>2
            <4>2. Answered(s, s.waiters[j])
                BY <1>1, <4>1 DEF Placed
            <4> QED BY <1>2, <1>5, <3>2, <4>2 DEF Answered
        <3> QED BY <3>1, <3>2
    <2>3. ASSUME NEW h \in Made(u) PROVE Place(u, i + 1, Nobody, h)
        <3>1. CASE h = id
            <4>1. ~Waits(u, i + 1, id)
                BY <1>5, <1>12 DEF Waits
            <4> QED BY <1>5, <1>10, <1>11, <3>1, <4>1 DEF Place
        <3>2. CASE h # id
            <4>1. Place(s, i, Nobody, h)
                BY <1>1, <1>5, <2>3 DEF Placed
            <4>2. Waits(u, i + 1, h) <=> Waits(s, i, h)
                <5>1. \A j \in DOMAIN s.waiters : s.waiters[j] = h => j # i + 1
                    BY <3>2
                <5> HIDE DEF id
                <5> QED BY <1>2, <1>5, <5>1 DEF Waits
            <4>3. u.told[h] = s.told[h]
                BY <1>5, <2>3, <3>2
            <4> QED BY <1>5, <4>1, <4>2, <4>3 DEF Place
        <3> QED BY <3>1, <3>2
    <2> QED BY <2>1, <2>2, <2>3 DEF Placed
<1> QED BY <1>5, <1>6, <1>7, <1>8, <1>13 DEF Inv, u, a

\* The completion in the slot is called, with the timer taken back.
LEMMA SlotTold ==
    ASSUME NEW s, Inv(s, 0, Nobody), NEW x, x = s.slot, x # Nobody,
           NEW a \in Answers, a.of \in {Nobody, x} \/ OneBefore(s, x - 1),
           x \in s.accepted => a = Answer("timeout") \/ OneBefore(s, x)
    PROVE  Inv(told([s EXCEPT !.timer = FALSE], x, a), 0, x)
<1> DEFINE r == [s EXCEPT !.timer = FALSE]
           u == told(r, x, a)
<1>1. Typed(s) /\ Placed(s, 0, Nobody) /\ Running(s, Nobody) /\ Late(s, Nobody) /\ Own(s)
    BY DEF Inv
<1>2. s \in Manager /\ x \in Made(s)
    BY <1>1 DEF Typed, Manager, Made
<1>3. /\ r \in Manager /\ r.timer = FALSE
      /\ r.slot = s.slot /\ r.waiters = s.waiters /\ r.accepted = s.accepted
      /\ r.kind = s.kind /\ r.told = s.told /\ r.dropped = s.dropped
    BY <1>2 DEF Manager
<1> HIDE DEF r
<1>4. /\ Typed(r) /\ Made(r) = Made(s) /\ Own(r)
      /\ \A h \in Int : OneBefore(r, h) <=> OneBefore(s, h)
    BY <1>1, <1>3 DEF Typed, Made, Own, OneBefore, TimedOut
<1>5. x - 1 \in Int /\ x \in Int
    BY <1>2 DEF Made
<1>6. /\ Typed(u) /\ Made(u) = Made(s)
      /\ \A j \in Made(s) : j # x => u.told[j] = s.told[j]
      /\ u.told[x] = Append(s.told[x], a)
      /\ s.told[x] \in Seq(Answers)
      /\ u.waiters = s.waiters /\ u.slot = s.slot /\ u.timer = FALSE
      /\ u.accepted = s.accepted /\ u.dropped = s.dropped /\ u.kind = s.kind
    <2>1. x \in Made(r)
        BY <1>2, <1>4
    <2>2. Typed(r) /\ a \in Answers
        BY <1>4
    <2>3. /\ Typed(u) /\ Made(u) = Made(r)
          /\ u.waiters = r.waiters /\ u.slot = r.slot /\ u.timer = r.timer
          /\ u.accepted = r.accepted /\ u.dropped = r.dropped /\ u.kind = r.kind
        BY <2>1, <2>2, ToldOne
    <2>4. /\ \A j \in Made(r) : j # x => u.told[j] = r.told[j]
          /\ u.told[x] = Append(r.told[x], a)
          /\ r.told[x] \in Seq(Answers)
        BY <2>1, <2>2, ToldOne
    <2> HIDE DEF u
    <2> QED BY <1>3, <1>4, <2>3, <2>4
<1>7. Own(u)
    BY <1>2, <1>4, <1>5, ToldOwn
<1>8. /\ \A h \in Int : OneBefore(s, h) => OneBefore(u, h)
      /\ a = Answer("timeout") => OneBefore(u, x)
    BY <1>2, <1>4, ToldBefore
<1> HIDE DEF u
<1>9. Late(u, x)
    <2>1. \A h \in s.accepted : h \in Int
        BY <1>1 DEF Typed, Made
    <2> QED BY <1>1, <1>5, <1>6, <1>8, <2>1 DEF Late
<1>10. Running(u, x)
    BY <1>6 DEF Running
<1>11. /\ Len(s.told[x]) = 0 /\ ~Waits(s, 0, x) /\ x \notin s.dropped
    <2>1. Place(s, 0, Nobody, x)
        BY <1>1, <1>2 DEF Placed
    <2> QED BY <2>1 DEF Place
<1>12. Len(u.told[x]) = 1
    <2> DEFINE q == s.told[x]
    <2>1. Len(Append(q, a)) = Len(q) + 1
        <3> HIDE DEF q, Answers
        <3> QED BY <1>6 DEF q
    <2> QED BY <1>6, <1>11, <2>1
<1>13. Placed(u, 0, x)
    <2>1. \A j, k \in DOMAIN u.waiters :
              j > 0 /\ k > 0 /\ u.waiters[j] = u.waiters[k] => j = k
        BY <1>1, <1>6 DEF Placed
    <2>2. \A j \in DOMAIN u.waiters : j > 0
        BY <1>2, <1>6 DEF Manager
    <2>3. ASSUME NEW h \in Made(u) PROVE Place(u, 0, x, h)
        <3>1. Waits(u, 0, h) <=> Waits(s, 0, h)
            BY <1>6 DEF Waits
        <3>2. CASE h = x
            BY <1>6, <1>11, <1>12, <3>1, <3>2 DEF Place
        <3>3. CASE h # x
            <4>1. Place(s, 0, Nobody, h) /\ u.told[h] = s.told[h]
                BY <1>1, <1>6, <2>3, <3>3 DEF Placed
            <4>2. s.slot # h
                BY <3>3
            <4> QED BY <1>6, <3>1, <3>3, <4>1, <4>2 DEF Place
        <3> QED BY <3>2, <3>3
    <2>4. \A j \in DOMAIN u.waiters : ~(j <= 0)
        BY <1>2, <1>6 DEF Manager
    <2> QED BY <2>1, <2>3, <2>4 DEF Placed
<1> QED BY <1>6, <1>7, <1>9, <1>10, <1>13 DEF Inv, u, r

\* The slot is given back once its completion was told.
LEMMA SlotFreed ==
    ASSUME NEW s, NEW x, x # Nobody, Inv(s, 0, x)
    PROVE  Inv([s EXCEPT !.slot = Nobody], 0, Nobody)
<1> DEFINE u == [s EXCEPT !.slot = Nobody]
<1>1. Typed(s) /\ Placed(s, 0, x) /\ Running(s, x) /\ Late(s, x) /\ Own(s)
    BY DEF Inv
<1>2. s \in Manager /\ s.slot = x /\ ~s.timer
    BY <1>1 DEF Typed, Running
<1>3. /\ u \in Manager /\ u.slot = Nobody /\ u.timer = s.timer
      /\ u.waiters = s.waiters /\ u.accepted = s.accepted
      /\ u.kind = s.kind /\ u.told = s.told /\ u.dropped = s.dropped
    BY <1>2 DEF Manager
<1> HIDE DEF u
<1>4. /\ Typed(u) /\ Made(u) = Made(s) /\ Own(u)
      /\ \A h : OneBefore(u, h) <=> OneBefore(s, h)
    <2>1. Len(s.kind) \in Nat
        BY <1>2 DEF Manager
    <2> QED BY <1>1, <1>3, <2>1 DEF Typed, Made, Own, OneBefore, TimedOut
<1>5. Late(u, Nobody)
    BY <1>1, <1>2, <1>3, <1>4 DEF Late
<1>6. Running(u, Nobody)
    BY <1>2, <1>3 DEF Running
<1>7. Placed(u, 0, Nobody)
    <2>1. ASSUME NEW h \in Made(u) PROVE Place(u, 0, Nobody, h)
        <3>1. h # Nobody /\ Place(s, 0, x, h)
            BY <1>1, <1>4, <2>1 DEF Placed, Made
        <3>2. Waits(u, 0, h) <=> Waits(s, 0, h)
            BY <1>3 DEF Waits
        <3> QED BY <1>2, <1>3, <3>1, <3>2 DEF Place
    <2> QED BY <1>1, <1>3, <2>1 DEF Placed, Answered
<1> QED BY <1>3, <1>4, <1>5, <1>6, <1>7 DEF Inv, u

\* A slot that is given back: by meshClientNetworkOpenCb or by the timer.
LEMMA Finish ==
    ASSUME NEW s, Inv(s, 0, Nobody), NEW a \in Answers,
           s.slot # Nobody =>
               /\ a.of \in {Nobody, s.slot} \/ OneBefore(s, s.slot - 1)
               /\ s.slot \in s.accepted => a = Answer("timeout") \/ OneBefore(s, s.slot),
           NEW u \in finish(s, a)
    PROVE  Inv(u, 0, Nobody)
<1> DEFINE r == [s EXCEPT !.timer = FALSE]
           x == s.slot
           t == told(r, x, a)
<1>1. Typed(s) /\ s \in Manager /\ x \in Nat /\ x <= Len(s.kind)
    BY DEF Inv, Typed, Manager
<1>2. CASE x = Nobody
    <2>1. s.timer = FALSE
        BY <1>1, <1>2 DEF Inv, Running, Manager
    <2>2. u = s
        <3>1. r = s
            BY <1>1, <2>1 DEF Manager
        <3>2. u = [r EXCEPT !.slot = Nobody]
            BY <1>2 DEF finish
        <3> QED BY <1>1, <1>2, <3>1, <3>2 DEF Manager
    <2> QED BY <2>2
<1>3. CASE x # Nobody
    <2>1. PICK v \in complete(r, x, a) : u = [v EXCEPT !.slot = Nobody]
        BY <1>3 DEF finish
    <2>2. Inv(t, 0, x)
        BY <1>3, SlotTold
    <2>3. Call(t, v)
        <3>1. Typed(t)
            BY <2>2 DEF Inv
        <3> HIDE DEF r
        <3> QED BY <2>1, <3>1, CompleteIsCall
    <2>4. 0 \in 0..Len(t.waiters)
        BY <2>2 DEF Inv, Typed, Manager
    <2> HIDE DEF t
    <2>5. Inv(v, 0, x)
        BY <1>1, <2>2, <2>3, <2>4, CallInv
    <2> QED BY <1>3, <2>1, <2>5, SlotFreed
<1> QED BY <1>2, <1>3

\* After i of the handlers: they have been told, and whatever they have
\* called is in its place.
LEMMA Handled ==
    ASSUME NEW s, Inv(s, 0, Nobody), NEW i \in 0..Len(s.waiters),
           NEW t \in handled(s)[i]
    PROVE  /\ Inv(t, i, Nobody)
           /\ Len(t.waiters) >= Len(s.waiters)
           /\ \A j \in 1..Len(s.waiters) : t.waiters[j] = s.waiters[j]
<1> DEFINE n == Len(s.waiters)
           Good(v, k) == /\ Inv(v, k, Nobody)
                         /\ Len(v.waiters) >= n
                         /\ \A j \in 1..n : v.waiters[j] = s.waiters[j]
           S == {k \in 0..n : \A v \in handled(s)[k] : Good(v, k)}
<1>1. n \in Nat /\ s.waiters \in Seq(Calls)
    BY DEF Inv, Typed, Manager
<1>2. /\ handled(s)[0] = {s}
      /\ \A k \in 1..n :
             handled(s)[k] = UNION {complete(v, s.waiters[k], Answer("link"))
                                    : v \in handled(s)[k - 1]}
    BY <1>1, Handling
<1> HIDE DEF n
<1>3. 0 \in S
    <2>1. Good(s, 0)
        BY <1>1 DEF n
    <2> HIDE DEF Good
    <2> QED BY <1>1, <1>2, <2>1
<1>4. ASSUME NEW k \in 0..(n - 1), k \in S PROVE k + 1 \in S
    <2>1. k + 1 \in 1..n /\ k \in Nat /\ k < n /\ k + 1 \in Nat /\ (k + 1) - 1 = k
        BY <1>1
    <2>2. SUFFICES ASSUME NEW w \in handled(s)[k + 1] PROVE Good(w, k + 1)
        <3> HIDE DEF Good
        <3> QED BY <2>1, <2>2, <1>1
    <2>3. PICK v \in handled(s)[k] : w \in complete(v, s.waiters[k + 1], Answer("link"))
        <3>1. handled(s)[k + 1] = UNION {complete(v, s.waiters[k + 1], Answer("link"))
                                         : v \in handled(s)[k]}
            BY <1>2, <2>1
        <3> QED BY <3>1
    <2>4. Good(v, k)
        <3> HIDE DEF Good
        <3> QED BY <1>4, <2>3
    <2> DEFINE id == s.waiters[k + 1]
               r == told(v, id, Answer("link"))
    <2>5. Inv(r, k + 1, Nobody)
        <3>1. v.waiters[k + 1] = id /\ k < Len(v.waiters)
            <4>1. Len(v.waiters) \in Nat
                BY <2>4 DEF Inv, Typed, Manager
            <4> QED BY <1>1, <2>1, <2>4, <4>1
        <3> QED BY <2>1, <2>4, <3>1, HandlerTold
    <2>6. r.waiters = v.waiters
        BY DEF told
    <2> HIDE DEF id
    <2>7. Call(r, w)
        <3>1. Typed(r)
            BY <2>5 DEF Inv
        <3> QED BY <2>3, <3>1, CompleteIsCall DEF id
    <2> HIDE DEF r
    <2>8. k + 1 \in 0..Len(r.waiters)
        <3>1. Len(r.waiters) \in Nat
            BY <2>5 DEF Inv, Typed, Manager
        <3> QED BY <1>1, <2>1, <2>4, <2>6, <3>1
    <2>9. /\ Inv(w, k + 1, Nobody)
          /\ Len(w.waiters) >= Len(r.waiters)
          /\ \A j \in 1..Len(r.waiters) : w.waiters[j] = r.waiters[j]
        <3> DEFINE h == k + 1
        <3>1. h \in 0..Len(r.waiters) /\ Inv(r, h, Nobody) /\ Nobody \in Nat
            BY <2>5, <2>8
        <3> HIDE DEF h
        <3>2. /\ Inv(w, h, Nobody)
              /\ Len(w.waiters) >= Len(r.waiters)
              /\ \A j \in 1..Len(r.waiters) : w.waiters[j] = r.waiters[j]
            BY <2>7, <3>1, CallInv
        <3> QED BY <3>2 DEF h
    <2>10. Len(w.waiters) \in Nat /\ Len(r.waiters) \in Nat
        BY <2>5, <2>9 DEF Inv, Typed, Manager
    <2> QED BY <1>1, <2>4, <2>6, <2>9, <2>10
<1>5. i \in S
    <2>1. i \in Nat /\ i <= n
        BY <1>1 DEF n
    <2>2. \A k \in 0..(i - 1) : k \in S => k + 1 \in S
        <3> HIDE DEF S
        <3> QED BY <1>1, <1>4, <2>1
    <2> HIDE DEF S
    <2> QED BY <1>3, <2>1, <2>2, SetInduction
<1>6. Good(t, i)
    <2> HIDE DEF Good
    <2> QED BY <1>5
<1> QED BY <1>6 DEF n

\* onLinkStatus
LEMMA LinkStatus ==
    ASSUME NEW s, Inv(s, 0, Nobody), NEW u \in linkStatus(s)
    PROVE  Inv(u, 0, Nobody)
<1> DEFINE n == Len(s.waiters)
<1>1. n \in Nat
    BY DEF Inv, Typed, Manager
<1>2. PICK t \in handled(s)[n] :
          u = [t EXCEPT !.waiters = <<>>,
                        !.dropped = @ \union (ToSet(t.waiters) \ ToSet(s.waiters))]
    BY DEF linkStatus
<1>3. /\ Inv(t, n, Nobody) /\ Len(t.waiters) >= n
      /\ \A j \in 1..n : t.waiters[j] = s.waiters[j]
    BY <1>1, <1>2, Handled
<1> DEFINE D == ToSet(t.waiters) \ ToSet(s.waiters)
<1>4. /\ Typed(t) /\ Placed(t, n, Nobody) /\ Running(t, Nobody)
      /\ Late(t, Nobody) /\ Own(t) /\ t \in Manager
    BY <1>3 DEF Inv, Typed
<1>5. /\ DOMAIN t.waiters = 1..Len(t.waiters) /\ Len(t.waiters) \in Nat
      /\ DOMAIN s.waiters = 1..n
      /\ \A j \in DOMAIN t.waiters : t.waiters[j] \in Made(t)
      /\ Len(t.kind) \in Nat
    <2>1. t.waiters \in Seq(Calls) /\ Len(t.kind) \in Nat /\ s.waiters \in Seq(Calls)
        BY <1>4 DEF Typed, Manager, Inv
    <2>2. \A j \in DOMAIN t.waiters : t.waiters[j] \in Calls
        <3> HIDE DEF Calls
        <3> QED BY <2>1
    <2> QED BY <1>4, <2>1, <2>2, MaxCallsAssumption DEF Typed, Made
<1> HIDE DEF n
\* What is thrown away is what the handlers have added.
<1>6. \A h \in Made(t) : h \in D <=> Waits(t, n, h)
    <2> SUFFICES ASSUME NEW h \in Made(t) PROVE h \in D <=> Waits(t, n, h)
        OBVIOUS
    <2>1. h \in ToSet(t.waiters) <=> \E j \in DOMAIN t.waiters : t.waiters[j] = h
        BY DEF ToSet
    <2>2. h \in ToSet(s.waiters) <=> \E j \in DOMAIN s.waiters : s.waiters[j] = h
        BY DEF ToSet
    <2>3. ASSUME h \in D PROVE Waits(t, n, h)
        <3>1. PICK j \in DOMAIN t.waiters : t.waiters[j] = h
            BY <2>1, <2>3
        <3>2. ~(j \in 1..n)
            BY <1>3, <1>5, <2>2, <2>3, <3>1
        <3> QED BY <1>1, <1>5, <3>1, <3>2 DEF Waits
    <2>4. ASSUME Waits(t, n, h) PROVE h \in D
        <3>1. h \in ToSet(t.waiters)
            BY <2>1, <2>4 DEF Waits
        <3>2. ASSUME NEW j \in 1..n, s.waiters[j] = h PROVE FALSE
            <4>1. j \in DOMAIN t.waiters /\ j <= n /\ t.waiters[j] = h
                BY <1>1, <1>3, <1>5, <3>2
            <4>2. Len(t.told[h]) = 1
                BY <1>4, <4>1 DEF Placed, Answered
            <4>3. Place(t, n, Nobody, h)
                BY <1>4 DEF Placed
            <4> QED BY <2>4, <4>2, <4>3 DEF Place
        <3> QED BY <1>5, <2>2, <3>1, <3>2
    <2> QED BY <2>3, <2>4
<1>7. D \subseteq Made(t) /\ Made(t) \subseteq Calls
    <2>1. D \subseteq Made(t)
        BY <1>5 DEF ToSet
    <2>2. Made(t) \subseteq Calls
        BY <1>4, <1>5, MaxCallsAssumption DEF Typed, Made
    <2> QED BY <2>1, <2>2
<1> HIDE DEF D
<1>8. u = [t EXCEPT !.waiters = <<>>, !.dropped = t.dropped \union D]
    BY <1>2, <1>4 DEF D, Manager
<1>9. /\ u \in Manager /\ u.waiters = <<>> /\ u.dropped = t.dropped \union D
      /\ u.slot = t.slot /\ u.timer = t.timer /\ u.accepted = t.accepted
      /\ u.kind = t.kind /\ u.told = t.told
    <2> DEFINE e == <<>>
    <2>1. e \in Seq(Calls)
        <3> HIDE DEF Calls
        <3> QED OBVIOUS
    <2>2. u = [t EXCEPT !.waiters = e, !.dropped = t.dropped \union D]
        BY <1>8
    <2> HIDE DEF e
    <2>3. u \in Manager /\ u.waiters = e /\ u.dropped = t.dropped \union D
        BY <1>4, <1>7, <2>1, <2>2 DEF Manager
    <2>4. /\ u.slot = t.slot /\ u.timer = t.timer /\ u.accepted = t.accepted
          /\ u.kind = t.kind /\ u.told = t.told
        BY <1>4, <2>2 DEF Manager
    <2> QED BY <2>3, <2>4 DEF e
<1>10. DOMAIN u.waiters = {}
    BY <1>9
<1>11. Typed(u) /\ Made(u) = Made(t)
    BY <1>4, <1>7, <1>9, <1>10 DEF Typed, Made
<1>12. Running(u, Nobody) /\ Late(u, Nobody) /\ Own(u)
    BY <1>4, <1>9 DEF Running, Late, Own, OneBefore, TimedOut, Made
<1>13. Placed(u, 0, Nobody)
    <2>1. ASSUME NEW h \in Made(u) PROVE Place(u, 0, Nobody, h)
        <3>1. Place(t, n, Nobody, h) /\ (h \in D <=> Waits(t, n, h))
            BY <1>4, <1>6, <1>11, <2>1 DEF Placed
        <3>2. ~Waits(u, 0, h)
            BY <1>10 DEF Waits
        <3> QED BY <1>9, <3>1, <3>2 DEF Place
    <2> QED BY <1>10, <2>1 DEF Placed
<1> QED BY <1>11, <1>12, <1>13 DEF Inv

\* A call that the application makes itself.
LEMMA CallKeeps ==
    ASSUME NEW s, Inv(s, 0, Nobody), NEW u, Call(s, u)
    PROVE  Inv(u, 0, Nobody)
<1>1. 0 \in 0..Len(s.waiters)
    BY DEF Inv, Typed, Manager
<1> QED BY <1>1, CallInv

\* disconnectMeshNetwork: a call that waits, or one that is answered at once
\* and whose completion closes the network and makes another.
LEMMA Disconnect ==
    ASSUME NEW s, Inv(s, 0, Nobody), NEW k \in {"leave", "deinit"},
           NEW u \in disconnect(s, k)
    PROVE  Inv(u, 0, Nobody)
<1>1. k \in Kinds /\ Typed(s)
    BY DEF Kinds, Inv
<1>2. PICK t \in called(s, k) :
          \/ u = asked(t)
          \/ u \in complete(t, newest(t), Answer("refused"))
          \/ u \in complete(t, newest(t), Answer("link"))
    BY DEF disconnect
<1>3. CASE u = asked(t)
    BY <1>1, <1>3, AskedIsCall, CallKeeps
<1>4. ASSUME NEW a \in Answers, a.of = Nobody, u \in complete(t, newest(t), a)
      PROVE  Inv(u, 0, Nobody)
    <2> DEFINE r == told(t, newest(t), a)
    <2>1. Call(s, r)
        BY <1>1, <1>4, CalledAndTold
    <2>2. Inv(r, 0, Nobody)
        BY <2>1, CallKeeps
    <2>3. Call(r, u)
        BY <1>4, <2>2, CompleteIsCall DEF Inv
    <2> QED BY <2>2, <2>3, CallKeeps
<1> QED BY <1>2, <1>3, <1>4, PlainAnswer

\* deinitMeshLibrary throws away all that wait.
LEMMA Deinit ==
    ASSUME NEW t, Inv(t, 0, Nobody)
    PROVE  Inv([close(t) EXCEPT !.waiters = <<>>,
                                !.dropped = @ \union ToSet(t.waiters)], 0, Nobody)
<1> DEFINE c == close(t)
           D == ToSet(t.waiters)
           e == <<>>
           u == [c EXCEPT !.waiters = e, !.dropped = @ \union D]
<1>1. /\ Typed(t) /\ Placed(t, 0, Nobody) /\ Running(t, Nobody)
      /\ Late(t, Nobody) /\ Own(t) /\ t \in Manager
    BY DEF Inv, Typed
<1>2. c \in Manager /\ Same(t, c)
    BY <1>1, CloseIsSame
<1>3. /\ DOMAIN t.waiters = 1..Len(t.waiters) /\ Len(t.waiters) \in Nat
      /\ \A j \in DOMAIN t.waiters : t.waiters[j] \in Made(t)
      /\ Made(t) \subseteq Calls
    <2>1. t.waiters \in Seq(Calls) /\ Len(t.kind) \in Nat
        BY <1>1 DEF Manager
    <2>2. \A j \in DOMAIN t.waiters : t.waiters[j] \in Calls
        <3> HIDE DEF Calls
        <3> QED BY <2>1
    <2> QED BY <1>1, <2>1, <2>2, MaxCallsAssumption DEF Typed, Made
<1>4. /\ D \subseteq Made(t)
      /\ \A h \in Made(t) : h \in D <=> Waits(t, 0, h)
    BY <1>3 DEF ToSet, Waits
<1>5. e \in Seq(Calls) /\ DOMAIN e = {}
    <2> HIDE DEF Calls
    <2> QED OBVIOUS
<1> HIDE DEF D, c, e
<1>6. u = [c EXCEPT !.waiters = e, !.dropped = c.dropped \union D]
    BY <1>2 DEF Manager
<1>7. u \in Manager /\ u.waiters = e /\ u.dropped = t.dropped \union D
    BY <1>2, <1>3, <1>4, <1>5, <1>6 DEF Manager, Same
<1>8. /\ u.slot = t.slot /\ u.timer = t.timer /\ u.accepted = t.accepted
      /\ u.kind = t.kind /\ u.told = t.told
    BY <1>2, <1>6 DEF Manager, Same
<1> HIDE DEF u
<1>9. Typed(u) /\ Made(u) = Made(t)
    BY <1>1, <1>4, <1>5, <1>7, <1>8 DEF Typed, Made
<1>10. Running(u, Nobody) /\ Late(u, Nobody) /\ Own(u)
    BY <1>1, <1>8 DEF Running, Late, Own, OneBefore, TimedOut, Made
<1>11. Placed(u, 0, Nobody)
    <2>1. ASSUME NEW h \in Made(u) PROVE Place(u, 0, Nobody, h)
        <3>1. Place(t, 0, Nobody, h) /\ (h \in D <=> Waits(t, 0, h))
            BY <1>1, <1>4, <1>9, <2>1 DEF Placed
        <3>2. ~Waits(u, 0, h)
            BY <1>5, <1>7 DEF Waits
        <3> QED BY <1>7, <1>8, <3>1, <3>2 DEF Place
    <2> QED BY <1>5, <1>7, <2>1 DEF Placed
<1>12. Inv(u, 0, Nobody)
    BY <1>9, <1>10, <1>11 DEF Inv
<1> QED BY <1>12 DEF u, c, D, e

\* The library reports an open to whoever is in the slot.
LEMMA Reported ==
    ASSUME NEW s, Inv(s, 0, Nobody), NEW id \in s.accepted, NEW ok \in BOOLEAN,
           NEW t, t = [s EXCEPT !.accepted = @ \ {id},
                                !.opened = IF ok /\ s.opening # Nobody
                                           THEN s.opening ELSE @],
           NEW w \in {"opened", "failed"},
           NEW u \in finish(t, [what |-> w, of |-> id])
    PROVE  Inv(u, 0, Nobody)
<1> DEFINE a == [what |-> w, of |-> id]
<1>1. /\ Typed(s) /\ Placed(s, 0, Nobody) /\ Running(s, Nobody)
      /\ Late(s, Nobody) /\ Own(s) /\ s \in Manager
    BY DEF Inv, Typed
<1>2. /\ t \in Manager /\ t.accepted = s.accepted \ {id}
      /\ t.slot = s.slot /\ t.timer = s.timer /\ t.waiters = s.waiters
      /\ t.kind = s.kind /\ t.told = s.told /\ t.dropped = s.dropped
    <2> DEFINE o == IF ok /\ s.opening # Nobody THEN s.opening ELSE s.opened
    <2>1. o \in {Nobody} \union Calls
        BY <1>1 DEF Manager
    <2>2. t = [s EXCEPT !.accepted = s.accepted \ {id}, !.opened = o]
        BY <1>1 DEF Manager
    <2> HIDE DEF o
    <2> QED BY <1>1, <2>1, <2>2 DEF Manager
<1>3. id \in Made(s) /\ id \in Calls
    BY <1>1 DEF Typed, Manager
<1>4. /\ a \in Answers /\ a.of = id /\ a # Answer("timeout")
    BY <1>3 DEF Answers, Answer
<1>5. /\ \A h : OneBefore(t, h) <=> OneBefore(s, h)
      /\ Made(t) = Made(s)
    BY <1>2 DEF OneBefore, TimedOut, Made
<1>6. Inv(t, 0, Nobody)
    <2>1. Typed(t)
        BY <1>1, <1>2, <1>5 DEF Typed
    <2>2. Placed(t, 0, Nobody)
        BY <1>1, <1>2, <1>5 DEF Placed, Place, Waits, Answered
    <2>3. Running(t, Nobody) /\ Late(t, Nobody) /\ Own(t)
        BY <1>1, <1>2, <1>5 DEF Running, Late, Own
    <2> QED BY <2>1, <2>2, <2>3 DEF Inv
<1>7. t.slot # Nobody =>
          /\ a.of \in {Nobody, t.slot} \/ OneBefore(t, t.slot - 1)
          /\ t.slot \in t.accepted => a = Answer("timeout") \/ OneBefore(t, t.slot)
    <2> SUFFICES ASSUME s.slot # Nobody, id # s.slot
                 PROVE  OneBefore(s, s.slot - 1) /\ OneBefore(s, s.slot)
        BY <1>2, <1>4, <1>5
    <2>1. OneBefore(s, id) /\ id <= s.slot
        BY <1>1 DEF Late
    <2>2. id \in Int /\ s.slot \in Int /\ id <= s.slot - 1
        BY <1>1, <1>3, <2>1 DEF Made, Manager
    <2>3. PICK j \in Made(s) : j <= id /\ TimedOut(s, j)
        BY <2>1 DEF OneBefore
    <2>4. j <= s.slot - 1 /\ j <= s.slot
        BY <2>2, <2>3 DEF Made
    <2> QED BY <2>3, <2>4 DEF OneBefore
<1> HIDE DEF a
<1>8. u \in finish(t, a)
    BY DEF a
<1> QED BY <1>4, <1>6, <1>7, <1>8, Finish

-----------------------------------------------------------------------------
(* The theorems                                                            *)

\* The invariant holds when the manager has been created.
LEMMA InitInv == Init => IInv
<1> SUFFICES ASSUME Init PROVE Inv(m, 0, Nobody)
    BY DEF IInv
<1>1. m \in Manager
    <2> DEFINE e == <<>>
    <2>1. e \in Seq(Calls) /\ e \in Seq(Kinds) /\ e \in Seq(Seq(Answers))
        <3> HIDE DEF Calls, Kinds, Answers
        <3> QED OBVIOUS
    <2> HIDE DEF e
    <2> QED BY <2>1 DEF Init, Manager, e
<1>2. Len(m.kind) = 0 /\ Len(m.told) = 0 /\ DOMAIN m.waiters = {} /\ Made(m) = {}
    BY DEF Init, Made
<1> QED BY <1>1, <1>2, MaxCallsAssumption
        DEF Init, Inv, Typed, Placed, Running, Late, Own

\* Every step of the main thread preserves the invariant.
LEMMA NextInv == IInv /\ [Next]_m => IInv'
<1> SUFFICES ASSUME Inv(m, 0, Nobody), [Next]_m PROVE Inv(m', 0, Nobody)
    BY DEF IInv, Inv, Typed, Placed, Running, Late, Own, Place, Waits, Answered,
           OneBefore, TimedOut, Made
<1>0. Typed(m) /\ m \in Manager
    BY DEF Inv, Typed
<1>1. CASE OpenMeshNetwork
    BY <1>0, <1>1, OpenIsCall, CallKeeps DEF OpenMeshNetwork
<1>2. CASE ConnectMeshNetwork
    BY <1>0, <1>2, ConnectIsCall, CallKeeps DEF ConnectMeshNetwork
<1>3. CASE RunHandler
    BY <1>0, <1>3, RunHandlerIsCall, CallKeeps DEF RunHandler
<1>4. CASE DisconnectMeshNetwork
    BY <1>4, Disconnect DEF DisconnectMeshNetwork
<1>5. CASE CloseMeshNetwork
    <2>1. Call(m, m')
        BY <1>0, <1>5, CloseIsSame DEF CloseMeshNetwork, Call
    <2> QED BY <2>1, CallKeeps
<1>6. CASE DeinitMeshLibrary
    <2>1. PICK t \in disconnect(m, "deinit") :
              m' = [close(t) EXCEPT !.waiters = <<>>,
                                    !.dropped = @ \union ToSet(t.waiters)]
        BY <1>6 DEF DeinitMeshLibrary
    <2>2. Inv(t, 0, Nobody)
        BY Disconnect
    <2> QED BY <2>1, <2>2, Deinit
<1>7. CASE MeshClientNetworkOpenCb
    <2>1. PICK id \in m.accepted, ok \in BOOLEAN :
              m' \in finish([m EXCEPT !.accepted = @ \ {id},
                                      !.opened = IF ok /\ m.opening # Nobody
                                                 THEN m.opening ELSE @],
                            [what |-> IF ok THEN "opened" ELSE "failed", of |-> id])
        BY <1>7 DEF MeshClientNetworkOpenCb
    <2> DEFINE w == IF ok THEN "opened" ELSE "failed"
    <2>2. w \in {"opened", "failed"}
        OBVIOUS
    <2> HIDE DEF w
    <2> QED BY <2>1, <2>2, Reported DEF w
<1>8. CASE OpenMeshNetworkTimeoutHandler
    <2>1. m' \in finish(m, Answer("timeout"))
        BY <1>8 DEF OpenMeshNetworkTimeoutHandler
    <2>2. Answer("timeout") \in Answers /\ Answer("timeout").of = Nobody
        BY PlainAnswer
    <2> QED BY <2>1, <2>2, Finish
<1>9. ASSUME NEW b \in BOOLEAN, NEW s,
             s = [m EXCEPT !.linking = FALSE, !.connected = b]
                 \/ s = [m EXCEPT !.connected = b]
      PROVE  Inv(s, 0, Nobody)
    <2>1. Call(m, s)
        BY <1>0, <1>9 DEF Call, Same, Manager
    <2> QED BY <2>1, CallKeeps
<1>10. CASE LinkDone
    <2>1. PICK up \in BOOLEAN :
              m' \in linkStatus([m EXCEPT !.linking = FALSE, !.connected = up])
        BY <1>10 DEF LinkDone
    <2> QED BY <1>9, <2>1, LinkStatus
<1>11. CASE LinkLost
    BY <1>9, <1>11, LinkStatus DEF LinkLost
<1>12. CASE UNCHANGED m
    BY <1>12
<1> QED BY <1>1, <1>2, <1>3, <1>4, <1>5, <1>6, <1>7, <1>8, <1>10, <1>11, <1>12
        DEF Next

\* The invariant holds in every state.
LEMMA IInvAlways == Spec => []IInv
BY InitInv, NextInv, PTL DEF Spec

\* The manager keeps its type, and the history a record for every call.
THEOREM TypeCorrect == Spec => []TypeOK
<1>1. IInv => TypeOK
    BY DEF IInv, Inv, Typed, TypeOK
<1> QED BY <1>1, IInvAlways, PTL

\* An open is in progress exactly while its timer runs, whatever the
\* completions call meanwhile: SlotHasTimer, for any number of calls.
THEOREM TimerAlways == Spec => []SlotHasTimer
<1>1. IInv => SlotHasTimer
    BY DEF IInv, Inv, Running, SlotHasTimer
<1> QED BY <1>1, IInvAlways, PTL

\* The library's report of an open reaches the caller of that open unless an
\* earlier one has timed out: AnswersItsOwn, for any number of calls.
THEOREM AnswersAlways == Spec => []AnswersItsOwn
<1>1. IInv => AnswersItsOwn
    <2> SUFFICES ASSUME IInv PROVE AnswersItsOwn
        OBVIOUS
    <2>1. /\ Own(m) /\ Typed(m) /\ m.told \in Seq(Seq(Answers)) /\ Len(m.kind) \in Nat
        BY DEF IInv, Inv, Typed, Manager
    <2>2. DOMAIN m.told = Made(m)
        BY <2>1 DEF Typed, Made
    <2>3. SUFFICES ASSUME NEW id \in Made(m), OneBefore(m, id - 1)
                   PROVE  \E j \in 1..(id - 1) : Answer("timeout") \in ToSet(m.told[j])
        BY <2>1, <2>2 DEF AnswersItsOwn, Own
    <2>4. PICK j \in Made(m) : j <= id - 1 /\ TimedOut(m, j)
        BY <2>3 DEF OneBefore
    <2>5. j \in 1..(id - 1)
        BY <2>1, <2>4 DEF Made
    <2>6. Answer("timeout") \in ToSet(m.told[j])
        BY <2>4 DEF TimedOut, ToSet
    <2> QED BY <2>5, <2>6
<1> QED BY <1>1, IInvAlways, PTL

\* No completion is called twice and none is forgotten, but those thrown away
\* are: OneAnswerEach, for any number of calls and any length of the list.
THEOREM OneAnswerAlways == Spec => []OneAnswerEach
<1>1. IInv => OneAnswerEach
    <2> SUFFICES ASSUME IInv, NEW id \in DOMAIN m.told
                 PROVE  Len(m.told[id]) +
                        Cardinality({i \in DOMAIN m.waiters : m.waiters[i] = id}) +
                        (IF m.slot = id THEN 1 ELSE 0) +
                        (IF id \in m.dropped THEN 1 ELSE 0) = 1
        BY DEF OneAnswerEach
    <2> DEFINE W == {i \in DOMAIN m.waiters : m.waiters[i] = id}
    <2>1. /\ Placed(m, 0, Nobody) /\ Typed(m) /\ m \in Manager
          /\ m.told \in Seq(Seq(Answers)) /\ Len(m.kind) \in Nat
        BY DEF IInv, Inv, Typed, Manager
    <2>2. id \in Made(m) /\ id # Nobody
        BY <2>1 DEF Typed, Made
    <2>3. Place(m, 0, Nobody, id)
        BY <2>1, <2>2 DEF Placed
    <2>4. \A j \in DOMAIN m.waiters : j > 0
        BY <2>1 DEF Manager
    <2>5. CASE Waits(m, 0, id)
        <3>1. PICK j \in DOMAIN m.waiters : m.waiters[j] = id
            BY <2>5 DEF Waits
        <3>2. W = {j}
            BY <2>1, <2>4, <3>1 DEF Placed
        <3>3. Cardinality(W) = 1
            BY <3>2, FS_Singleton
        <3>4. Len(m.told[id]) = 0 /\ m.slot # id /\ id \notin m.dropped
            BY <2>2, <2>3, <2>5 DEF Place
        <3> QED BY <3>3, <3>4
    <2>6. CASE ~Waits(m, 0, id)
        <3>1. W = {}
            BY <2>4, <2>6 DEF Waits
        <3>2. Cardinality(W) = 0
            BY <3>1, FS_EmptySet
        <3>4. \/ Len(m.told[id]) = 1 /\ m.slot # id /\ id \notin m.dropped
              \/ Len(m.told[id]) = 0 /\ m.slot = id /\ id \notin m.dropped
              \/ Len(m.told[id]) = 0 /\ m.slot # id /\ id \in m.dropped
            BY <2>2, <2>3, <2>6 DEF Place
        <3>5. CASE Len(m.told[id]) = 1 /\ m.slot # id /\ id \notin m.dropped
            BY <3>2, <3>5
        <3>6. CASE Len(m.told[id]) = 0 /\ m.slot = id /\ id \notin m.dropped
            BY <3>2, <3>6
        <3>7. CASE Len(m.told[id]) = 0 /\ m.slot # id /\ id \in m.dropped
            BY <3>2, <3>7
        <3> QED BY <3>4, <3>5, <3>6, <3>7
    <2> QED BY <2>5, <2>6
<1> QED BY <1>1, IInvAlways, PTL

=============================================================================
