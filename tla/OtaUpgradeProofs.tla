-------------------------- MODULE OtaUpgradeProofs --------------------------
(***************************************************************************)
(* Proofs about the Android upgrade and its request queue, for every       *)
(* image, however often the user starts and the library connects.          *)
(*                                                                         *)
(* Typed strengthens the type invariant: it names the kind of each request *)
(* and its connection.  Aside says of an upgrader without a connection     *)
(* that it has asked nothing (Unasked), of a clear() that is half done     *)
(* that its thread is in no other call (Clearing), and of a connection     *)
(* that is up that its services were found (Served).  Serial counts the    *)
(* calls of next() and the request with Android: the queue is serialized   *)
(* because they are one at most.  Upgrade says of an upgrade that was      *)
(* started with nothing of another under way that one command or one       *)
(* status is on its way while it waits, and none while the image is sent.  *)
(* These are the inductive invariant IInv.  Flow adds where every packet   *)
(* of an upgrade is that nothing has disturbed, unless the queue has       *)
(* fallen asleep over a request that Android refused (Asleep).             *)
(***************************************************************************)
EXTENDS OtaUpgrade, SequenceTheorems, TLAPS

-----------------------------------------------------------------------------
(* Queues                                                                  *)

\* does the queue s hold an element of E, and at most one of them
Some(s, E) == \E i \in 1 .. Len(s) : s[i] \in E
Once(s, E) == \A i, j \in 1 .. Len(s) : s[i] \in E /\ s[j] \in E => i = j

LEMMA SomeAppend ==
    ASSUME NEW S, NEW s \in Seq(S), NEW e \in S, NEW E
    PROVE  /\ Some(Append(s, e), E) <=> Some(s, E) \/ e \in E
           /\ Once(s, E) /\ ~(Some(s, E) /\ e \in E) => Once(Append(s, e), E)
<1>1. /\ Len(s) \in Nat /\ Len(Append(s, e)) = Len(s) + 1
      /\ \A i \in 1 .. Len(s) : Append(s, e)[i] = s[i]
      /\ Append(s, e)[Len(s) + 1] = e
  BY AppendProperties, LenProperties
<1> QED
  BY <1>1 DEF Some, Once

LEMMA SomeTail ==
    ASSUME NEW S, NEW s \in Seq(S), s # <<>>, NEW E
    PROVE  /\ Some(s, E) <=> Head(s) \in E \/ Some(Tail(s), E)
           /\ Once(s, E) => Once(Tail(s), E)
           /\ Once(s, E) /\ Head(s) \in E => ~Some(Tail(s), E)
<1>1. /\ Len(s) \in Nat \ {0} /\ Len(Tail(s)) = Len(s) - 1
      /\ \A i \in 1 .. Len(s) - 1 : Tail(s)[i] = s[i + 1]
      /\ Head(s) = s[1]
  BY HeadTailProperties, LenProperties, EmptySeq
<1>2. ASSUME Some(s, E) PROVE Head(s) \in E \/ Some(Tail(s), E)
  <2> PICK i \in 1 .. Len(s) : s[i] \in E
    BY <1>2 DEF Some
  <2>1. i # 1 => i - 1 \in 1 .. Len(Tail(s)) /\ Tail(s)[i - 1] \in E
    BY <1>1
  <2> QED
    BY <1>1, <2>1 DEF Some
<1>3. ASSUME Head(s) \in E \/ Some(Tail(s), E) PROVE Some(s, E)
  BY <1>1, <1>3 DEF Some
<1> QED
  BY <1>1, <1>2, <1>3 DEF Some, Once

LEMMA TailOfOne == ASSUME NEW S, NEW s \in Seq(S), Len(s) = 1 PROVE Tail(s) = <<>>
<1>1. s # <<>>
  OBVIOUS
<1>2. Tail(s) \in Seq(S) /\ Len(Tail(s)) = 0
  BY <1>1, HeadTailProperties
<1> QED
  BY <1>2, EmptySeq

LEMMA SomeEmpty == \A E : ~Some(<<>>, E) /\ Once(<<>>, E)
  BY DEF Some, Once

LEMMA SomeConcat ==
    ASSUME NEW S, NEW s \in Seq(S), NEW u \in Seq(S), NEW E
    PROVE  /\ Some(s \o u, E) <=> Some(s, E) \/ Some(u, E)
           /\ Once(s, E) /\ Once(u, E) /\ ~(Some(s, E) /\ Some(u, E)) => Once(s \o u, E)
<1>1. /\ Len(s) \in Nat /\ Len(u) \in Nat /\ Len(s \o u) = Len(s) + Len(u)
      /\ \A i \in 1 .. Len(s) + Len(u) : (s \o u)[i] = IF i <= Len(s) THEN s[i] ELSE u[i - Len(s)]
  BY ConcatProperties, LenProperties
<1>2. \A i \in 1 .. Len(s) : i \in 1 .. Len(s \o u) /\ (s \o u)[i] = s[i]
  BY <1>1
<1>3. \A i \in 1 .. Len(u) : i + Len(s) \in 1 .. Len(s \o u) /\ (s \o u)[i + Len(s)] = u[i]
  BY <1>1
<1>4. \A i \in 1 .. Len(s \o u) :
         i \in 1 .. Len(s) \/ (i - Len(s) \in 1 .. Len(u) /\ i = (i - Len(s)) + Len(s))
  BY <1>1
<1>5. Some(s \o u, E) <=> Some(s, E) \/ Some(u, E)
  BY <1>2, <1>3, <1>4 DEF Some
<1>6. ASSUME Once(s, E), Once(u, E), ~(Some(s, E) /\ Some(u, E)),
             NEW i \in 1 .. Len(s \o u), NEW j \in 1 .. Len(s \o u),
             (s \o u)[i] \in E, (s \o u)[j] \in E
      PROVE  i = j
  <2>1. CASE i \in 1 .. Len(s)
    <3>1. j \in 1 .. Len(s)
      BY <1>2, <1>3, <1>4, <1>6, <2>1 DEF Some
    <3> QED
      BY <1>2, <1>6, <2>1, <3>1 DEF Once
  <2>2. CASE i \notin 1 .. Len(s)
    <3>1. i - Len(s) \in 1 .. Len(u) /\ u[i - Len(s)] \in E
      BY <1>3, <1>4, <1>6, <2>2
    <3>2. j - Len(s) \in 1 .. Len(u) /\ u[j - Len(s)] \in E
      BY <1>2, <1>3, <1>4, <1>6, <3>1 DEF Some
    <3>3. i - Len(s) = j - Len(s)
      BY <1>6, <3>1, <3>2 DEF Once
    <3> QED
      BY <1>1, <1>6, <3>3
  <2> QED
    BY <2>1, <2>2
<1> QED
  BY <1>5, <1>6 DEF Once

LEMMA SomeOne ==
    ASSUME NEW S, NEW e \in S
    PROVE  <<e>> \in Seq(S) /\ <<e>> # <<>>
           /\ \A E : (Some(<<e>>, E) <=> e \in E) /\ Once(<<e>>, E)
  BY DEF Some, Once

LEMMA SomeTwo ==
    ASSUME NEW S, NEW e \in S, NEW f \in S, NEW E
    PROVE  /\ <<e, f>> \in Seq(S)
           /\ Some(<<e, f>>, E) <=> e \in E \/ f \in E
           /\ ~(e \in E /\ f \in E) => Once(<<e, f>>, E)
<1>1. Len(<<e, f>>) = 2 /\ <<e, f>>[1] = e /\ <<e, f>>[2] = f
  OBVIOUS
<1>2. \A i \in 1 .. 2 : i = 1 \/ i = 2
  OBVIOUS
<1>3. <<e, f>> \in Seq(S)
  OBVIOUS
<1>4. Some(<<e, f>>, E) <=> e \in E \/ f \in E
  BY <1>1, <1>2 DEF Some
<1>5. ~(e \in E /\ f \in E) => Once(<<e, f>>, E)
  BY <1>1, <1>2 DEF Once
<1> QED
  BY <1>3, <1>4, <1>5

-----------------------------------------------------------------------------
(* Types                                                                   *)

States == {"IDLE", "WAIT", "DATA", "VERIFICATION", "VERIFIED", "ABORTED", "ABORT"}
Known == {"desc", "prepare", "download", "data", "verify", "abort", "proxy"}
GattType == [state : {"connecting", "up", "leaving", "lost", "closed"}, op : Q!Requests,
             services : BOOLEAN]
OtaType == [made : BOOLEAN, gatt : Nat, offset : 0 .. Chunks, inTransfer : BOOLEAN, state : States]
DeviceType == [sub : Q!Threads, mode : {"idle", "ready", "download", "verified"}, got : Seq(Nat)]
HistoryType == [starts : 0 .. MaxStarts, stops : 0 .. MaxOthers, clean : BOOLEAN,
                hurt : BOOLEAN, early : BOOLEAN, reports : Seq({"completed", "aborted", "not found"})]

\* requests that none of the first n connections makes through the queue
Misfits(n) == {r \in Q!Requests : r.gatt \notin 1 .. n \/ r.op \in {"none", "cccd"}}

\* the request that Android works on is one of its connection
OpFits(g) == gatts[g].op = Q!NoOp \/ (gatts[g].op.gatt = g /\ gatts[g].op.op # "none")

QueueTyped ==
    /\ q \in [reqs : Seq(Q!Requests), running : BOOLEAN, clearing : BOOLEAN]
    /\ ~Some(q.reqs, Misfits(Len(gatts)))
GattsTyped ==
    /\ gatts \in Seq(GattType) /\ Len(gatts) =< MaxConnects
    /\ \A g \in 1 .. Len(gatts) : OpFits(g)
    /\ mGatt \in 0 .. Len(gatts)
    /\ seen \in [packets : 0 .. MaxOthers, stale : BOOLEAN, refused : BOOLEAN, torn : BOOLEAN]
NextsTyped ==
    /\ nexts \in [Q!Threads -> Nat]
    /\ \A t \in Q!Threads : t > Len(gatts) => nexts[t] = 0
OtaTyped ==
    /\ ota \in OtaType
    /\ ota.gatt \in 0 .. Len(gatts)
    /\ ota.gatt = 0 => ota.state \in {"IDLE", "WAIT"} /\ ~ota.inTransfer /\ ui # "stop"
    /\ ui \in {"idle", "start", "stop"}
RestTyped ==
    /\ dev \in DeviceType
    /\ air \in [Q!Threads -> Seq({"ok", "failed"})]
    /\ hist \in HistoryType
Typed == QueueTyped /\ GattsTyped /\ NextsTyped /\ OtaTyped /\ RestTyped

\* without a connection of the upgrade nothing asks the OTA service, and it
\* answers nothing
Unasked ==
    /\ ~ota.made => ota.gatt = 0
    /\ ota.gatt = 0 =>
       /\ dev.sub = 0 /\ \A g \in Q!Threads : air[g] = <<>>
       /\ ~Some(q.reqs, {r \in Q!Requests : r.op # "proxy"})
       /\ \A g \in 1 .. Len(gatts) : gatts[g].op.op \in {"none", "cccd", "proxy"}

\* between the assignments of clear() the application's thread has no other
\* call to make
Clearing == q.clearing => nexts[Q!App] = 0 /\ Len(gatts) < MaxConnects

Served == \A g \in 1 .. Len(gatts) : gatts[g].state = "up" => gatts[g].services

Aside == Unasked /\ Clearing /\ Served

LEMMA TypedOK == Typed => TypeOK
<1> SUFFICES ASSUME Typed PROVE TypeOK
  OBVIOUS
<1>1. q \in [reqs : Seq(Q!Requests), running : BOOLEAN, clearing : BOOLEAN]
  BY DEF Typed, QueueTyped
<1>2. \A i \in 1 .. Len(q.reqs) : q.reqs[i].gatt \in 1 .. Len(gatts)
  <2>1. \A i \in 1 .. Len(q.reqs) : q.reqs[i] \in Q!Requests
    BY <1>1, ElementOfSeq
  <2> QED
    BY <2>1 DEF Typed, QueueTyped, Some, Misfits
<1>3. \A g \in 1 .. Len(gatts) : gatts[g].op = Q!NoOp \/ gatts[g].op.gatt = g
  BY DEF Typed, GattsTyped, OpFits
<1>4. Q!TypeOK
  BY <1>1, <1>2, <1>3 DEF Typed, GattsTyped, NextsTyped, Q!TypeOK, GattType
<1>5. ota \in [made : BOOLEAN, gatt : 0 .. Len(gatts), offset : 0 .. Chunks,
               inTransfer : BOOLEAN, state : States]
  BY DEF Typed, OtaTyped, OtaType
<1> QED
  BY <1>4, <1>5 DEF Typed, OtaTyped, RestTyped, TypeOK, States, DeviceType, HistoryType

LEMMA Numbers ==
    /\ Chunks \in Nat \ {0} /\ MaxConnects \in Nat /\ MaxStarts \in Nat /\ MaxOthers \in Nat
    /\ MaxCalls \in Nat
    /\ Q!Threads = 0 .. MaxConnects /\ Q!App = 0
  BY UpgradeAssumption DEF Q!Threads, Q!App

LEMMA RequestType ==
    ASSUME NEW g \in Nat, NEW op \in Known, NEW x \in Nat
    PROVE  /\ Q!Req(g, op, x) \in Q!Requests
           /\ Q!Req(g, op, x).gatt = g /\ Q!Req(g, op, x).op = op /\ ~Q!Req(g, op, x).done
           /\ \A n : g \in 1 .. n => Q!Req(g, op, x) \notin Misfits(n)
<1>1. Q!Req(g, op, x) \in Q!Requests
  BY DEF Q!Req, Q!Requests, Known
<1>2. Q!Req(g, op, x).gatt = g /\ Q!Req(g, op, x).op = op /\ Q!Req(g, op, x).done = FALSE
  BY DEF Q!Req
<1> QED
  BY <1>1, <1>2 DEF Misfits, Known

LEMMA NoOpType == Q!NoOp \in Q!Requests /\ Q!NoOp.op = "none" /\ Q!NoOp.gatt = 0
  BY DEF Q!NoOp, Q!Requests

\* A new state of a connection.
LEMMA GattSet ==
    ASSUME Typed, NEW g \in 1 .. Len(gatts), NEW c \in GattType, gatts' = [gatts EXCEPT ![g] = c],
           c.op = Q!NoOp \/ (c.op.gatt = g /\ c.op.op # "none")
    PROVE  /\ gatts' \in Seq(GattType) /\ Len(gatts') = Len(gatts)
           /\ \A h \in 1 .. Len(gatts) : gatts'[h] = IF h = g THEN c ELSE gatts[h]
           /\ \A h \in 1 .. Len(gatts) : OpFits(h)'
<1>1. gatts \in Seq(GattType)
  BY DEF Typed, GattsTyped
<1>2. /\ gatts' \in Seq(GattType) /\ Len(gatts') = Len(gatts)
      /\ \A h \in 1 .. Len(gatts) : gatts'[h] = IF h = g THEN c ELSE gatts[h]
  BY <1>1, ExceptSeq
<1>3. \A h \in 1 .. Len(gatts) : OpFits(h)'
  BY <1>2 DEF Typed, GattsTyped, OpFits
<1> QED
  BY <1>2, <1>3

LEMMA GattChange ==
    ASSUME Typed, NEW g \in 1 .. Len(gatts), NEW c \in GattType, gatts' = [gatts EXCEPT ![g] = c],
           c.op = Q!NoOp \/ (c.op.gatt = g /\ c.op.op # "none"),
           mGatt' \in {0, mGatt}, UNCHANGED seen
    PROVE  GattsTyped' /\ Len(gatts') = Len(gatts)
<1>1. gatts' \in Seq(GattType) /\ Len(gatts') = Len(gatts)
      /\ \A h \in 1 .. Len(gatts) : OpFits(h)'
  BY GattSet
<1>2. /\ Len(gatts) =< MaxConnects /\ mGatt \in 0 .. Len(gatts)
      /\ seen \in [packets : 0 .. MaxOthers, stale : BOOLEAN, refused : BOOLEAN, torn : BOOLEAN]
  BY DEF Typed, GattsTyped
<1>3. 0 \in 0 .. Len(gatts)
  BY <1>1, LenProperties
<1> QED
  BY <1>1, <1>2, <1>3 DEF GattsTyped

\* The forms that such a change takes.
LEMMA GattForms ==
    ASSUME Typed, NEW g \in 1 .. Len(gatts)
    PROVE  /\ gatts[g] \in GattType /\ OpFits(g)
           /\ \A s : [gatts EXCEPT ![g].state = s] = [gatts EXCEPT ![g] = [gatts[g] EXCEPT !.state = s]]
           /\ \A r : [gatts EXCEPT ![g].op = r] = [gatts EXCEPT ![g] = [gatts[g] EXCEPT !.op = r]]
           /\ [gatts EXCEPT ![g].op.done = TRUE] =
                 [gatts EXCEPT ![g] = [gatts[g] EXCEPT !.op = [gatts[g].op EXCEPT !.done = TRUE]]]
<1>1. gatts[g] \in GattType
  BY ElementOfSeq DEF Typed, GattsTyped
<1>2. OpFits(g)
  BY DEF Typed, GattsTyped
<1>3. /\ \A s : [gatts EXCEPT ![g].state = s] = [gatts EXCEPT ![g] = [gatts[g] EXCEPT !.state = s]]
      /\ \A r : [gatts EXCEPT ![g].op = r] = [gatts EXCEPT ![g] = [gatts[g] EXCEPT !.op = r]]
      /\ [gatts EXCEPT ![g].op.done = TRUE] =
            [gatts EXCEPT ![g] = [gatts[g] EXCEPT !.op = [gatts[g].op EXCEPT !.done = TRUE]]]
  OBVIOUS
<1> QED
  BY <1>1, <1>2, <1>3

\* The request at the head of the queue, and the rest.
LEMMA HeadFits ==
    ASSUME Typed, q.reqs # <<>>
    PROVE  /\ Head(q.reqs) \in Q!Requests /\ Tail(q.reqs) \in Seq(Q!Requests)
           /\ Head(q.reqs).gatt \in 1 .. Len(gatts) /\ Head(q.reqs).op \notin {"none", "cccd"}
           /\ ~Some(Tail(q.reqs), Misfits(Len(gatts)))
<1>1. q.reqs \in Seq(Q!Requests) /\ ~Some(q.reqs, Misfits(Len(gatts)))
  BY DEF Typed, QueueTyped
<1>2. Head(q.reqs) \in Q!Requests /\ Tail(q.reqs) \in Seq(Q!Requests)
  BY <1>1, HeadTailProperties
<1>3. Head(q.reqs) \notin Misfits(Len(gatts)) /\ ~Some(Tail(q.reqs), Misfits(Len(gatts)))
  BY <1>1, SomeTail
<1> QED
  BY <1>2, <1>3 DEF Misfits

\* Requests of the connections so far can be added, by the threads so far.
LEMMA AddTypes ==
    ASSUME Typed, NEW rs \in Seq(Q!Requests), ~Some(rs, Misfits(Len(gatts))),
           Len(gatts') = Len(gatts), q' = [q EXCEPT !.reqs = @ \o rs, !.running = TRUE]
    PROVE  QueueTyped'
<1>1. q.reqs \in Seq(Q!Requests) /\ ~Some(q.reqs, Misfits(Len(gatts)))
  BY DEF Typed, QueueTyped
<1>2. q.reqs \o rs \in Seq(Q!Requests) /\ ~Some(q.reqs \o rs, Misfits(Len(gatts)))
  BY <1>1, ConcatProperties, SomeConcat
<1>3. q'.reqs = q.reqs \o rs /\ q' \in [reqs : Seq(Q!Requests), running : BOOLEAN, clearing : BOOLEAN]
  BY <1>2 DEF Typed, QueueTyped
<1> QED
  BY <1>2, <1>3 DEF QueueTyped, Misfits

LEMMA ThreadsSoFar == Typed => 0 .. Len(gatts) \subseteq Q!Threads
<1> SUFFICES ASSUME Typed PROVE 0 .. Len(gatts) \subseteq Q!Threads
  OBVIOUS
<1>1. Len(gatts) \in Nat /\ Len(gatts) =< MaxConnects
  BY LenProperties DEF Typed, GattsTyped
<1> QED
  BY <1>1, Numbers

LEMMA NextsTypes ==
    ASSUME Typed, NEW t \in 0 .. Len(gatts), NEW n \in Nat, nexts' = [nexts EXCEPT ![t] = n],
           Len(gatts') = Len(gatts)
    PROVE  NextsTyped'
<1>1. Len(gatts) \in Nat /\ t \in Q!Threads
  BY ThreadsSoFar, LenProperties DEF Typed, GattsTyped
<1> QED
  BY <1>1 DEF Typed, NextsTyped

LEMMA AddedTypes ==
    ASSUME Typed, NEW rs \in Seq(Q!Requests), ~Some(rs, Misfits(Len(gatts))), UNCHANGED gatts,
           NEW t \in 0 .. Len(gatts), Q!Added(t, rs)
    PROVE  QueueTyped' /\ NextsTyped'
<1>1. QueueTyped'
  BY AddTypes DEF Q!Added
<1>2. nexts[t] \in Nat
  BY ThreadsSoFar DEF Typed, NextsTyped
<1> DEFINE n == IF q.running THEN nexts[t] ELSE nexts[t] + 1
<1>3. n \in Nat /\ nexts' = [nexts EXCEPT ![t] = n]
  BY <1>2 DEF Q!Added
<1>4. NextsTyped'
  BY <1>3, NextsTypes
<1> QED
  BY <1>1, <1>4

LEMMA AddedOneTypes ==
    ASSUME Typed, NEW op \in Known, NEW x \in Nat, NEW g \in 1 .. Len(gatts), UNCHANGED gatts,
           NEW t \in 0 .. Len(gatts), Q!Added(t, <<Q!Req(g, op, x)>>)
    PROVE  QueueTyped' /\ NextsTyped'
<1>1. g \in Nat
  OBVIOUS
<1>2. Q!Req(g, op, x) \in Q!Requests /\ Q!Req(g, op, x) \notin Misfits(Len(gatts))
  BY <1>1, RequestType
<1> DEFINE r == Q!Req(g, op, x)
<1> HIDE DEF r
<1>3. <<r>> \in Seq(Q!Requests) /\ ~Some(<<r>>, Misfits(Len(gatts)))
  BY <1>2, SomeOne DEF r
<1> QED
  BY <1>3, AddedTypes DEF r

\* What the history may become.
LEMMA HistoryTypes ==
    ASSUME hist \in HistoryType
    PROVE  /\ Hurt(hist) \in HistoryType
           /\ Report(hist, "completed") \in HistoryType
           /\ Report(hist, "aborted") \in HistoryType
<1>1. \A r \in {"completed", "aborted", "not found"} : Append(hist.reports, r) \in Seq({"completed", "aborted", "not found"})
  BY AppendProperties DEF HistoryType
<1> QED
  BY <1>1 DEF HistoryType, Hurt, Report

-----------------------------------------------------------------------------
(* Types: the main thread                                                  *)

\* What start() adds to the queue.
StartReqs(g) == IF Found(g) THEN <<Q!Req(g, "desc", 0), Q!Req(g, "prepare", 0)>> ELSE <<>>

LEMMA StartReqsFit ==
    ASSUME Typed, NEW g \in 0 .. Len(gatts)
    PROVE  StartReqs(g) \in Seq(Q!Requests) /\ ~Some(StartReqs(g), Misfits(Len(gatts)))
<1>1. CASE Found(g)
  <2> DEFINE desc == Q!Req(g, "desc", 0)
             prepare == Q!Req(g, "prepare", 0)
  <2>1. g \in 1 .. Len(gatts) /\ g \in Nat
    BY <1>1 DEF Found
  <2>2. desc \in Q!Requests /\ desc \notin Misfits(Len(gatts))
    BY <2>1, RequestType DEF Known
  <2>3. prepare \in Q!Requests /\ prepare \notin Misfits(Len(gatts))
    BY <2>1, RequestType DEF Known
  <2>4. StartReqs(g) = <<desc, prepare>>
    BY <1>1 DEF StartReqs
  <2> HIDE DEF desc, prepare
  <2> QED
    BY <2>2, <2>3, <2>4, SomeTwo
<1>2. CASE ~Found(g)
  BY <1>2, SomeEmpty, EmptySeq DEF StartReqs
<1> QED
  BY <1>1, <1>2

LEMMA StartTypes == ASSUME Typed, Unasked, Start PROVE Typed'
<1> DEFINE g == IF ota.made THEN ota.gatt ELSE mGatt
<1>1. /\ ota' = [ota EXCEPT !.made = TRUE, !.gatt = g, !.state = "IDLE"]
      /\ Q!Added(Q!App, StartReqs(g))
      /\ UNCHANGED <<mGatt, gatts, seen, dev, air>> /\ ui' = "start"
  BY DEF Start, StartReqs
<1>2. g \in 0 .. Len(gatts) /\ g \in Nat /\ Len(gatts) \in Nat
  BY LenProperties DEF Typed, GattsTyped, OtaTyped
<1>3. g = 0 => ~ota.inTransfer
  <2>1. ota.gatt = 0 => ~ota.inTransfer
    BY DEF Typed, OtaTyped
  <2> QED
    BY <2>1 DEF Unasked
<1> HIDE DEF g
<1>6. Q!App \in 0 .. Len(gatts)
  BY <1>2, Numbers
<1>7. QueueTyped' /\ NextsTyped'
  BY <1>1, <1>2, <1>6, StartReqsFit, AddedTypes
<1>8. OtaTyped'
  <2>1. ota' \in OtaType /\ ota'.gatt = g /\ ota'.state = "IDLE" /\ ota'.inTransfer = ota.inTransfer
    BY <1>1, <1>2 DEF Typed, OtaTyped, OtaType, States
  <2> QED
    BY <1>1, <1>2, <1>3, <2>1 DEF OtaTyped
<1>9. hist' \in HistoryType
  <2> DEFINE c == Quiet
             h == g # mGatt \/ ~Q!Up(g)
             rs == IF Found(g) THEN <<>> ELSE <<"not found">>
  <2>1. c \in BOOLEAN
    BY DEF Quiet
  <2>5. h \in BOOLEAN
    OBVIOUS
  <2>2. hist' = [starts |-> hist.starts + 1, stops |-> hist.stops, clean |-> c,
                 hurt |-> h, early |-> FALSE, reports |-> rs]
    BY DEF Start, g
  <2>4. rs \in Seq({"completed", "aborted", "not found"})
    <3>1. \A x : <<x>> = Append(<<>>, x)
      OBVIOUS
    <3>2. <<"not found">> \in Seq({"completed", "aborted", "not found"})
      BY <3>1, EmptySeq, AppendProperties
    <3> QED
      BY <3>2, EmptySeq
  <2> HIDE DEF c, h, rs
  <2>3. hist.starts + 1 \in 0 .. MaxStarts
    <3>1. hist.starts < MaxStarts
      BY DEF Start
    <3>2. hist.starts \in 0 .. MaxStarts
      BY DEF Typed, RestTyped, HistoryType
    <3> QED
      BY <3>1, <3>2, Numbers
  <2> QED
    BY <2>1, <2>2, <2>3, <2>4, <2>5 DEF Typed, RestTyped, HistoryType
<1> QED
  BY <1>1, <1>7, <1>8, <1>9 DEF Typed, GattsTyped, RestTyped, OpFits

LEMMA StartedTypes == ASSUME Typed, Started PROVE Typed'
<1>1. OtaTyped'
  BY DEF Started, Q!queueVars, queueVars, Typed, OtaTyped, OtaType, States
<1> QED
  BY <1>1 DEF Started, queueVars, Typed, QueueTyped, Misfits, GattsTyped, OpFits, NextsTyped, RestTyped

LEMMA StopTypes == ASSUME Typed, Stop PROVE Typed'
<1>1. ota.gatt # 0
  BY DEF Stop, Typed, OtaTyped
<1>2. OtaTyped'
  BY <1>1 DEF Stop, queueVars, Typed, OtaTyped
<1>3. hist' \in HistoryType
  <2>1. hist.stops + 1 \in 0 .. MaxOthers
    <3>1. hist.stops + seen.packets < MaxOthers
      BY DEF Stop, Others
    <3>2. hist.stops \in 0 .. MaxOthers /\ seen.packets \in 0 .. MaxOthers
      BY DEF Typed, RestTyped, GattsTyped, HistoryType
    <3> QED
      BY <3>1, <3>2, Numbers
  <2> QED
    BY <2>1 DEF Stop, Hurt, Typed, RestTyped, HistoryType
<1> QED
  BY <1>2, <1>3
     DEF Stop, queueVars, Typed, QueueTyped, Misfits, GattsTyped, OpFits, NextsTyped, RestTyped

LEMMA StoppedTypes == ASSUME Typed, Stopped PROVE Typed'
<1>1. ota.gatt \in 1 .. Len(gatts)
  BY DEF Stopped, Typed, OtaTyped
<1>2. Q!App \in 0 .. Len(gatts)
  BY <1>1, Numbers
<1>3. QueueTyped' /\ NextsTyped'
  <2>1. Q!Added(Q!App, <<Q!Req(ota.gatt, "abort", 0)>>) /\ UNCHANGED gatts
    BY DEF Stopped, Ota
  <2> QED
    BY <1>1, <1>2, <2>1, AddedOneTypes DEF Known
<1>4. OtaTyped'
  BY <1>1 DEF Stopped, Typed, OtaTyped, OtaType, States
<1> QED
  BY <1>3, <1>4 DEF Stopped, Typed, GattsTyped, OpFits, RestTyped

-----------------------------------------------------------------------------
(* Types: the queue and the connections                                    *)

LEMMA RunNextTypes == ASSUME Typed, NEW t \in Q!Threads, Q!RunNext(t), UNCHANGED otaVars PROVE Typed'
<1>1. UNCHANGED <<mGatt, ota, ui, dev, air, hist>>
  BY DEF Q!RunNext, otaVars
<1>2. seen' \in [packets : 0 .. MaxOthers, stale : BOOLEAN, refused : BOOLEAN, torn : BOOLEAN]
  <2> DEFINE st == seen.stale \/ (t \notin {Q!App, mGatt} /\ mGatt # 0)
             rf == seen.refused \/ (Q!Refused /\ Q!Unnoticed(Head(q.reqs)))
  <2>1. st \in BOOLEAN
    OBVIOUS
  <2>2. rf \in BOOLEAN
    OBVIOUS
  <2>3. seen' = [seen EXCEPT !.stale = st, !.refused = rf]
    BY DEF Q!RunNext
  <2> HIDE DEF st, rf
  <2> QED
    BY <2>1, <2>2, <2>3 DEF Typed, GattsTyped
<1>3. nexts[t] \in Nat /\ nexts[t] > 0 /\ nexts' = [nexts EXCEPT ![t] = nexts[t] - 1]
  BY DEF Q!RunNext, Typed, NextsTyped
<1>4. nexts' \in [Q!Threads -> Nat] /\ \A u \in Q!Threads : nexts[u] = 0 => nexts'[u] = 0
  BY <1>3 DEF Typed, NextsTyped
<1>5. ASSUME UNCHANGED gatts, q' = [q EXCEPT !.running = FALSE] PROVE Typed'
  <2>1. QueueTyped'
    <3>1. q'.reqs = q.reqs /\ q' \in [reqs : Seq(Q!Requests), running : BOOLEAN, clearing : BOOLEAN]
      BY <1>5 DEF Typed, QueueTyped
    <3> QED
      BY <1>5, <3>1 DEF Typed, QueueTyped, Misfits
  <2>2. GattsTyped'
    BY <1>1, <1>2, <1>5 DEF Typed, GattsTyped, OpFits
  <2> QED
    BY <1>1, <1>4, <1>5, <2>1, <2>2 DEF Typed, NextsTyped, OtaTyped, RestTyped
<1>6. ASSUME q.reqs # <<>>, q' = [q EXCEPT !.reqs = Tail(q.reqs)], GattsTyped',
             Len(gatts') = Len(gatts)
      PROVE  Typed'
  <2>1. QueueTyped'
    <3>1. q'.reqs = Tail(q.reqs)
          /\ q' \in [reqs : Seq(Q!Requests), running : BOOLEAN, clearing : BOOLEAN]
      BY <1>6, HeadFits DEF Typed, QueueTyped
    <3> QED
      BY <1>6, <3>1, HeadFits DEF Typed, QueueTyped, Misfits
  <2> QED
    BY <1>1, <1>4, <1>6, <2>1 DEF Typed, NextsTyped, OtaTyped, RestTyped
<1>7. CASE Q!Empties
  BY <1>5, <1>7 DEF Q!Empties
<1>8. CASE Q!Issues
  <2> DEFINE r == Head(q.reqs)
             g == r.gatt
             c == [gatts[g] EXCEPT !.op = r]
  <2>1. q.reqs # <<>> /\ r \in Q!Requests /\ g \in 1 .. Len(gatts) /\ r.op # "none"
    BY <1>8, HeadFits DEF Q!Issues
  <2>2. gatts' = [gatts EXCEPT ![g] = c] /\ gatts[g] \in GattType
    BY <1>8, <2>1, GattForms DEF Q!Issues
  <2>3. c \in GattType /\ c.op = r
    BY <2>1, <2>2 DEF GattType
  <2>4. seen' \in [packets : 0 .. MaxOthers, stale : BOOLEAN, refused : BOOLEAN, torn : BOOLEAN]
    BY <1>2
  <2>5. gatts' \in Seq(GattType) /\ Len(gatts') = Len(gatts)
        /\ \A h \in 1 .. Len(gatts) : OpFits(h)'
    <3> HIDE DEF c
    <3> QED
      BY <2>1, <2>2, <2>3, GattSet
  <2> QED
    BY <1>1, <1>6, <1>8, <2>1, <2>4, <2>5 DEF Q!Issues, Typed, GattsTyped
<1>9. CASE Q!Refused
  <2> DEFINE r == Head(q.reqs)
             g == r.gatt
             c == [gatts[g] EXCEPT !.state = "leaving"]
  <2>1. q.reqs # <<>> /\ g \in 1 .. Len(gatts)
    BY <1>9, HeadFits DEF Q!Refused
  <2>2. gatts[g] \in GattType /\ OpFits(g) /\ (gatts' = gatts \/ gatts' = [gatts EXCEPT ![g] = c])
    BY <1>9, <2>1, GattForms DEF Q!Refused
  <2>3. c \in GattType /\ c.op = gatts[g].op
    BY <2>1, <2>2 DEF GattType
  <2>4. seen' \in [packets : 0 .. MaxOthers, stale : BOOLEAN, refused : BOOLEAN, torn : BOOLEAN]
    BY <1>2
  <2>5. CASE gatts' = gatts
    BY <1>1, <1>6, <1>9, <2>1, <2>4, <2>5 DEF Q!Refused, Typed, GattsTyped, OpFits
  <2>6. CASE gatts' = [gatts EXCEPT ![g] = c]
    <3>1. gatts' \in Seq(GattType) /\ Len(gatts') = Len(gatts)
          /\ \A h \in 1 .. Len(gatts) : OpFits(h)'
      <4>1. c.op = Q!NoOp \/ (c.op.gatt = g /\ c.op.op # "none")
        BY <2>2, <2>3 DEF OpFits
      <4> HIDE DEF c
      <4> QED
        BY <2>1, <2>3, <2>6, <4>1, GattSet
    <3> QED
      BY <1>1, <1>6, <1>9, <2>1, <2>4, <3>1 DEF Q!Refused, Typed, GattsTyped
  <2> QED
    BY <2>2, <2>5, <2>6
<1> QED
  BY <1>7, <1>8, <1>9 DEF Q!RunNext

\* Another state of a connection, with the queue as it is.
LEMMA StateTypes ==
    ASSUME Typed, NEW g \in 1 .. Len(gatts),
           NEW s \in {"connecting", "up", "leaving", "lost", "closed"},
           gatts' = [gatts EXCEPT ![g].state = s], mGatt' \in {0, mGatt},
           UNCHANGED <<q, nexts, seen, ota, ui>>, RestTyped'
    PROVE  Typed'
<1> DEFINE c == [gatts[g] EXCEPT !.state = s]
<1>1. gatts' = [gatts EXCEPT ![g] = c] /\ gatts[g] \in GattType /\ OpFits(g)
  BY GattForms
<1>2. c \in GattType /\ c.op = gatts[g].op
  BY <1>1 DEF GattType
<1>3. c.op = Q!NoOp \/ (c.op.gatt = g /\ c.op.op # "none")
  BY <1>1, <1>2 DEF OpFits
<1> HIDE DEF c
<1>4. GattsTyped' /\ Len(gatts') = Len(gatts)
  BY <1>1, <1>2, <1>3, GattChange
<1> QED
  BY <1>4 DEF Typed, QueueTyped, Misfits, NextsTyped, OtaTyped

\* A connection with another record, with the queue as it is.
LEMMA RecordTypes ==
    ASSUME Typed, NEW g \in 1 .. Len(gatts), NEW c \in GattType,
           c.op = Q!NoOp \/ (c.op.gatt = g /\ c.op.op # "none"),
           gatts' = [gatts EXCEPT ![g] = c], mGatt' \in {0, mGatt},
           UNCHANGED <<q, nexts, seen, ota, ui>>, RestTyped'
    PROVE  Typed'
<1>1. GattsTyped' /\ Len(gatts') = Len(gatts)
  BY GattChange
<1> QED
  BY <1>1 DEF Typed, QueueTyped, Misfits, NextsTyped, OtaTyped

LEMMA ClosedType ==
    ASSUME Typed, NEW g \in 1 .. Len(gatts)
    PROVE  Q!Closed(g) \in GattType /\ Q!Closed(g).op = Q!NoOp /\ Q!Closed(g).state = "closed"
           /\ Q!Closed(g).services = gatts[g].services
  BY GattForms, NoOpType DEF Q!Closed, GattType

\* A connection that has ended.
LEMMA ClosedTypes ==
    ASSUME Typed, NEW g \in 1 .. Len(gatts),
           gatts' = [gatts EXCEPT ![g] = Q!Closed(g)], mGatt' \in {0, mGatt},
           UNCHANGED <<q, nexts, seen, ota, ui>>, RestTyped'
    PROVE  Typed'
  BY ClosedType, RecordTypes

LEMMA ForgetsTypes ==
    ASSUME Typed, NEW g \in 1 .. Len(gatts), Forgets(g) PROVE RestTyped' /\ UNCHANGED <<ota, ui>>
<1>1. NoImage \in DeviceType
  BY Numbers, EmptySeq DEF NoImage, DeviceType
<1>2. dev' \in DeviceType
  BY <1>1 DEF Forgets, Typed, RestTyped
<1>3. <<>> \in Seq({"ok", "failed"})
  BY EmptySeq
<1>4. air' \in [Q!Threads -> Seq({"ok", "failed"})]
  BY <1>3 DEF Forgets, Typed, RestTyped
<1>5. hist' \in HistoryType
  BY HistoryTypes DEF Forgets, Typed, RestTyped
<1> QED
  BY <1>2, <1>4, <1>5 DEF Forgets, RestTyped

LEMMA LinkTypes ==
    ASSUME Typed, NEW g \in 1 .. Len(gatts), Lost(g) \/ Ends(g) PROVE Typed'
<1>1. RestTyped' /\ UNCHANGED <<ota, ui>>
  BY ForgetsTypes DEF Lost, Ends
<1>2. CASE Lost(g)
  BY <1>1, <1>2, StateTypes DEF Lost, Q!LinkLost
<1>3. CASE Ends(g)
  BY <1>1, <1>3, ClosedTypes DEF Ends, Q!OnDisconnected
<1> QED
  BY <1>2, <1>3

LEMMA DisconnectTypes ==
    ASSUME Typed, Q!Disconnect, hist' = Hurt(hist), UNCHANGED <<ota, ui, dev, air>> PROVE Typed'
<1>1. mGatt \in 1 .. Len(gatts)
  BY DEF Q!Disconnect, Typed, GattsTyped
<1>2. RestTyped'
  BY HistoryTypes DEF Typed, RestTyped
<1> DEFINE s == IF gatts[mGatt].state = "lost" THEN "lost" ELSE "leaving"
<1>3. s \in {"lost", "leaving"} /\ gatts' = [gatts EXCEPT ![mGatt].state = s]
  BY DEF Q!Disconnect
<1> HIDE DEF s
<1> QED
  BY <1>1, <1>2, <1>3, StateTypes DEF Q!Disconnect

LEMMA ConnectTypes == ASSUME Typed, Q!Connect, UNCHANGED otaVars PROVE Typed'
<1>1. mGatt \in 0 .. Len(gatts) /\ UNCHANGED <<mGatt, nexts, seen, ota, ui, dev, air, hist>>
  BY DEF Q!Connect, otaVars, Typed, GattsTyped
<1>2. GattsTyped' /\ Len(gatts') = Len(gatts)
  <2>1. CASE mGatt = 0
    BY <1>1, <2>1 DEF Q!Connect, Typed, GattsTyped, OpFits
  <2>2. CASE mGatt # 0
    <3>1. mGatt \in 1 .. Len(gatts) /\ gatts' = [gatts EXCEPT ![mGatt] = Q!Closed(mGatt)]
      BY <1>1, <2>2 DEF Q!Connect
    <3> QED
      BY <1>1, <3>1, ClosedType, GattChange
  <2> QED
    BY <2>1, <2>2
<1>3. QueueTyped'
  <2>1. q'.reqs = <<>> /\ q' \in [reqs : Seq(Q!Requests), running : BOOLEAN, clearing : BOOLEAN]
    BY EmptySeq DEF Q!Connect, Q!Cleared, Typed, QueueTyped
  <2> QED
    BY <2>1, SomeEmpty DEF QueueTyped
<1> QED
  BY <1>1, <1>2, <1>3 DEF Typed, NextsTyped, OtaTyped, RestTyped

\* A connection that is new.
LEMMA ConnectedGatts ==
    ASSUME Typed, Q!ConnectGatt
    PROVE  /\ gatts' \in Seq(GattType) /\ Len(gatts') = Len(gatts) + 1
           /\ \A h \in 1 .. Len(gatts) : gatts'[h] = gatts[h]
           /\ gatts'[Len(gatts) + 1] = Q!NewConnection
           /\ Q!NewConnection \in GattType /\ Q!NewConnection.op = Q!NoOp
           /\ Q!NewConnection.state = "connecting"
           /\ Len(gatts) \in Nat
<1>1. /\ Q!NewConnection \in GattType /\ Q!NewConnection.op = Q!NoOp
      /\ Q!NewConnection.state = "connecting"
  BY NoOpType DEF Q!NewConnection, GattType
<1>2. gatts \in Seq(GattType) /\ Len(gatts) \in Nat
  BY LenProperties DEF Typed, GattsTyped
<1>3. gatts' = Append(gatts, Q!NewConnection)
  BY DEF Q!ConnectGatt
<1> QED
  BY <1>1, <1>2, <1>3, AppendProperties

LEMMA ConnectGattTypes == ASSUME Typed, Clearing, Q!ConnectGatt, UNCHANGED otaVars PROVE Typed'
<1>1. /\ gatts' \in Seq(GattType) /\ Len(gatts') = Len(gatts) + 1
      /\ \A h \in 1 .. Len(gatts) : gatts'[h] = gatts[h]
      /\ gatts'[Len(gatts) + 1] = Q!NewConnection /\ Q!NewConnection.op = Q!NoOp
      /\ Len(gatts) \in Nat
  BY ConnectedGatts
<1>2. /\ q.clearing /\ mGatt' = Len(gatts) + 1 /\ q' = [q EXCEPT !.running = FALSE, !.clearing = FALSE]
      /\ seen' = [seen EXCEPT !.torn = @ \/ q.reqs # <<>>]
      /\ UNCHANGED <<nexts, ota, ui, dev, air, hist>>
  BY DEF Q!ConnectGatt, Q!ClearedRunning, otaVars
<1>3. \A h \in 1 .. Len(gatts') : OpFits(h)'
  <2> SUFFICES ASSUME NEW h \in 1 .. Len(gatts') PROVE OpFits(h)'
    OBVIOUS
  <2>1. CASE h = Len(gatts) + 1
    BY <1>1, <2>1 DEF OpFits
  <2>2. CASE h # Len(gatts) + 1
    <3>1. h \in 1 .. Len(gatts) /\ OpFits(h)
      BY <1>1, <2>2 DEF Typed, GattsTyped
    <3> QED
      BY <1>1, <3>1 DEF OpFits
  <2> QED
    BY <2>1, <2>2
<1>4. GattsTyped'
  <2>1. Len(gatts') =< MaxConnects /\ mGatt' \in 0 .. Len(gatts')
    BY <1>1, <1>2, Numbers DEF Clearing
  <2> DEFINE torn == seen.torn \/ q.reqs # <<>>
  <2>2. torn \in BOOLEAN /\ seen' = [seen EXCEPT !.torn = torn]
    BY <1>2 DEF Typed, GattsTyped
  <2> HIDE DEF torn
  <2>3. seen' \in [packets : 0 .. MaxOthers, stale : BOOLEAN, refused : BOOLEAN, torn : BOOLEAN]
    BY <2>2 DEF Typed, GattsTyped
  <2> QED
    BY <1>1, <1>3, <2>1, <2>3 DEF GattsTyped
<1>5. QueueTyped'
  <2>1. q'.reqs = q.reqs /\ q' \in [reqs : Seq(Q!Requests), running : BOOLEAN, clearing : BOOLEAN]
    BY <1>2 DEF Typed, QueueTyped
  <2>2. Misfits(Len(gatts')) \subseteq Misfits(Len(gatts))
    BY <1>1 DEF Misfits
  <2>3. ~Some(q.reqs, Misfits(Len(gatts')))
    BY <2>2 DEF Typed, QueueTyped, Some
  <2>4. Misfits(Len(gatts))' = Misfits(Len(gatts'))
    BY DEF Misfits
  <2> QED
    BY <2>1, <2>3, <2>4 DEF QueueTyped
<1>6. NextsTyped'
  <2>1. \A t \in Q!Threads : t > Len(gatts) + 1 => t > Len(gatts)
    BY <1>1, Numbers
  <2> QED
    BY <1>1, <1>2, <2>1 DEF Typed, NextsTyped
<1>7. OtaTyped'
  <2>1. 0 .. Len(gatts) \subseteq 0 .. Len(gatts')
    BY <1>1
  <2> QED
    BY <1>2, <2>1 DEF Typed, OtaTyped
<1> QED
  BY <1>2, <1>4, <1>5, <1>6, <1>7 DEF Typed, RestTyped

\* A connection whose services are found, and the descriptor written past the
\* queue.
FoundConnection(g) == [state |-> "up", op |-> Q!Req(g, "cccd", 0), services |-> TRUE]

LEMMA FoundForms ==
    ASSUME NEW g \in Nat
    PROVE  /\ FoundConnection(g) \in GattType /\ FoundConnection(g).op \in Q!Requests
           /\ FoundConnection(g).op.gatt = g /\ FoundConnection(g).op.op = "cccd"
           /\ FoundConnection(g).op # Q!NoOp /\ FoundConnection(g).state = "up"
           /\ FoundConnection(g).services
  BY DEF FoundConnection, GattType, Q!Req, Q!Requests, Q!NoOp

LEMMA ConnectionTypes ==
    ASSUME Typed, NEW g \in 1 .. Len(gatts), Q!DeviceConnected(g) \/ Q!OnMeshDescriptorWrite(g),
           UNCHANGED otaVars
    PROVE  Typed'
<1>1. UNCHANGED <<q, mGatt, nexts, seen, ota, ui>> /\ RestTyped' /\ g \in Nat
  BY DEF otaVars, Q!DeviceConnected, Q!OnMeshDescriptorWrite, Typed, RestTyped
<1>2. CASE Q!DeviceConnected(g)
  <2>1. gatts' = [gatts EXCEPT ![g] = FoundConnection(g)]
    BY <1>2 DEF Q!DeviceConnected, FoundConnection
  <2>2. /\ FoundConnection(g) \in GattType
        /\ FoundConnection(g).op.gatt = g /\ FoundConnection(g).op.op # "none"
    BY <1>1, FoundForms
  <2> QED
    BY <1>1, <2>1, <2>2, RecordTypes
<1>3. CASE Q!OnMeshDescriptorWrite(g)
  <2>1. gatts' = [gatts EXCEPT ![g] = [gatts[g] EXCEPT !.op = Q!NoOp]]
    BY <1>3, GattForms DEF Q!OnMeshDescriptorWrite
  <2>2. [gatts[g] EXCEPT !.op = Q!NoOp] \in GattType /\ [gatts[g] EXCEPT !.op = Q!NoOp].op = Q!NoOp
    BY GattForms, NoOpType DEF GattType
  <2> QED
    BY <1>1, <2>1, <2>2, RecordTypes
<1> QED
  BY <1>2, <1>3

LEMMA LibraryTypes == ASSUME Typed, Library, UNCHANGED otaVars PROVE Typed'
<1>1. UNCHANGED <<ota, ui>> /\ RestTyped'
  BY DEF otaVars, Typed, RestTyped
<1>2. CASE Connections
  BY <1>2, ConnectionTypes DEF Connections
<1>3. CASE Q!SendProxyPacket /\ Others < MaxOthers
  <2>1. mGatt \in 1 .. Len(gatts) /\ UNCHANGED <<mGatt, gatts>>
    BY <1>3 DEF Q!SendProxyPacket, Typed, GattsTyped
  <2>2. PICK t \in {Q!App, mGatt} : Q!Added(t, <<Q!Req(mGatt, "proxy", 0)>>)
    BY <1>3 DEF Q!SendProxyPacket
  <2>3. t \in 0 .. Len(gatts)
    BY <2>1, Numbers
  <2>4. QueueTyped' /\ NextsTyped'
    BY <2>1, <2>2, <2>3, AddedOneTypes DEF Known
  <2>5. GattsTyped'
    <3>1. seen.packets + 1 \in 0 .. MaxOthers
      BY <1>3, Numbers DEF Q!SendProxyPacket, Typed, GattsTyped
    <3>2. seen' \in [packets : 0 .. MaxOthers, stale : BOOLEAN, refused : BOOLEAN, torn : BOOLEAN]
      BY <1>3, <3>1 DEF Q!SendProxyPacket, Typed, GattsTyped
    <3> QED
      BY <2>1, <3>2 DEF Typed, GattsTyped, OpFits
  <2> QED
    BY <1>1, <2>1, <2>4, <2>5 DEF Typed, OtaTyped
<1> QED
  BY <1>2, <1>3, ConnectTypes DEF Library

-----------------------------------------------------------------------------
(* Types: the callbacks                                                    *)

LEMMA NotifiedTypes ==
    ASSUME Typed, NEW status \in {"ok", "failed"}
    PROVE  Notified(status) \in [Q!Threads -> Seq({"ok", "failed"})]
<1>1. dev.sub \in Q!Threads /\ air \in [Q!Threads -> Seq({"ok", "failed"})]
  BY DEF Typed, RestTyped, DeviceType
<1>2. Append(air[dev.sub], status) \in Seq({"ok", "failed"})
  BY <1>1, AppendProperties
<1> QED
  BY <1>1, <1>2 DEF Notified

LEMMA DeviceTypes ==
    ASSUME Typed, NEW r \in Q!Requests, r.gatt \in Q!Threads PROVE DeviceAfter(r) \in DeviceType
<1>1. Append(dev.got, r.x) \in Seq(Nat) /\ <<>> \in Seq(Nat)
  BY AppendProperties, EmptySeq DEF Typed, RestTyped, DeviceType, Q!Requests
<1> QED
  BY <1>1 DEF DeviceAfter, Typed, RestTyped, DeviceType

\* Android's request is taken or is done.
LEMMA OpTypes ==
    ASSUME Typed, NEW g \in 1 .. Len(gatts), NEW r \in Q!Requests,
           gatts' = [gatts EXCEPT ![g] = [gatts[g] EXCEPT !.op = r]],
           r = Q!NoOp \/ (r.gatt = g /\ r.op # "none"), UNCHANGED <<mGatt, seen>>
    PROVE  GattsTyped' /\ Len(gatts') = Len(gatts)
<1> DEFINE c == [gatts[g] EXCEPT !.op = r]
<1>1. c \in GattType /\ c.op = r
  BY GattForms DEF GattType
<1>2. gatts' = [gatts EXCEPT ![g] = c]
  OBVIOUS
<1> HIDE DEF c
<1> QED
  BY <1>1, <1>2, GattChange

LEMMA DeviceTakesTypes ==
    ASSUME Typed, NEW g \in 1 .. Len(gatts), DeviceTakes(g) PROVE Typed'
<1> DEFINE r == gatts[g].op
           d == [r EXCEPT !.done = TRUE]
<1>1. r \in Q!Requests /\ r.gatt = g /\ r.op # "none"
  <2>1. r.op \notin {"none", "cccd"}
    BY DEF DeviceTakes
  <2>2. gatts[g] \in GattType /\ (r = Q!NoOp \/ (r.gatt = g /\ r.op # "none"))
    BY GattForms DEF OpFits
  <2> QED
    BY <2>1, <2>2, NoOpType DEF GattType
<1>2. d \in Q!Requests /\ d.gatt = g /\ d.op # "none"
  BY <1>1 DEF Q!Requests
<1>3. gatts' = [gatts EXCEPT ![g] = [gatts[g] EXCEPT !.op = d]]
  BY GattForms DEF DeviceTakes
<1>4. g \in Q!Threads
  BY ThreadsSoFar
<1>5. UNCHANGED <<q, mGatt, nexts, seen, ota, ui>>
  BY DEF DeviceTakes
<1>6. /\ dev' = DeviceAfter(r) \/ dev' = dev
      /\ air' = air \/ \E s \in {"ok", "failed"} : air' = Notified(s)
      /\ hist' = Hurt(hist) \/ hist' = hist
  BY DEF DeviceTakes, Status
<1> HIDE DEF r, d
<1>7. GattsTyped' /\ Len(gatts') = Len(gatts)
  BY <1>2, <1>3, <1>5, OpTypes
<1>8. RestTyped'
  BY <1>1, <1>4, <1>6, NotifiedTypes, DeviceTypes, HistoryTypes DEF Typed, RestTyped
<1> QED
  BY <1>5, <1>7, <1>8 DEF Typed, QueueTyped, Misfits, NextsTyped, OtaTyped

\* The upgrade after another packet.
LEMMA ChunkType ==
    ASSUME NEW o \in OtaType, o.offset < Chunks
    PROVE  /\ Chunk(o) \in OtaType
           /\ Chunk(o).offset = o.offset + 1 /\ Chunk(o).state = o.state /\ Chunk(o).gatt = o.gatt
           /\ Chunk(o).inTransfer <=> o.offset + 1 < Chunks
<1> DEFINE b == o.offset + 1 < Chunks
<1>1. b \in BOOLEAN
  OBVIOUS
<1>2. Chunk(o) = [o EXCEPT !.offset = o.offset + 1, !.inTransfer = b]
  BY DEF Chunk
<1>3. o.offset + 1 \in 0 .. Chunks
  BY Numbers DEF OtaType
<1> HIDE DEF b
<1>4. /\ Chunk(o) \in OtaType
      /\ Chunk(o).offset = o.offset + 1 /\ Chunk(o).state = o.state /\ Chunk(o).gatt = o.gatt
      /\ Chunk(o).inTransfer = b
  BY <1>1, <1>2, <1>3 DEF OtaType
<1> QED
  BY <1>4 DEF b

\* The numbers and forms of the upgrade's states.
LEMMA OtaForms ==
    ASSUME Typed
    PROVE  /\ \A s \in States : [ota EXCEPT !.state = s] \in OtaType
           /\ \A s \in States : [Restarted(ota) EXCEPT !.state = s] \in OtaType
           /\ Chunk(Restarted(ota)) \in OtaType
           /\ \A o \in OtaType : o.offset < Chunks => Chunk(o) \in OtaType
<1>1. 0 \in 0 .. Chunks /\ 1 \in 0 .. Chunks
  BY Numbers
<1>2. ota \in OtaType
  BY DEF Typed, OtaTyped
<1>3. \A o \in OtaType : o.offset < Chunks => Chunk(o) \in OtaType
  BY ChunkType
<1>4. Restarted(ota) \in OtaType /\ Restarted(ota).offset = 0
  BY <1>1, <1>2 DEF OtaType, Restarted
<1>5. \A o \in OtaType : \A s \in States : [o EXCEPT !.state = s] \in OtaType
  BY DEF OtaType
<1> QED
  BY <1>2, <1>3, <1>4, <1>5, Numbers

LEMMA ResponseOkTypes ==
    ASSUME Typed, ota.gatt # 0, NEW g \in 1 .. Len(gatts), ResponseOk(g), UNCHANGED <<gatts, ui>>
    PROVE  QueueTyped' /\ NextsTyped' /\ OtaTyped' /\ hist' \in HistoryType
<1>1. g \in 0 .. Len(gatts) /\ ota \in OtaType /\ ota.gatt \in 0 .. Len(gatts) /\ hist \in HistoryType
      /\ ui \in {"idle", "start", "stop"}
  BY DEF Typed, OtaTyped, RestTyped
<1>2. CASE ota.state \in {"WAIT", "DATA", "VERIFICATION"} /\ ResponseOk(g)
  <2>1. ota.gatt \in 1 .. Len(gatts)
    BY <1>2 DEF Typed, OtaTyped
  <2>2. ASSUME ota' \in OtaType, ota'.gatt = ota.gatt PROVE OtaTyped'
    BY <2>1, <2>2 DEF Typed, OtaTyped
  <2>3. CASE ota.state = "WAIT"
    <3>1. /\ ota' = [Restarted(ota) EXCEPT !.state = "DATA"] /\ hist' = hist
          /\ Q!Added(g, <<Q!Req(ota.gatt, "download", 0)>>)
      BY <2>3 DEF ResponseOk, Ota
    <3>2. QueueTyped' /\ NextsTyped'
      BY <1>1, <2>1, <3>1, AddedOneTypes DEF Known
    <3>3. ota' \in OtaType
      BY <3>1, OtaForms DEF States
    <3>4. ota'.gatt = ota.gatt
      BY <1>1, <3>1 DEF Restarted, OtaType
    <3> QED
      BY <1>1, <2>2, <3>1, <3>2, <3>3, <3>4
  <2>4. CASE ota.state = "DATA" /\ ~ota.inTransfer
    <3>1. /\ ota' = Chunk(Restarted(ota)) /\ hist' = hist
          /\ Q!Added(g, <<Q!Req(ota.gatt, "data", 1)>>)
      BY <2>4 DEF ResponseOk, Ota
    <3>2. QueueTyped' /\ NextsTyped'
      BY <1>1, <2>1, <3>1, AddedOneTypes DEF Known
    <3>3. ota' \in OtaType
      BY <3>1, OtaForms
    <3>4. ota'.gatt = ota.gatt
      BY <1>1, <3>1 DEF Chunk, Restarted, OtaType
    <3> QED
      BY <1>1, <2>2, <3>1, <3>2, <3>3, <3>4
  <2>5. CASE ota.state = "VERIFICATION"
    <3>1. ota' = [ota EXCEPT !.state = "VERIFIED"] /\ hist' = Report(hist, "completed")
          /\ UNCHANGED <<q, nexts>>
      BY <2>5 DEF ResponseOk
    <3>2. ota' \in OtaType
      BY <3>1, OtaForms DEF States
    <3>3. ota'.gatt = ota.gatt
      BY <1>1, <3>1 DEF OtaType
    <3>4. hist' \in HistoryType
      BY <1>1, <3>1, HistoryTypes
    <3>5. QueueTyped' /\ NextsTyped'
      BY <3>1 DEF Typed, QueueTyped, Misfits, NextsTyped
    <3> QED
      BY <2>2, <3>2, <3>3, <3>4, <3>5
  <2>6. CASE ota.state = "DATA" /\ ota.inTransfer
    <3>1. hist' = [hist EXCEPT !.early = @ \/ ui = "start"] /\ UNCHANGED <<q, nexts, ota>>
      BY <2>6 DEF ResponseOk
    <3> DEFINE b == hist.early \/ ui = "start"
    <3>2. b \in BOOLEAN
      OBVIOUS
    <3>3. hist' = [hist EXCEPT !.early = b]
      BY <3>1
    <3> HIDE DEF b
    <3>4. hist' \in HistoryType
      BY <1>1, <3>2, <3>3 DEF HistoryType
    <3> QED
      BY <3>1, <3>4 DEF Typed, QueueTyped, Misfits, NextsTyped, OtaTyped
  <2> QED
    BY <1>2, <2>3, <2>4, <2>5, <2>6
<1>3. CASE ota.state = "ABORTED"
  <2>1. hist' = Report(hist, "aborted") /\ UNCHANGED <<q, nexts, ota>>
    BY <1>3 DEF ResponseOk
  <2> QED
    BY <1>1, <2>1, HistoryTypes DEF Typed, QueueTyped, Misfits, NextsTyped, OtaTyped
<1>4. CASE ota.state \in {"IDLE", "VERIFIED", "ABORT"}
  <2>1. hist' = [hist EXCEPT !.early = @ \/ ui = "start"] /\ UNCHANGED <<q, nexts, ota>>
    BY <1>4 DEF ResponseOk
  <2> DEFINE b == hist.early \/ ui = "start"
  <2>2. b \in BOOLEAN
    OBVIOUS
  <2>3. hist' = [hist EXCEPT !.early = b]
    BY <2>1
  <2> HIDE DEF b
  <2>4. hist' \in HistoryType
    BY <1>1, <2>2, <2>3 DEF HistoryType
  <2> QED
    BY <2>1, <2>4 DEF Typed, QueueTyped, Misfits, NextsTyped, OtaTyped
<1>5. ota.state \in States
  BY <1>1 DEF OtaType
<1> QED
  BY <1>2, <1>3, <1>4, <1>5 DEF States

LEMMA ResponseFailedTypes ==
    ASSUME Typed, ResponseFailed, UNCHANGED <<gatts, ui>>
    PROVE  QueueTyped' /\ NextsTyped' /\ OtaTyped' /\ hist' \in HistoryType
<1>1. ota \in OtaType /\ hist \in HistoryType /\ UNCHANGED <<q, nexts>>
  BY DEF ResponseFailed, Typed, OtaTyped, RestTyped
<1>2. QueueTyped' /\ NextsTyped'
  BY <1>1 DEF Typed, QueueTyped, Misfits, NextsTyped
<1>3. hist' \in HistoryType
  BY <1>1, HistoryTypes DEF ResponseFailed
<1>4. OtaTyped'
  <2>1. CASE ota.state = "VERIFICATION"
    <3>1. ota' = [ota EXCEPT !.state = "ABORTED"] /\ ota.gatt # 0
      BY <2>1 DEF ResponseFailed, Typed, OtaTyped
    <3>2. ota' \in OtaType /\ ota'.gatt = ota.gatt
      BY <1>1, <3>1, OtaForms DEF States, OtaType
    <3> QED
      BY <3>1, <3>2 DEF Typed, OtaTyped
  <2>2. CASE ota' = ota
    BY <2>2 DEF Typed, OtaTyped
  <2> QED
    BY <2>1, <2>2 DEF ResponseFailed
<1> QED
  BY <1>2, <1>3, <1>4

LEMMA ChangedTypes ==
    ASSUME Typed, Unasked, NEW g \in 1 .. Len(gatts), OnOtaCharacteristicChanged(g) PROVE Typed'
<1>0. ota.gatt # 0
  BY ThreadsSoFar DEF OnOtaCharacteristicChanged, Unasked
<1>1. QueueTyped' /\ NextsTyped' /\ OtaTyped' /\ hist' \in HistoryType
  BY <1>0, ResponseOkTypes, ResponseFailedTypes DEF OnOtaCharacteristicChanged
<1>2. GattsTyped'
  BY DEF OnOtaCharacteristicChanged, Typed, GattsTyped, OpFits
<1>3. air' \in [Q!Threads -> Seq({"ok", "failed"})]
  <2>1. air \in [Q!Threads -> Seq({"ok", "failed"})] /\ g \in Q!Threads
    BY ThreadsSoFar DEF Typed, RestTyped
  <2>2. Tail(air[g]) \in Seq({"ok", "failed"})
    BY <2>1, HeadTailProperties DEF OnOtaCharacteristicChanged
  <2> QED
    BY <2>1, <2>2 DEF OnOtaCharacteristicChanged
<1> QED
  BY <1>1, <1>2, <1>3 DEF OnOtaCharacteristicChanged, Typed, RestTyped

LEMMA OtaRequest ==
    ASSUME Typed, NEW op \in Known, NEW x \in Nat
    PROVE  /\ Ota(op, x) \in Q!Requests /\ Ota(op, x).gatt = ota.gatt
           /\ Ota(op, x).op = op /\ Ota(op, x).x = x /\ ~Ota(op, x).done
<1>1. ota.gatt \in Nat
  BY DEF Typed, OtaTyped, OtaType
<1> QED
  BY <1>1 DEF Ota, Q!Req, Q!Requests, Known

\* What processCharacteristicWrite adds to the queue, and what it makes of
\* the upgrade.
LEMMA ProceedsForms ==
    ASSUME Typed, NEW g \in 1 .. Len(gatts), Proceeds(g)
    PROVE  \/ /\ AllSent(ota) /\ ota' = [ota EXCEPT !.state = "VERIFICATION"]
              /\ q' = [q EXCEPT !.reqs = @ \o <<Ota("verify", 0)>>, !.running = TRUE]
           \/ /\ ~AllSent(ota) /\ ota.inTransfer /\ ota.offset < Chunks /\ ota.state # "ABORTED"
              /\ ota' = Chunk(ota)
              /\ q' = [q EXCEPT !.reqs = @ \o <<Ota("data", ota.offset + 1)>>, !.running = TRUE]
           \/ /\ ota.inTransfer /\ ota.state = "ABORTED" /\ ota' = ota
              /\ q' = [q EXCEPT !.reqs = @ \o <<Ota("abort", 0)>>, !.running = TRUE]
           \/ /\ ~AllSent(ota)
              /\ ~(ota.inTransfer /\ (ota.state = "ABORTED" \/ ota.offset < Chunks))
              /\ ota' = ota /\ q' = q
<1> DEFINE o == IF AllSent(ota) THEN [ota EXCEPT !.state = "VERIFICATION"] ELSE ota
           verify == IF AllSent(ota) THEN <<Ota("verify", 0)>> ELSE <<>>
           more == o.inTransfer /\ o.offset < Chunks /\ o.state # "ABORTED"
           data == IF more THEN <<Ota("data", o.offset + 1)>> ELSE <<>>
           abort == IF o.inTransfer /\ o.state = "ABORTED" THEN <<Ota("abort", 0)>> ELSE <<>>
           rs == verify \o data \o abort
<1>1. /\ ota' = IF more THEN Chunk(o) ELSE o
      /\ q' = IF rs = <<>> THEN q ELSE [q EXCEPT !.reqs = @ \o rs, !.running = TRUE]
  BY DEF Proceeds
<1>2. ota \in OtaType /\ ota.gatt \in Nat /\ ota.offset \in Nat /\ Chunks \in Nat /\ ota.offset =< Chunks
  BY Numbers DEF Typed, OtaTyped, OtaType
<1>3. /\ Ota("verify", 0) \in Q!Requests /\ Ota("abort", 0) \in Q!Requests
      /\ Ota("data", ota.offset + 1) \in Q!Requests
  <2>1. {"verify", "abort", "data"} \subseteq Known /\ 0 \in Nat /\ ota.offset + 1 \in Nat
    BY <1>2 DEF Known
  <2> QED
    BY <2>1, OtaRequest
<1>4. \A r \in Q!Requests : /\ <<r>> \in Seq(Q!Requests) /\ <<r>> # <<>>
                            /\ <<r>> \o <<>> = <<r>> /\ <<>> \o <<r>> = <<r>>
  <2> SUFFICES ASSUME NEW r \in Q!Requests
               PROVE  /\ <<r>> \in Seq(Q!Requests) /\ <<r>> # <<>>
                      /\ <<r>> \o <<>> = <<r>> /\ <<>> \o <<r>> = <<r>>
    OBVIOUS
  <2>1. <<r>> \in Seq(Q!Requests) /\ <<r>> # <<>>
    BY SomeOne
  <2> QED
    BY <2>1, ConcatEmptySeq
<1>5. <<>> \o <<>> = <<>>
  BY EmptySeq, ConcatEmptySeq
<1>6. CASE AllSent(ota)
  <2>1. o = [ota EXCEPT !.state = "VERIFICATION"] /\ ota.state = "DATA" /\ ota.offset = Chunks
    BY <1>6 DEF AllSent
  <2>2. o.offset = Chunks /\ o.state = "VERIFICATION"
    BY <1>2, <2>1 DEF OtaType
  <2>3. verify = <<Ota("verify", 0)>> /\ ~more /\ data = <<>> /\ abort = <<>>
    BY <1>2, <1>6, <2>2
  <2>4. rs = <<Ota("verify", 0)>> /\ rs # <<>>
    BY <1>3, <1>4, <2>3
  <2> HIDE DEF rs, more, o
  <2> QED
    BY <1>1, <1>6, <2>1, <2>3, <2>4
<1>7. CASE ~AllSent(ota)
  <2>1. o = ota /\ verify = <<>>
    BY <1>7
  <2>2. CASE ota.inTransfer /\ ota.offset < Chunks /\ ota.state # "ABORTED"
    <3>1. more /\ data = <<Ota("data", ota.offset + 1)>> /\ abort = <<>>
      BY <2>1, <2>2
    <3>2. rs = <<Ota("data", ota.offset + 1)>> /\ rs # <<>>
      BY <1>3, <1>4, <2>1, <3>1
    <3> HIDE DEF rs, more, o
    <3> QED
      BY <1>1, <1>7, <2>1, <2>2, <3>1, <3>2
  <2>3. CASE ota.inTransfer /\ ota.state = "ABORTED"
    <3>1. ~more /\ data = <<>> /\ abort = <<Ota("abort", 0)>>
      BY <2>1, <2>3
    <3>2. rs = <<Ota("abort", 0)>> /\ rs # <<>>
      BY <1>3, <1>4, <1>5, <2>1, <3>1
    <3> HIDE DEF rs, more, o
    <3> QED
      BY <1>1, <1>7, <2>1, <2>3, <3>1, <3>2
  <2>4. CASE ~(ota.inTransfer /\ (ota.state = "ABORTED" \/ ota.offset < Chunks))
    <3>1. ~more /\ data = <<>> /\ abort = <<>>
      BY <2>1, <2>4
    <3>2. rs = <<>>
      BY <1>5, <2>1, <3>1
    <3> HIDE DEF rs, more, o
    <3> QED
      BY <1>1, <1>7, <2>1, <2>4, <3>1, <3>2
  <2> QED
    BY <2>2, <2>3, <2>4
<1> QED
  BY <1>6, <1>7

\* Android has no request of the connection any more.
LEMMA CompletesTypes ==
    ASSUME Typed, NEW g \in 1 .. Len(gatts), NEW ok, Q!Completes(g, ok)
    PROVE  GattsTyped' /\ Len(gatts') = Len(gatts)
<1>1. gatts' = [gatts EXCEPT ![g] = [gatts[g] EXCEPT !.op = Q!NoOp]]
  BY GattForms DEF Q!Completes
<1> QED
  BY <1>1, NoOpType, OpTypes DEF Q!Completes

LEMMA CountTypes ==
    ASSUME Typed, NEW g \in 1 .. Len(gatts), NEW n \in Nat, nexts' = [nexts EXCEPT ![g] = @ + n],
           Len(gatts') = Len(gatts)
    PROVE  NextsTyped'
<1>1. nexts[g] + n \in Nat /\ g \in 0 .. Len(gatts)
  BY ThreadsSoFar DEF Typed, NextsTyped
<1> QED
  BY <1>1, NextsTypes

LEMMA ProceedsTypes ==
    ASSUME Typed, NEW g \in 1 .. Len(gatts), Q!Completes(g, TRUE), Proceeds(g), UNCHANGED ui
    PROVE  QueueTyped' /\ GattsTyped' /\ NextsTyped' /\ OtaTyped' /\ hist' \in HistoryType
<1>1. GattsTyped' /\ Len(gatts') = Len(gatts)
  BY CompletesTypes
<1>2. hist' \in HistoryType
  BY HistoryTypes DEF Proceeds, Result, Typed, RestTyped
<1>3. NextsTyped'
  <2>1. \E n \in {1, 2} : nexts' = [nexts EXCEPT ![g] = @ + n]
    <3> DEFINE A(rs) == IF rs # <<>> /\ ~q.running THEN 1 ELSE 0
    <3>1. PICK rs : nexts' = [nexts EXCEPT ![g] = @ + 1 + A(rs)]
      BY DEF Proceeds
    <3>2. A(rs) \in {0, 1}
      OBVIOUS
    <3>3. nexts[g] \in Nat
      BY ThreadsSoFar DEF Typed, NextsTyped
    <3> HIDE DEF A
    <3>4. nexts[g] + 1 + A(rs) = nexts[g] + (1 + A(rs)) /\ 1 + A(rs) \in {1, 2}
      BY <3>2, <3>3
    <3> QED
      BY <3>1, <3>4
  <2> QED
    BY <1>1, <2>1, CountTypes
<1>4. ota \in OtaType /\ ota.gatt \in 0 .. Len(gatts) /\ ota.offset \in Nat
  BY DEF Typed, OtaTyped, OtaType
<1>5. ASSUME NEW op \in Known, NEW x \in Nat, ota.gatt # 0,
             q' = [q EXCEPT !.reqs = @ \o <<Ota(op, x)>>, !.running = TRUE]
      PROVE  QueueTyped'
  <2> DEFINE r == Ota(op, x)
  <2>1. r \in Q!Requests /\ r.gatt = ota.gatt /\ r.op = op
    BY OtaRequest
  <2>2. r \notin Misfits(Len(gatts))
    BY <1>4, <1>5, <2>1 DEF Misfits, Known
  <2> HIDE DEF r
  <2>3. <<r>> \in Seq(Q!Requests) /\ ~Some(<<r>>, Misfits(Len(gatts)))
    BY <2>1, <2>2, SomeOne
  <2> QED
    BY <1>1, <1>5, <2>3, AddTypes DEF r
<1>6. ota.gatt = 0 => ota.state \in {"IDLE", "WAIT"} /\ ~ota.inTransfer
  BY DEF Typed, OtaTyped
<1>7. ASSUME ota' \in OtaType, ota'.gatt = ota.gatt, ota.gatt # 0 PROVE OtaTyped'
  BY <1>1, <1>4, <1>7 DEF Typed, OtaTyped
<1>8. QueueTyped' /\ OtaTyped'
  <2>1. CASE AllSent(ota) /\ ota' = [ota EXCEPT !.state = "VERIFICATION"]
             /\ q' = [q EXCEPT !.reqs = @ \o <<Ota("verify", 0)>>, !.running = TRUE]
    <3>1. ota.gatt # 0
      BY <1>6, <2>1 DEF AllSent
    <3>2. QueueTyped'
      BY <1>5, <2>1, <3>1 DEF Known
    <3>3. ota' \in OtaType /\ ota'.gatt = ota.gatt
      BY <1>4, <2>1, OtaForms DEF States, OtaType
    <3> QED
      BY <1>7, <3>1, <3>2, <3>3
  <2>2. CASE ota.inTransfer /\ ota.offset < Chunks /\ ota' = Chunk(ota)
             /\ q' = [q EXCEPT !.reqs = @ \o <<Ota("data", ota.offset + 1)>>, !.running = TRUE]
    <3>1. ota.gatt # 0 /\ ota.offset + 1 \in Nat
      BY <1>4, <1>6, <2>2
    <3>2. QueueTyped'
      BY <1>5, <2>2, <3>1 DEF Known
    <3>3. ota' \in OtaType /\ ota'.gatt = ota.gatt
      BY <1>4, <2>2, ChunkType
    <3> QED
      BY <1>7, <3>1, <3>2, <3>3
  <2>3. CASE ota.inTransfer /\ ota' = ota
             /\ q' = [q EXCEPT !.reqs = @ \o <<Ota("abort", 0)>>, !.running = TRUE]
    <3>1. ota.gatt # 0
      BY <1>6, <2>3
    <3>2. QueueTyped'
      BY <1>5, <2>3, <3>1 DEF Known
    <3> QED
      BY <1>4, <1>7, <2>3, <3>1, <3>2
  <2>4. CASE ota' = ota /\ q' = q
    BY <1>1, <2>4 DEF Typed, QueueTyped, Misfits, OtaTyped
  <2> QED
    BY <2>1, <2>2, <2>3, <2>4, ProceedsForms
<1> QED
  BY <1>1, <1>2, <1>3, <1>8

LEMMA WriteTypes ==
    ASSUME Typed, NEW g \in 1 .. Len(gatts), OnOtaCharacteristicWrite(g) \/ OnOtherWrite(g)
    PROVE  Typed'
<1>1. RestTyped <=> /\ dev \in DeviceType
                    /\ air \in [Q!Threads -> Seq({"ok", "failed"})]
                    /\ hist \in HistoryType
  BY DEF RestTyped
<1>2. ASSUME NEW ok, Q!Completes(g, ok), Q!AsksNext(g), hist' \in {hist, Hurt(hist)},
             UNCHANGED <<ota, ui, dev, air>>
      PROVE  Typed'
  <2>1. GattsTyped' /\ Len(gatts') = Len(gatts)
    BY <1>2, CompletesTypes
  <2>2. NextsTyped'
    BY <1>2, <2>1, CountTypes DEF Q!AsksNext
  <2>3. RestTyped'
    BY <1>2, HistoryTypes DEF Typed, RestTyped
  <2> QED
    BY <1>2, <2>1, <2>2, <2>3 DEF Q!AsksNext, Typed, QueueTyped, Misfits, OtaTyped
<1>3. CASE OnOtaCharacteristicWrite(g)
  <2>1. CASE Q!Completes(g, TRUE) /\ Proceeds(g)
    <3>1. UNCHANGED <<ui, dev, air>>
      BY <1>3 DEF OnOtaCharacteristicWrite
    <3> QED
      BY <2>1, <3>1, ProceedsTypes DEF Typed, RestTyped
  <2>2. CASE Q!Completes(g, FALSE) /\ Q!AsksNext(g) /\ hist' = Hurt(hist) /\ UNCHANGED ota
    BY <1>2, <1>3, <2>2 DEF OnOtaCharacteristicWrite
  <2> QED
    BY <1>3, <2>1, <2>2 DEF OnOtaCharacteristicWrite
<1>4. CASE OnOtherWrite(g)
  BY <1>2, <1>4 DEF OnOtherWrite, Q!OnOtherWrite
<1> QED
  BY <1>3, <1>4

-----------------------------------------------------------------------------
(* Type correctness                                                        *)

LEMMA TypeInit == Init => Typed
<1> SUFFICES ASSUME Init PROVE Typed
  OBVIOUS
<1>1. gatts = <<>> /\ Len(gatts) = 0 /\ mGatt = 0
  BY DEF Init, Q!Init
<1>2. QueueTyped
  BY SomeEmpty, EmptySeq DEF Init, Q!Init, QueueTyped
<1>3. GattsTyped
  <2>1. gatts \in Seq(GattType)
    BY <1>1, EmptySeq
  <2> QED
    BY <1>1, <2>1, Numbers DEF Init, Q!Init, GattsTyped
<1>4. NextsTyped
  BY DEF Init, Q!Init, NextsTyped
<1>5. OtaTyped
  BY <1>1, Numbers DEF Init, OtaTyped, OtaType, States
<1>6. RestTyped
  <2>1. NoImage \in DeviceType
    BY Numbers, EmptySeq DEF NoImage, DeviceType
  <2>2. <<>> \in Seq({"ok", "failed"}) /\ <<>> \in Seq({"completed", "aborted", "not found"})
    BY EmptySeq
  <2> QED
    BY <2>1, <2>2, Numbers DEF Init, RestTyped, HistoryType
<1> QED
  BY <1>2, <1>3, <1>4, <1>5, <1>6 DEF Typed

LEMMA TypeStep == Typed /\ Aside /\ [Next]_vars => Typed'
<1> SUFFICES ASSUME Typed, Aside, [Next]_vars PROVE Typed'
  OBVIOUS
<1>1. CASE User \/ MainThread
  BY <1>1, StartTypes, StopTypes, StartedTypes, StoppedTypes, ConnectGattTypes
     DEF User, MainThread, Connecting, Aside
<1>2. CASE Nexts
  BY <1>2, RunNextTypes DEF Nexts
<1>3. CASE Device
  BY <1>3, DeviceTakesTypes DEF Device
<1>4. CASE Library /\ UNCHANGED otaVars
  BY <1>4, LibraryTypes
<1>5. CASE Q!Disconnect /\ hist' = Hurt(hist) /\ UNCHANGED <<ota, ui, dev, air>>
  BY <1>5, DisconnectTypes
<1>6. CASE \E g \in 1 .. Len(gatts) : Callback(g) \/ Ends(g) \/ Lost(g)
  BY <1>6, ChangedTypes, WriteTypes, LinkTypes, ConnectionTypes DEF Callback, MeshSubscribed, Aside
<1>7. CASE UNCHANGED vars
  BY <1>7 DEF vars, queueVars, otaVars, Typed, QueueTyped, Misfits, GattsTyped, OpFits,
              NextsTyped, OtaTyped, RestTyped
<1> QED
  BY <1>1, <1>2, <1>3, <1>4, <1>5, <1>6, <1>7 DEF Next

-----------------------------------------------------------------------------
(* What every step leaves as it is                                         *)

\* The record c of a connection that was d: Android's request is as it was,
\* none of the queue, or the next of the queue; a link comes up with services.
Follows(c, d) ==
    /\ \/ c.op.op = d.op.op \/ c.op.op \in {"none", "cccd"}
       \/ q.reqs # <<>> /\ c.op = Head(q.reqs)
    /\ c.state = "up" => c.services \/ (d.state = "up" /\ c.services = d.services)

OneFollows == \E g \in 1 .. Len(gatts) : \E c \in GattType :
                 gatts' = [gatts EXCEPT ![g] = c] /\ Follows(c, gatts[g])

LEMMA FollowsState ==
    ASSUME Typed, NEW g \in 1 .. Len(gatts), NEW s \in {"leaving", "lost"},
           gatts' = [gatts EXCEPT ![g].state = s]
    PROVE  OneFollows
<1> DEFINE c == [gatts[g] EXCEPT !.state = s]
<1>1. gatts' = [gatts EXCEPT ![g] = c]
  BY GattForms
<1>2. c \in GattType /\ c.op = gatts[g].op /\ c.state = s
  BY GattForms DEF GattType
<1> HIDE DEF c
<1> QED
  BY <1>1, <1>2 DEF OneFollows, Follows

LEMMA FollowsOp ==
    ASSUME Typed, NEW g \in 1 .. Len(gatts), NEW r \in Q!Requests,
           gatts' = [gatts EXCEPT ![g].op = r],
           r = Q!NoOp \/ r.op = gatts[g].op.op \/ (q.reqs # <<>> /\ r = Head(q.reqs))
    PROVE  OneFollows
<1> DEFINE c == [gatts[g] EXCEPT !.op = r]
<1>1. gatts' = [gatts EXCEPT ![g] = c]
  BY GattForms
<1>2. c \in GattType /\ c.op = r /\ c.state = gatts[g].state /\ c.services = gatts[g].services
  BY GattForms DEF GattType
<1> HIDE DEF c
<1> QED
  BY <1>1, <1>2, NoOpType DEF OneFollows, Follows

LEMMA FollowsClosed ==
    ASSUME Typed, NEW g \in 1 .. Len(gatts), gatts' = [gatts EXCEPT ![g] = Q!Closed(g)]
    PROVE  OneFollows
  BY ClosedType, NoOpType DEF OneFollows, Follows

LEMMA GattsStep ==
    ASSUME Typed, [Next]_vars PROVE UNCHANGED gatts \/ OneFollows \/ Q!ConnectGatt
<1>1. CASE Start \/ Stop \/ Started \/ Stopped \/ UNCHANGED vars
  BY <1>1 DEF Start, Stop, Started, Stopped, vars, queueVars
<1>2. ASSUME NEW t \in Q!Threads, Q!RunNext(t) PROVE UNCHANGED gatts \/ OneFollows
  <2>1. CASE Q!Empties
    BY <2>1 DEF Q!Empties
  <2>2. CASE Q!Issues
    BY <2>2, HeadFits, FollowsOp DEF Q!Issues
  <2>3. CASE Q!Refused
    BY <2>3, HeadFits, FollowsState DEF Q!Refused
  <2> QED
    BY <1>2, <2>1, <2>2, <2>3 DEF Q!RunNext
<1>3. ASSUME NEW g \in 1 .. Len(gatts), DeviceTakes(g) PROVE OneFollows
  <2> DEFINE d == [gatts[g].op EXCEPT !.done = TRUE]
  <2>1. d \in Q!Requests /\ d.op = gatts[g].op.op
    BY GattForms DEF GattType, Q!Requests
  <2>2. gatts' = [gatts EXCEPT ![g].op = d]
    BY <1>3, GattForms DEF DeviceTakes
  <2> HIDE DEF d
  <2> QED
    BY <2>1, <2>2, FollowsOp
<1>4. CASE Q!Connect
  <2>1. mGatt # 0 => mGatt \in 1 .. Len(gatts)
    BY DEF Typed, GattsTyped
  <2> QED
    BY <1>4, <2>1, FollowsClosed DEF Q!Connect
<1>5. ASSUME NEW g \in 1 .. Len(gatts), Q!DeviceConnected(g) PROVE OneFollows
  <2>1. gatts' = [gatts EXCEPT ![g] = FoundConnection(g)]
    BY <1>5 DEF Q!DeviceConnected, FoundConnection
  <2>2. FoundConnection(g) \in GattType /\ Follows(FoundConnection(g), gatts[g])
    BY FoundForms DEF Follows
  <2> QED
    BY <2>1, <2>2 DEF OneFollows
<1>6. CASE Q!SendProxyPacket
  BY <1>6 DEF Q!SendProxyPacket
<1>7. CASE Q!Disconnect
  <2> DEFINE s == IF gatts[mGatt].state = "lost" THEN "lost" ELSE "leaving"
  <2>1. mGatt \in 1 .. Len(gatts) /\ gatts' = [gatts EXCEPT ![mGatt].state = s]
    BY <1>7 DEF Q!Disconnect, Typed, GattsTyped
  <2>2. s \in {"lost", "leaving"}
    OBVIOUS
  <2> HIDE DEF s
  <2> QED
    BY <2>1, <2>2, FollowsState
<1>8. ASSUME NEW g \in 1 .. Len(gatts), Callback(g) \/ Ends(g) \/ Lost(g) PROVE UNCHANGED gatts \/ OneFollows
  <2>1. CASE OnOtaCharacteristicChanged(g)
    BY <2>1 DEF OnOtaCharacteristicChanged
  <2>2. CASE OnOtaCharacteristicWrite(g) \/ OnOtherWrite(g) \/ MeshSubscribed(g)
    BY <2>2, NoOpType, FollowsOp
       DEF OnOtaCharacteristicWrite, OnOtherWrite, Q!OnOtherWrite, Q!Completes, MeshSubscribed,
           Q!OnMeshDescriptorWrite
  <2>3. CASE Ends(g)
    BY <2>3, FollowsClosed DEF Ends, Q!OnDisconnected
  <2>4. CASE Lost(g)
    BY <2>4, FollowsState DEF Lost, Q!LinkLost
  <2> QED
    BY <1>8, <2>1, <2>2, <2>3, <2>4 DEF Callback
<1> QED
  BY <1>1, <1>2, <1>3, <1>4, <1>5, <1>6, <1>7, <1>8
     DEF Next, User, MainThread, Connecting, Nexts, Device, Library, Connections

\* What follows for each connection.
LEMMA GattsFollow ==
    ASSUME Typed, [Next]_vars
    PROVE  \A h \in 1 .. Len(gatts') :
              (h \in 1 .. Len(gatts) /\ Follows(gatts'[h], gatts[h])) \/ gatts'[h] = Q!NewConnection
<1>1. CASE UNCHANGED gatts
  BY <1>1 DEF Follows
<1>2. CASE OneFollows
  <2>1. PICK g \in 1 .. Len(gatts), c \in GattType :
           gatts' = [gatts EXCEPT ![g] = c] /\ Follows(c, gatts[g])
    BY <1>2 DEF OneFollows
  <2>2. gatts \in Seq(GattType)
    BY DEF Typed, GattsTyped
  <2>3. /\ Len(gatts') = Len(gatts)
        /\ \A h \in 1 .. Len(gatts) : gatts'[h] = IF h = g THEN c ELSE gatts[h]
    BY <2>1, <2>2, ExceptSeq
  <2> QED
    BY <2>1, <2>3 DEF Follows
<1>3. CASE Q!ConnectGatt
  BY <1>3, ConnectedGatts DEF Follows
<1> QED
  BY <1>1, <1>2, <1>3, GattsStep

LEMMA ServedStep == ASSUME Typed, Served, [Next]_vars PROVE Served'
<1>1. Q!NewConnection.state = "connecting"
  BY DEF Q!NewConnection
<1> QED
  BY <1>1, GattsFollow DEF Served, Follows

LEMMA ClearingStep == ASSUME Typed, Typed', Clearing, [Next]_vars PROVE Clearing'
<1>1. CASE Q!Connect
  <2>1. mGatt # 0 => mGatt \in 1 .. Len(gatts)
    BY DEF Typed, GattsTyped
  <2>2. Len(gatts') = Len(gatts)
    <3>1. CASE mGatt = 0
      BY <1>1, <3>1 DEF Q!Connect
    <3>2. CASE mGatt # 0
      BY <1>1, <2>1, <3>2, ClosedType, GattSet, NoOpType DEF Q!Connect
    <3> QED
      BY <3>1, <3>2
  <2> QED
    BY <1>1, <2>2 DEF Q!Connect, Q!AppIdle, Clearing
<1>2. CASE Q!ConnectGatt
  BY <1>2 DEF Q!ConnectGatt, Q!ClearedRunning, Typed, QueueTyped, Clearing
<1>3. CASE ~Q!Connect /\ ~Q!ConnectGatt
  <2>1. Len(gatts') = Len(gatts)
    <3>1. ASSUME OneFollows PROVE Len(gatts') = Len(gatts)
      BY <3>1, ExceptSeq DEF OneFollows, Typed, GattsTyped
    <3> QED
      BY <1>3, <3>1, GattsStep
  <2>2. q \in [reqs : Seq(Q!Requests), running : BOOLEAN, clearing : BOOLEAN]
        /\ nexts \in [Q!Threads -> Nat] /\ nexts' \in [Q!Threads -> Nat] /\ Q!App \in Q!Threads
        /\ Q!App = 0
    BY Numbers DEF Typed, QueueTyped, NextsTyped
  <2> SUFFICES ASSUME q'.clearing PROVE nexts'[Q!App] = 0 /\ q.clearing
    BY <2>1 DEF Clearing
  <2>3. ASSUME NEW t \in Q!Threads, NEW rs, Q!Added(t, rs), t = Q!App => ~q.clearing
        PROVE  nexts'[Q!App] = 0 /\ q.clearing
    <3>1. q'.clearing = q.clearing
      BY <2>2, <2>3 DEF Q!Added
    <3>2. t # Q!App /\ nexts'[Q!App] = nexts[Q!App]
      BY <2>2, <2>3, <3>1 DEF Q!Added
    <3> QED
      BY <3>1, <3>2 DEF Clearing
  <2>4. CASE Start \/ Stopped
    <3>1. Q!App \in Q!Threads /\ ~q.clearing /\ \E rs : Q!Added(Q!App, rs)
      BY <2>2, <2>4 DEF Start, Stopped, Q!AppIdle
    <3> QED
      BY <2>3, <3>1
  <2>5. CASE UNCHANGED <<q, nexts>>
    BY <2>5 DEF Clearing
  <2>6. ASSUME NEW t \in Q!Threads, Q!RunNext(t) PROVE nexts'[Q!App] = 0 /\ q.clearing
    <3>1. q'.clearing = q.clearing
      BY <2>2, <2>6 DEF Q!RunNext, Q!Empties, Q!Issues, Q!Refused
    <3>2. nexts'[Q!App] =< nexts[Q!App]
      BY <2>2, <2>6 DEF Q!RunNext
    <3> QED
      BY <2>2, <3>1, <3>2 DEF Clearing
  <2>7. CASE Q!SendProxyPacket
    <3>1. PICK t \in {Q!App, mGatt} : (t = Q!App => Q!AppIdle) /\ \E rs : Q!Added(t, rs)
      BY <2>7 DEF Q!SendProxyPacket
    <3>2. t \in Q!Threads
      BY <2>2, <2>7, <3>1, ThreadsSoFar DEF Q!SendProxyPacket, Typed, GattsTyped
    <3> QED
      BY <2>3, <3>1, <3>2 DEF Q!AppIdle
  <2>8. ASSUME NEW g \in 1 .. Len(gatts), Callback(g) \/ Ends(g) \/ Lost(g)
        PROVE  nexts'[Q!App] = 0 /\ q.clearing
    <3>1. g \in Q!Threads /\ g # Q!App
      BY <2>2, ThreadsSoFar
    <3>2. ASSUME Q!AsksNext(g) PROVE nexts'[Q!App] = 0 /\ q.clearing
      BY <2>2, <3>1, <3>2 DEF Q!AsksNext, Clearing
    <3>3. CASE OnOtaCharacteristicChanged(g)
      <4>1. (\E rs : Q!Added(g, rs)) \/ UNCHANGED <<q, nexts>>
        BY <3>3 DEF OnOtaCharacteristicChanged, ResponseOk, ResponseFailed
      <4> QED
        BY <2>3, <2>5, <3>1, <4>1
    <3>4. ASSUME Proceeds(g) PROVE nexts'[Q!App] = 0 /\ q.clearing
      <4>1. \E n : nexts' = [nexts EXCEPT ![g] = n]
        BY <3>4 DEF Proceeds
      <4>2. nexts'[Q!App] = nexts[Q!App]
        BY <2>2, <3>1, <4>1
      <4>3. q' = q \/ \E rs : q' = [q EXCEPT !.reqs = @ \o rs, !.running = TRUE]
        BY <3>4 DEF Proceeds
      <4>4. q'.clearing = q.clearing
        BY <2>2, <4>3
      <4> QED
        BY <4>2, <4>4 DEF Clearing
    <3>5. CASE OnOtaCharacteristicWrite(g) \/ OnOtherWrite(g)
      BY <3>2, <3>4, <3>5 DEF OnOtaCharacteristicWrite, OnOtherWrite, Q!OnOtherWrite
    <3>6. CASE MeshSubscribed(g) \/ Ends(g) \/ Lost(g)
      BY <2>5, <3>6 DEF MeshSubscribed, Q!OnMeshDescriptorWrite, Ends, Lost, Q!OnDisconnected, Q!LinkLost
    <3> QED
      BY <2>8, <3>3, <3>5, <3>6 DEF Callback
  <2>9. CASE Device \/ Connections \/ Q!Disconnect \/ Started \/ Stop \/ UNCHANGED vars
    BY <2>5, <2>9 DEF Device, DeviceTakes, Connections, Q!DeviceConnected, Q!Disconnect, Started, Stop,
                      vars, queueVars
  <2> QED
    BY <1>3, <2>4, <2>6, <2>7, <2>8, <2>9
       DEF Next, User, MainThread, Connecting, Nexts, Library
<1> QED
  BY <1>1, <1>2, <1>3

\* Only start() gives the upgrade a connection.
LEMMA OtaKept ==
    ASSUME Typed, [Next]_vars, ~Start PROVE ota'.gatt = ota.gatt /\ ota'.made = ota.made
<1>1. ota \in OtaType
  BY DEF Typed, OtaTyped
<1>2. ASSUME NEW g \in 1 .. Len(gatts), OnOtaCharacteristicChanged(g)
      PROVE  ota'.gatt = ota.gatt /\ ota'.made = ota.made
  BY <1>1, <1>2 DEF OnOtaCharacteristicChanged, ResponseOk, ResponseFailed, Restarted, Chunk, OtaType
<1>3. ASSUME NEW g \in 1 .. Len(gatts), Proceeds(g)
      PROVE  ota'.gatt = ota.gatt /\ ota'.made = ota.made
  <2>1. \/ ota' = [ota EXCEPT !.state = "VERIFICATION"] \/ ota' = Chunk(ota) \/ ota' = ota
    BY <1>3, ProceedsForms
  <2> QED
    BY <1>1, <2>1 DEF Chunk, OtaType
<1>4. ASSUME NEW g \in 1 .. Len(gatts), Callback(g) \/ Ends(g) \/ Lost(g)
      PROVE  ota'.gatt = ota.gatt /\ ota'.made = ota.made
  BY <1>2, <1>3, <1>4 DEF Callback, OnOtaCharacteristicWrite, OnOtherWrite, MeshSubscribed, otaVars,
                          Ends, Lost, Forgets
<1>5. CASE Started \/ Stopped \/ Stop
  BY <1>1, <1>5 DEF Started, Stopped, Stop, OtaType
<1>6. CASE \/ Connecting \/ Nexts \/ Device \/ (Library /\ UNCHANGED otaVars)
           \/ UNCHANGED vars \/ UNCHANGED <<ota, ui, dev, air>>
  BY <1>6 DEF Connecting, Nexts, Device, DeviceTakes, vars, otaVars
<1> QED
  BY <1>4, <1>5, <1>6 DEF Next, User, MainThread

LEMMA UnaskedStep == ASSUME Typed, Typed', Unasked, [Next]_vars PROVE Unasked'
<1>1. ~ota'.made => ota'.gatt = 0
  <2>1. CASE Start
    BY <2>1 DEF Start, Typed, OtaTyped, OtaType
  <2> QED
    BY <2>1, OtaKept DEF Unasked
<1>2. ASSUME ota'.gatt = 0 PROVE ota.gatt = 0
  <2>1. CASE Start
    BY <1>2, <2>1 DEF Start, Typed, OtaTyped, OtaType, Unasked
  <2> QED
    BY <1>2, <2>1, OtaKept
<1> SUFFICES ASSUME ota'.gatt = 0, ota.gatt = 0
             PROVE  /\ dev'.sub = 0 /\ \A g \in Q!Threads : air'[g] = <<>>
                    /\ ~Some(q'.reqs, {r \in Q!Requests : r.op # "proxy"})
                    /\ \A g \in 1 .. Len(gatts') : gatts'[g].op.op \in {"none", "cccd", "proxy"}
  BY <1>1, <1>2 DEF Unasked
<1> DEFINE E == {r \in Q!Requests : r.op # "proxy"}
<1>3. /\ dev.sub = 0 /\ \A g \in Q!Threads : air[g] = <<>>
      /\ ~Some(q.reqs, E) /\ q.reqs \in Seq(Q!Requests)
      /\ \A g \in 1 .. Len(gatts) : gatts[g].op.op \in {"none", "cccd", "proxy"}
  BY DEF Unasked, Typed, QueueTyped
<1>4. ota.state \in {"IDLE", "WAIT"} /\ ~ota.inTransfer /\ ui # "stop"
  BY DEF Typed, OtaTyped
<1>5. \A g \in 1 .. Len(gatts') : gatts'[g].op.op \in {"none", "cccd", "proxy"}
  <2>1. q.reqs # <<>> => Head(q.reqs).op = "proxy"
    BY <1>3, HeadFits, SomeTail
  <2>2. Q!NewConnection.op.op = "none"
    BY NoOpType DEF Q!NewConnection
  <2> QED
    BY <1>3, <2>1, <2>2, GattsFollow DEF Follows
<1>6. /\ ~Stop /\ ~Stopped
      /\ \A g \in 1 .. Len(gatts) : ~OnOtaCharacteristicChanged(g) /\ ~OnOtaCharacteristicWrite(g)
  <2>1. \A g \in 1 .. Len(gatts) : g \in Q!Threads
    BY ThreadsSoFar
  <2> QED
    BY <1>3, <1>4, <2>1 DEF Stop, Stopped, OnOtaCharacteristicChanged, OnOtaCharacteristicWrite,
                            OtaWrites, Commands
<1>7. dev'.sub = 0 /\ \A g \in Q!Threads : air'[g] = <<>>
  <2>1. ASSUME NEW g \in 1 .. Len(gatts), DeviceTakes(g) PROVE dev' = dev /\ air' = air
    <3>1. gatts[g].op.op = "proxy"
      BY <1>3, <2>1 DEF DeviceTakes
    <3> QED
      BY <2>1, <3>1 DEF DeviceTakes, DeviceAfter, Commands, OtaWrites
  <2>2. ASSUME NEW g \in 1 .. Len(gatts), Forgets(g)
        PROVE  dev'.sub = 0 /\ \A h \in Q!Threads : air'[h] = <<>>
    BY <1>3, <2>2 DEF Forgets, Typed, RestTyped, NoImage
  <2>3. CASE UNCHANGED <<dev, air>>
    BY <1>3, <2>3
  <2>4. ASSUME NEW g \in 1 .. Len(gatts), Callback(g) \/ Ends(g) \/ Lost(g)
        PROVE  UNCHANGED <<dev, air>> \/ Forgets(g)
    BY <1>6, <2>4 DEF Callback, OnOtherWrite, MeshSubscribed, otaVars, Ends, Lost
  <2>5. CASE \E g \in 1 .. Len(gatts) : Callback(g) \/ Ends(g) \/ Lost(g)
    BY <2>2, <2>3, <2>4, <2>5
  <2>6. CASE Device
    BY <2>1, <2>3, <2>6 DEF Device
  <2>7. CASE ~Device /\ ~(\E g \in 1 .. Len(gatts) : Callback(g) \/ Ends(g) \/ Lost(g))
    <3>1. UNCHANGED <<dev, air>>
      BY <1>6, <2>7 DEF Next, User, MainThread, Connecting, Nexts, Start, Started, vars, otaVars
    <3> QED
      BY <2>3, <3>1
  <2> QED
    BY <2>5, <2>6, <2>7
<1>8. ~Some(q'.reqs, E)
  <2>1. CASE q'.reqs = q.reqs \/ q'.reqs = <<>>
    BY <1>3, <2>1, SomeEmpty
  <2>2. CASE q.reqs # <<>> /\ q'.reqs = Tail(q.reqs)
    BY <1>3, <2>2, SomeTail
  <2>3. CASE Q!SendProxyPacket
    <3> DEFINE r == Q!Req(mGatt, "proxy", 0)
               u == <<r>>
    <3>1. r \in Q!Requests /\ r \notin E
      <4>1. mGatt \in Nat
        BY LenProperties DEF Typed, GattsTyped
      <4> QED
        BY <4>1, RequestType DEF Known
    <3>2. q'.reqs = q.reqs \o u
      BY <2>3 DEF Q!SendProxyPacket, Q!Added, Typed, QueueTyped
    <3> HIDE DEF r
    <3>3. u \in Seq(Q!Requests) /\ ~Some(u, E)
      BY <3>1, SomeOne
    <3> HIDE DEF u
    <3> QED
      BY <1>3, <3>2, <3>3, SomeConcat
  <2>4. CASE Start
    <3>1. Q!Added(Q!App, <<>>)
      BY <2>4 DEF Start, Found, Typed, OtaTyped, OtaType
    <3> QED
      BY <1>3, <2>1, <3>1, ConcatEmptySeq DEF Q!Added, Typed, QueueTyped
  <2>5. CASE Connecting \/ Nexts \/ Device \/ Q!Connect \/ Connections \/ Q!Disconnect \/ Started
             \/ UNCHANGED vars
    <3>1. q'.reqs = q.reqs \/ q'.reqs = <<>> \/ (q.reqs # <<>> /\ q'.reqs = Tail(q.reqs))
      BY <2>5 DEF Connecting, Nexts, Device, Connections, Started, vars, queueVars, Q!ConnectGatt,
                  Q!ClearedRunning, Q!RunNext, Q!Empties, Q!Issues, Q!Refused, DeviceTakes, Q!Connect,
                  Q!Cleared, Q!DeviceConnected, Q!Disconnect, Typed, QueueTyped
    <3> QED
      BY <2>1, <2>2, <3>1
  <2>6. ASSUME NEW g \in 1 .. Len(gatts), Callback(g) \/ Ends(g) \/ Lost(g) PROVE q' = q
    BY <1>6, <2>6 DEF Callback, OnOtherWrite, Q!OnOtherWrite, Q!AsksNext, MeshSubscribed,
                      Q!OnMeshDescriptorWrite, Ends, Lost, Q!OnDisconnected, Q!LinkLost
  <2> QED
    BY <1>6, <2>1, <2>3, <2>4, <2>5, <2>6 DEF Next, User, MainThread, Library
<1> QED
  BY <1>5, <1>7, <1>8

LEMMA AsideStep == Typed /\ Typed' /\ Aside /\ [Next]_vars => Aside'
  BY UnaskedStep, ClearingStep, ServedStep DEF Aside

LEMMA AsideInit == Init => Aside
<1> SUFFICES ASSUME Init PROVE Aside
  OBVIOUS
<1>1. gatts = <<>> /\ Len(gatts) = 0 /\ q.reqs = <<>> /\ ~q.clearing
  BY DEF Init, Q!Init
<1> QED
  BY <1>1, SomeEmpty DEF Init, NoImage, Aside, Unasked, Clearing, Served

\* The type invariant, for every image, however often the user starts and the
\* library connects: a request in the queue is one of a connection that
\* exists, Android works for each connection on a request of its own, the
\* upgrade's connection exists or is null, and mPatchOffset never passes the
\* end of the image.
THEOREM TypeCorrect == Spec => []TypeOK
<1>1. Init => Typed /\ Aside
  BY TypeInit, AsideInit
<1>2. Typed /\ Aside /\ [Next]_vars => (Typed /\ Aside)'
  BY TypeStep, AsideStep
<1>3. Spec => [](Typed /\ Aside)
  BY <1>1, <1>2, PTL DEF Spec
<1> QED
  BY <1>3, TypedOK, PTL

-----------------------------------------------------------------------------
(* The queue                                                               *)

Busy(g) == IF gatts[g].op.op \in {"none", "cccd"} THEN 0 ELSE 1

\* The calls of next() that the application's thread and the one of the
\* connection in use are about to make, and the request of the queue that
\* Android works on for it: together one at most, and none while the queue is
\* idle.
Serial ==
    mGatt # 0 /\ ~seen.stale =>
        nexts[Q!App] + nexts[mGatt] + Busy(mGatt) =< (IF q.running THEN 1 ELSE 0)

LEMMA SerialNumbers ==
    ASSUME Typed, mGatt # 0
    PROVE  /\ mGatt \in 1 .. Len(gatts) /\ mGatt \in Q!Threads /\ Q!App \in Q!Threads
           /\ Q!App # mGatt
           /\ nexts[Q!App] \in Nat /\ nexts[mGatt] \in Nat /\ Busy(mGatt) \in {0, 1}
<1>1. mGatt \in 1 .. Len(gatts) /\ mGatt \in Q!Threads /\ Q!App \in Q!Threads /\ Q!App # mGatt
  BY ThreadsSoFar, Numbers, LenProperties DEF Typed, GattsTyped
<1> QED
  BY <1>1 DEF Typed, NextsTyped, Busy

\* Whoever adds requests, the sum is as before or the queue was idle.
LEMMA SerialAdded ==
    ASSUME Typed, Serial, NEW t \in Q!Threads, NEW rs, Q!Added(t, rs),
           UNCHANGED <<mGatt, gatts>>, seen'.stale = seen.stale
    PROVE  Serial'
<1> SUFFICES ASSUME mGatt # 0, ~seen.stale
             PROVE  nexts'[Q!App] + nexts'[mGatt] + Busy(mGatt)' =< (IF q'.running THEN 1 ELSE 0)
  BY DEF Serial
<1>1. q'.running = TRUE /\ Busy(mGatt)' = Busy(mGatt)
  BY DEF Q!Added, Busy
<1>2. nexts[Q!App] + nexts[mGatt] + Busy(mGatt) =< (IF q.running THEN 1 ELSE 0)
  BY DEF Serial
<1>3. CASE q.running
  <2>1. nexts'[Q!App] = nexts[Q!App] /\ nexts'[mGatt] = nexts[mGatt]
    BY <1>3, SerialNumbers DEF Q!Added, Typed, NextsTyped
  <2> QED
    BY <1>1, <1>2, <1>3, <2>1
<1>4. CASE ~q.running
  <2>1. nexts[Q!App] = 0 /\ nexts[mGatt] = 0 /\ Busy(mGatt) = 0
    BY <1>2, <1>4, SerialNumbers
  <2>2. nexts' = [nexts EXCEPT ![t] = nexts[t] + 1]
    BY <1>4 DEF Q!Added
  <2>3. /\ nexts'[Q!App] = IF t = Q!App THEN 1 ELSE 0
        /\ nexts'[mGatt] = IF t = mGatt THEN 1 ELSE 0
    BY <2>1, <2>2, SerialNumbers DEF Typed, NextsTyped
  <2> QED
    BY <1>1, <2>1, <2>3, SerialNumbers
<1> QED
  BY <1>3, <1>4

\* Nothing but the state of connections changes.
LEMMA SerialKeeps ==
    ASSUME Typed, Serial, UNCHANGED <<q, nexts>>, mGatt' \in {0, mGatt}, seen'.stale = seen.stale,
           mGatt # 0 => Busy(mGatt)' = Busy(mGatt)
    PROVE  Serial'
<1>1. CASE mGatt' = 0
  BY <1>1 DEF Serial
<1>2. CASE mGatt' = mGatt /\ mGatt # 0
  BY <1>2 DEF Serial, Busy
<1> QED
  BY <1>1, <1>2

\* next() is called by one who may, and by no one else.
LEMMA NextTaken ==
    ASSUME Typed, Serial, NEW t \in Q!Threads, Q!RunNext(t), mGatt # 0, ~seen'.stale
    PROVE  /\ q.running /\ Busy(mGatt) = 0
           /\ nexts'[Q!App] = 0 /\ nexts'[mGatt] = 0
<1>1. ~seen.stale /\ t \in {Q!App, mGatt}
  <2> DEFINE st == seen.stale \/ (t \notin {Q!App, mGatt} /\ mGatt # 0)
             rf == seen.refused \/ (Q!Refused /\ Q!Unnoticed(Head(q.reqs)))
  <2>1. seen' = [seen EXCEPT !.stale = st, !.refused = rf]
    BY DEF Q!RunNext
  <2> HIDE DEF st, rf
  <2>2. seen'.stale = st
    BY <2>1 DEF Typed, GattsTyped
  <2> QED
    BY <2>2 DEF st
<1>2. nexts[Q!App] + nexts[mGatt] + Busy(mGatt) =< (IF q.running THEN 1 ELSE 0)
  BY <1>1 DEF Serial
<1>3. nexts[t] > 0 /\ nexts' = [nexts EXCEPT ![t] = nexts[t] - 1]
  BY DEF Q!RunNext
<1>4. /\ nexts'[Q!App] = IF t = Q!App THEN nexts[Q!App] - 1 ELSE nexts[Q!App]
      /\ nexts'[mGatt] = IF t = mGatt THEN nexts[mGatt] - 1 ELSE nexts[mGatt]
  BY <1>3, SerialNumbers DEF Typed, NextsTyped
<1> QED
  BY <1>1, <1>2, <1>3, <1>4, SerialNumbers

LEMMA SerialRunNext ==
    ASSUME Typed, Typed', Serial, NEW t \in Q!Threads, Q!RunNext(t) PROVE Serial'
<1>1. mGatt' = mGatt
  BY DEF Q!RunNext
<1> SUFFICES ASSUME mGatt # 0, ~seen'.stale
             PROVE  nexts'[Q!App] + nexts'[mGatt] + Busy(mGatt)' =< (IF q'.running THEN 1 ELSE 0)
  BY <1>1 DEF Serial, Busy
<1>2. q.running /\ Busy(mGatt) = 0 /\ nexts'[Q!App] = 0 /\ nexts'[mGatt] = 0
  BY NextTaken
<1>3. Busy(mGatt)' \in {0, 1}
  BY DEF Busy
<1>4. CASE Q!Empties
  <2>1. Busy(mGatt)' = 0
    BY <1>1, <1>2, <1>4 DEF Q!Empties, Busy
  <2> QED
    BY <1>2, <2>1
<1>5. CASE Q!Issues \/ Q!Refused
  <2>1. q'.running = TRUE
    BY <1>2, <1>5 DEF Q!Issues, Q!Refused, Typed, QueueTyped
  <2> QED
    BY <1>2, <1>3, <2>1
<1> QED
  BY <1>4, <1>5 DEF Q!RunNext

\* What such a change leaves of the request that Android works on.
LEMMA StateKeepsOps ==
    ASSUME Typed, NEW g \in 1 .. Len(gatts), NEW s,
           gatts' = [gatts EXCEPT ![g].state = s]
    PROVE  Len(gatts') = Len(gatts) /\ \A h \in 1 .. Len(gatts) : gatts'[h].op = gatts[h].op
<1> DEFINE c == [gatts[g] EXCEPT !.state = s]
<1>1. gatts' = [gatts EXCEPT ![g] = c] /\ gatts[g] \in GattType
  BY GattForms
<1>2. c.op = gatts[g].op
  BY <1>1 DEF GattType
<1>3. gatts \in Seq(GattType)
  BY DEF Typed, GattsTyped
<1> HIDE DEF c
<1>4. /\ Len(gatts') = Len(gatts)
      /\ \A h \in 1 .. Len(gatts) : gatts'[h] = IF h = g THEN c ELSE gatts[h]
  <2>1. DOMAIN gatts = 1 .. Len(gatts) /\ Len(gatts) \in Nat
    BY <1>3, LenProperties
  <2> QED
    BY <1>1, <1>3, <2>1
<1> QED
  BY <1>2, <1>4

LEMMA OpChange ==
    ASSUME Typed, NEW g \in 1 .. Len(gatts), NEW r \in Q!Requests,
           gatts' = [gatts EXCEPT ![g] = [gatts[g] EXCEPT !.op = r]]
    PROVE  /\ Len(gatts') = Len(gatts)
           /\ \A h \in 1 .. Len(gatts) : gatts'[h].op = IF h = g THEN r ELSE gatts[h].op
<1> DEFINE c == [gatts[g] EXCEPT !.op = r]
<1>1. c \in GattType /\ c.op = r
  BY GattForms DEF GattType
<1>2. gatts' = [gatts EXCEPT ![g] = c] /\ gatts \in Seq(GattType)
  BY DEF Typed, GattsTyped
<1> HIDE DEF c
<1>3. /\ Len(gatts') = Len(gatts)
      /\ \A h \in 1 .. Len(gatts) : gatts'[h] = IF h = g THEN c ELSE gatts[h]
  BY <1>1, <1>2, ExceptSeq
<1> QED
  BY <1>1, <1>3

\* The end of a request asks for the next one.
LEMMA SerialCompletes ==
    ASSUME Typed, Serial, NEW g \in 1 .. Len(gatts), NEW ok, Q!Completes(g, ok),
           NEW n \in Nat, nexts' = [nexts EXCEPT ![g] = @ + 1 + n], q.running => n = 0,
           q.running => q'.running, q'.running \in BOOLEAN
    PROVE  Serial'
<1>1. mGatt' = mGatt /\ seen' = seen /\ gatts[g].op.op \notin {"none", "cccd"}
  BY DEF Q!Completes
<1> SUFFICES ASSUME mGatt # 0, ~seen.stale
             PROVE  nexts'[Q!App] + nexts'[mGatt] + Busy(mGatt)' =< (IF q'.running THEN 1 ELSE 0)
  BY <1>1 DEF Serial, Busy
<1>2. nexts[Q!App] + nexts[mGatt] + Busy(mGatt) =< (IF q.running THEN 1 ELSE 0)
  BY DEF Serial
<1>3. \A h \in 1 .. Len(gatts) : gatts'[h].op = IF h = g THEN Q!NoOp ELSE gatts[h].op
  <2>1. gatts' = [gatts EXCEPT ![g] = [gatts[g] EXCEPT !.op = Q!NoOp]]
    BY GattForms DEF Q!Completes
  <2> QED
    BY <2>1, NoOpType, OpChange
<1>4. Q!App # g /\ nexts'[Q!App] = nexts[Q!App]
  BY Numbers, SerialNumbers DEF Typed, NextsTyped
<1>5. CASE g = mGatt
  <2>1. Busy(mGatt) = 1 /\ Busy(mGatt)' = 0
    BY <1>1, <1>3, <1>5, NoOpType, SerialNumbers DEF Busy
  <2>2. q.running /\ nexts[Q!App] = 0 /\ nexts[mGatt] = 0
    BY <1>2, <2>1, SerialNumbers
  <2>3. nexts'[mGatt] = 1
    BY <1>5, <2>2, SerialNumbers DEF Typed, NextsTyped
  <2> QED
    BY <1>4, <2>1, <2>2, <2>3
<1>6. CASE g # mGatt
  <2>1. Busy(mGatt)' = Busy(mGatt)
    BY <1>1, <1>3, <1>6, SerialNumbers DEF Busy
  <2>2. nexts'[mGatt] = nexts[mGatt]
    BY <1>6, SerialNumbers DEF Typed, NextsTyped
  <2> QED
    BY <1>2, <1>4, <2>1, <2>2, SerialNumbers
<1> QED
  BY <1>5, <1>6

LEMMA SerialConnections ==
    ASSUME Typed, Typed', Serial, NEW g \in 1 .. Len(gatts),
           \/ Lost(g) \/ Ends(g) \/ MeshSubscribed(g) \/ DeviceTakes(g)
           \/ Q!DeviceConnected(g) \/ Q!Disconnect
    PROVE  Serial'
<1>1. CASE Lost(g)
  <2>1. Busy(mGatt)' = Busy(mGatt)
    BY <1>1, StateKeepsOps DEF Lost, Q!LinkLost, Busy
  <2> QED
    BY <1>1, <2>1, SerialKeeps DEF Lost, Q!LinkLost
<1>2. CASE Q!DeviceConnected(g)
  <2>1. gatts' = [gatts EXCEPT ![g] = FoundConnection(g)] /\ UNCHANGED <<q, mGatt, nexts, seen>>
    BY <1>2 DEF Q!DeviceConnected, FoundConnection
  <2>2. \A h \in 1 .. Len(gatts) :
           gatts'[h] = IF h = g THEN FoundConnection(g) ELSE gatts[h]
    BY <2>1, FoundForms, GattSet
  <2>3. FoundConnection(g).op.op = "cccd"
    BY FoundForms
  <2>4. CASE mGatt = g
    <3>1. Busy(mGatt)' = 0
      BY <2>1, <2>2, <2>3, <2>4 DEF Busy
    <3> QED
      BY <2>1, <2>4, <3>1, SerialNumbers DEF Serial
  <2>5. CASE mGatt # g
    <3>1. mGatt # 0 => Busy(mGatt)' = Busy(mGatt)
      BY <2>1, <2>2, <2>5, SerialNumbers DEF Busy
    <3> QED
      BY <2>1, <3>1, SerialKeeps
  <2> QED
    BY <2>4, <2>5
<1>3. CASE Ends(g) \/ Q!Disconnect
  BY <1>3 DEF Ends, Q!OnDisconnected, Q!Disconnect, Serial
<1>4. CASE DeviceTakes(g)
  <2> DEFINE d == [gatts[g].op EXCEPT !.done = TRUE]
  <2>1. UNCHANGED <<q, mGatt, nexts, seen>>
    BY <1>4 DEF DeviceTakes
  <2>2. d \in Q!Requests /\ d.op = gatts[g].op.op
    BY GattForms DEF GattType, Q!Requests
  <2>3. gatts' = [gatts EXCEPT ![g] = [gatts[g] EXCEPT !.op = d]]
    BY <1>4, GattForms DEF DeviceTakes
  <2> HIDE DEF d
  <2>4. \A h \in 1 .. Len(gatts) : gatts'[h].op = IF h = g THEN d ELSE gatts[h].op
    BY <2>2, <2>3, OpChange
  <2>5. mGatt # 0 => Busy(mGatt)' = Busy(mGatt)
    BY <2>1, <2>2, <2>4, SerialNumbers DEF Busy
  <2> QED
    BY <2>1, <2>5, SerialKeeps
<1>5. CASE MeshSubscribed(g)
  <2>1. UNCHANGED <<q, mGatt, nexts, seen>> /\ gatts[g].op.op = "cccd"
    BY <1>5 DEF MeshSubscribed, Q!OnMeshDescriptorWrite
  <2>2. gatts' = [gatts EXCEPT ![g] = [gatts[g] EXCEPT !.op = Q!NoOp]]
    BY <1>5, GattForms DEF MeshSubscribed, Q!OnMeshDescriptorWrite
  <2>3. \A h \in 1 .. Len(gatts) : gatts'[h].op = IF h = g THEN Q!NoOp ELSE gatts[h].op
    BY <2>2, NoOpType, OpChange
  <2>4. mGatt # 0 => Busy(mGatt)' = Busy(mGatt)
    BY <2>1, <2>3, NoOpType, SerialNumbers DEF Busy
  <2> QED
    BY <2>1, <2>4, SerialKeeps
<1> QED
  BY <1>1, <1>2, <1>3, <1>4, <1>5

\* The first half of clear() leaves the calls of next() and mIsRunning.
LEMMA SerialConnect == ASSUME Typed, Typed', Serial, Q!Connect PROVE Serial'
<1>1. mGatt' = mGatt /\ seen' = seen /\ nexts' = nexts /\ q'.running = q.running
  BY DEF Q!Connect, Q!Cleared, Typed, QueueTyped
<1>2. mGatt # 0 => Busy(mGatt)' = 0
  <2> SUFFICES ASSUME mGatt # 0 PROVE Busy(mGatt)' = 0
    OBVIOUS
  <2>1. mGatt \in 1 .. Len(gatts) /\ gatts' = [gatts EXCEPT ![mGatt] = Q!Closed(mGatt)]
    BY SerialNumbers DEF Q!Connect
  <2>2. gatts'[mGatt] = Q!Closed(mGatt)
    BY <2>1, ClosedType, GattSet
  <2> QED
    BY <1>1, <2>1, <2>2, ClosedType, NoOpType DEF Busy
<1> QED
  BY <1>1, <1>2, SerialNumbers DEF Serial

\* After the second half the thread of the new connection has not run, and
\* the application's has no other call to make.
LEMMA SerialConnectGatt ==
    ASSUME Typed, Typed', Clearing, Q!ConnectGatt PROVE Serial'
<1>1. nexts' = nexts /\ nexts[Q!App] = 0 /\ mGatt' = Len(gatts) + 1 /\ Len(gatts) < MaxConnects
  BY DEF Q!ConnectGatt, Clearing
<1>2. Len(gatts) \in Nat /\ gatts'[Len(gatts) + 1].op = Q!NoOp
  BY ConnectedGatts
<1>3. mGatt' \in Q!Threads /\ nexts'[mGatt'] = 0
  BY <1>1, <1>2, Numbers DEF Typed, NextsTyped
<1>4. q'.running = FALSE
  BY DEF Q!ConnectGatt, Q!ClearedRunning, Typed, QueueTyped
<1>5. Busy(mGatt)' = 0
  BY <1>1, <1>2, NoOpType DEF Busy
<1> QED
  BY <1>1, <1>3, <1>4, <1>5 DEF Serial

LEMMA SerialInit == Init => Serial
  BY DEF Init, Q!Init, Serial

LEMMA SerialStep == Typed /\ Typed' /\ Clearing /\ Serial /\ [Next]_vars => Serial'
<1> SUFFICES ASSUME Typed, Typed', Clearing, Serial, [Next]_vars PROVE Serial'
  OBVIOUS
<1>1. CASE Start \/ Stopped
  <2>1. \E rs : Q!Added(Q!App, rs)
    <3>1. CASE Start
      BY <3>1 DEF Start
    <3>2. CASE Stopped
      BY <3>2 DEF Stopped
    <3> QED
      BY <1>1, <3>1, <3>2
  <2>2. UNCHANGED <<mGatt, gatts, seen>>
    <3>1. CASE Start
      BY <3>1 DEF Start
    <3>2. CASE Stopped
      BY <3>2 DEF Stopped
    <3> QED
      BY <1>1, <3>1, <3>2
  <2>3. Q!App \in Q!Threads
    BY Numbers
  <2> QED
    BY <2>1, <2>2, <2>3, SerialAdded
<1>2. CASE Started \/ Stop \/ UNCHANGED vars
  BY <1>2 DEF Started, Stop, vars, queueVars, Serial, Busy
<1>3. CASE Nexts
  BY <1>3, SerialRunNext DEF Nexts
<1>4. CASE Device \/ Connections \/ Q!Disconnect
  <2>1. ASSUME Q!Disconnect PROVE Serial'
    BY <2>1 DEF Q!Disconnect, Serial
  <2> QED
    BY <1>4, <2>1, SerialConnections DEF Device, Connections
<1>5. CASE Q!SendProxyPacket
  <2>1. PICK t \in {Q!App, mGatt} : \E rs : Q!Added(t, rs)
    BY <1>5 DEF Q!SendProxyPacket
  <2>2. t \in Q!Threads
    BY <1>5, <2>1, SerialNumbers DEF Q!SendProxyPacket
  <2>3. seen'.stale = seen.stale /\ UNCHANGED <<mGatt, gatts>>
    BY <1>5 DEF Q!SendProxyPacket, Typed, GattsTyped
  <2> QED
    BY <2>1, <2>2, <2>3, SerialAdded
<1>6. CASE Q!Connect \/ Q!ConnectGatt
  BY <1>6, SerialConnect, SerialConnectGatt
<1>7. ASSUME NEW g \in 1 .. Len(gatts), OnOtaCharacteristicChanged(g) PROVE Serial'
  <2>1. UNCHANGED <<mGatt, gatts, seen>> /\ g \in Q!Threads
    BY <1>7, ThreadsSoFar DEF OnOtaCharacteristicChanged
  <2>2. (\E rs : Q!Added(g, rs)) \/ UNCHANGED <<q, nexts>>
    BY <1>7 DEF OnOtaCharacteristicChanged, ResponseOk, ResponseFailed
  <2>3. CASE \E rs : Q!Added(g, rs)
    BY <2>1, <2>3, SerialAdded
  <2>4. CASE UNCHANGED <<q, nexts>>
    BY <2>1, <2>4 DEF Serial, Busy
  <2> QED
    BY <2>2, <2>3, <2>4
<1>8. ASSUME NEW g \in 1 .. Len(gatts), NEW ok, Q!Completes(g, ok), Q!AsksNext(g) PROVE Serial'
  <2>1. nexts[g] \in Nat
    BY ThreadsSoFar DEF Typed, NextsTyped
  <2>2. nexts[g] + 1 = nexts[g] + 1 + 0
    BY <2>1
  <2>3. nexts' = [nexts EXCEPT ![g] = nexts[g] + 1 + 0] /\ q' = q
    BY <1>8, <2>2 DEF Q!AsksNext
  <2>4. q.running \in BOOLEAN
    BY DEF Typed, QueueTyped
  <2> QED
    BY <1>8, <2>3, <2>4, SerialCompletes
<1>9. ASSUME NEW g \in 1 .. Len(gatts), Q!Completes(g, TRUE), Proceeds(g) PROVE Serial'
  <2> DEFINE o == IF AllSent(ota) THEN [ota EXCEPT !.state = "VERIFICATION"] ELSE ota
             verify == IF AllSent(ota) THEN <<Ota("verify", 0)>> ELSE <<>>
             more == o.inTransfer /\ o.offset < Chunks /\ o.state # "ABORTED"
             data == IF more THEN <<Ota("data", o.offset + 1)>> ELSE <<>>
             abort == IF o.inTransfer /\ o.state = "ABORTED" THEN <<Ota("abort", 0)>> ELSE <<>>
             rs == verify \o data \o abort
             n == IF rs # <<>> /\ ~q.running THEN 1 ELSE 0
  <2>1. /\ nexts' = [nexts EXCEPT ![g] = @ + 1 + n]
        /\ q' = IF rs = <<>> THEN q ELSE [q EXCEPT !.reqs = @ \o rs, !.running = TRUE]
    BY <1>9 DEF Proceeds
  <2>2. n \in Nat /\ (q.running => n = 0)
    OBVIOUS
  <2> HIDE DEF n, rs
  <2>3. q'.running \in BOOLEAN /\ (q.running => q'.running)
    BY <2>1 DEF Typed, QueueTyped
  <2> QED
    BY <1>9, <2>1, <2>2, <2>3, SerialCompletes
<1>10. ASSUME NEW g \in 1 .. Len(gatts), Callback(g) \/ Ends(g) \/ Lost(g) PROVE Serial'
  BY <1>7, <1>8, <1>9, <1>10, SerialConnections
     DEF Callback, OnOtaCharacteristicWrite, OnOtherWrite, Q!OnOtherWrite
<1> QED
  BY <1>1, <1>2, <1>3, <1>4, <1>5, <1>6, <1>10 DEF Next, User, MainThread, Connecting, Library

LEMMA QueueInvariant == Spec => [](Typed /\ Aside /\ Serial)
<1>1. Init => Typed /\ Aside /\ Serial
  BY TypeInit, AsideInit, SerialInit
<1>2. Typed /\ Aside /\ Serial /\ [Next]_vars => (Typed /\ Aside /\ Serial)'
  BY TypeStep, AsideStep, SerialStep DEF Aside
<1> QED
  BY <1>1, <1>2, PTL DEF Spec

\* next() never finds the connection in use busy with a request of the queue,
\* whichever threads add, execute, clear and answer, for every number of
\* connections; unless the thread of an older connection has taken a request.
\* (The descriptor written past the queue is not one of the queue.)
THEOREM SerializedAlways == Spec => []Serialized
<1>1. Typed /\ Serial => Serialized
  <2> SUFFICES ASSUME Typed, Serial, ~seen.stale, NEW t \in {Q!App, mGatt},
                      nexts[t] > 0, q.reqs # <<>>, Head(q.reqs).gatt = mGatt
               PROVE  gatts[mGatt].op.op \in {"none", "cccd"}
    BY DEF Serialized
  <2>1. mGatt # 0
    BY HeadFits
  <2>2. nexts[Q!App] + nexts[mGatt] + Busy(mGatt) =< 1
    BY <2>1, SerialNumbers DEF Serial
  <2>3. Busy(mGatt) = 0
    BY <2>1, <2>2, SerialNumbers
  <2> QED
    BY <2>3 DEF Busy
<1> QED
  BY <1>1, QueueInvariant, PTL

-----------------------------------------------------------------------------
(* An upgrade that was started with nothing of another one under way       *)

\* writes of the upgrade, and those that the device answers with a status
Writes == {"prepare", "download", "data", "verify", "abort"}
ImageWrites == {r \in Q!Requests : r.op \in Writes}
CommandReqs == {r \in Q!Requests : r.op \in Commands}
Foreign(g) == {r \in ImageWrites : r.gatt # g}

\* Android has one of these that the device has not seen
Sent(ops) == \E g \in 1 .. Len(gatts) : gatts[g].op.op \in ops /\ ~gatts[g].op.done

\* the statuses that are on their way
Answer == \E g \in Q!Threads : air[g] # <<>>
OneAnswer == \A g, h \in Q!Threads : air[g] # <<>> /\ air[h] # <<>> => g = h /\ Len(air[g]) = 1
Success == \E g \in Q!Threads : Some(air[g], {"ok"})

\* the upgrade waits for the status of a command
Waiting == \/ ui = "start" \/ ota.state \in {"WAIT", "VERIFICATION"}
           \/ ota.state = "DATA" /\ ota.offset = 0

\* no command of the queue but a verify, and nothing of the image after it
VerifyLast(s) ==
    \A i \in 1 .. Len(s) :
        s[i] \in CommandReqs => /\ s[i].op = "verify"
                                /\ \A j \in i + 1 .. Len(s) : s[j] \notin ImageWrites

\* Writes of the image are of the connection of the upgrade.
Own == /\ ~Some(q.reqs, Foreign(ota.gatt))
       /\ \A g \in 1 .. Len(gatts) : gatts[g].op.op \in Writes => g = ota.gatt

\* While the upgrade waits, one command in the queue, one with Android or one
\* status on its way is all there is; while it sends the image, none is.
OneToken ==
    /\ Waiting => /\ Once(q.reqs, CommandReqs) /\ OneAnswer
                  /\ ~(Some(q.reqs, CommandReqs) /\ Sent(Commands))
                  /\ ~(Some(q.reqs, CommandReqs) /\ Answer)
                  /\ ~(Answer /\ Sent(Commands))
    /\ ota.state = "DATA" /\ ota.offset > 0 => ~(Some(q.reqs, CommandReqs) \/ Answer \/ Sent(Commands))

Transfer ==
    /\ ui = "start" => ota.state = "IDLE"
    /\ ota.inTransfer => ota.offset > 0 /\ ui # "start" /\ ota.state # "WAIT"
    /\ ota.state \in {"VERIFICATION", "VERIFIED"} => ota.offset = Chunks

\* The device has the image, and no write that could change that is left.
ImageThere == /\ dev.mode = "verified" /\ dev.got = Image
              /\ ~Some(q.reqs, ImageWrites) /\ ~Sent(Writes)

Verifying ==
    /\ ota.state = "VERIFICATION" =>
          /\ VerifyLast(q.reqs) /\ ~Sent(Commands \ {"verify"})
          /\ Sent({"verify"}) => ~Some(q.reqs, ImageWrites)
          /\ Success => ImageThere
    /\ ota.state = "VERIFIED" => ImageThere

Upgrade == Own /\ OneToken /\ Transfer /\ Verifying

\* The inductive invariant.
IInv == Typed /\ Aside /\ Serial /\ (hist.clean => Upgrade)

LEMMA OpKinds ==
    /\ Commands \subseteq Writes
    /\ "none" \notin Writes /\ "cccd" \notin Writes /\ "proxy" \notin Writes /\ "desc" \notin Writes
    /\ CommandReqs \subseteq ImageWrites /\ \A g : Foreign(g) \subseteq ImageWrites
    /\ "verify" \in Commands /\ "data" \in Writes \ Commands
  BY DEF Commands, Writes, CommandReqs, ImageWrites, Foreign

LEMMA RequestKinds ==
    ASSUME NEW r \in Q!Requests
    PROVE  /\ r \in CommandReqs <=> r.op \in Commands
           /\ r \in ImageWrites <=> r.op \in Writes
           /\ \A g : r \in Foreign(g) <=> r.op \in Writes /\ r.gatt # g
  BY DEF CommandReqs, ImageWrites, Foreign

LEMMA VerifyLastTail ==
    ASSUME NEW s \in Seq(Q!Requests), s # <<>>, VerifyLast(s)
    PROVE  /\ VerifyLast(Tail(s))
           /\ Head(s) \in CommandReqs => Head(s).op = "verify" /\ ~Some(Tail(s), ImageWrites)
<1>1. /\ Len(s) \in Nat \ {0} /\ Len(Tail(s)) = Len(s) - 1
      /\ \A i \in 1 .. Len(s) - 1 : Tail(s)[i] = s[i + 1]
      /\ Head(s) = s[1]
  BY HeadTailProperties, LenProperties, EmptySeq
<1>2. VerifyLast(Tail(s))
  <2> SUFFICES ASSUME NEW i \in 1 .. Len(Tail(s)), Tail(s)[i] \in CommandReqs
               PROVE  /\ Tail(s)[i].op = "verify"
                      /\ \A j \in i + 1 .. Len(Tail(s)) : Tail(s)[j] \notin ImageWrites
    BY DEF VerifyLast
  <2>1. i + 1 \in 1 .. Len(s) /\ s[i + 1] = Tail(s)[i]
    BY <1>1
  <2>2. /\ s[i + 1].op = "verify"
        /\ \A j \in (i + 1) + 1 .. Len(s) : s[j] \notin ImageWrites
    BY <2>1 DEF VerifyLast
  <2>3. ASSUME NEW j \in i + 1 .. Len(Tail(s)) PROVE Tail(s)[j] \notin ImageWrites
    <3>1. j + 1 \in (i + 1) + 1 .. Len(s) /\ Tail(s)[j] = s[j + 1]
      BY <1>1
    <3> QED
      BY <2>2, <3>1
  <2> QED
    BY <2>1, <2>2, <2>3
<1>3. ASSUME Head(s) \in CommandReqs PROVE Head(s).op = "verify" /\ ~Some(Tail(s), ImageWrites)
  <2>1. 1 \in 1 .. Len(s) /\ s[1] \in CommandReqs
    BY <1>1, <1>3
  <2>2. s[1].op = "verify" /\ \A j \in 1 + 1 .. Len(s) : s[j] \notin ImageWrites
    BY <2>1 DEF VerifyLast
  <2>3. ASSUME NEW j \in 1 .. Len(Tail(s)) PROVE Tail(s)[j] \notin ImageWrites
    <3>1. j + 1 \in 1 + 1 .. Len(s) /\ Tail(s)[j] = s[j + 1]
      BY <1>1
    <3> QED
      BY <2>2, <3>1
  <2> QED
    BY <1>1, <2>2, <2>3 DEF Some
<1> QED
  BY <1>2, <1>3

LEMMA VerifyLastAppend ==
    ASSUME NEW s \in Seq(Q!Requests), NEW r \in Q!Requests,
           \/ VerifyLast(s) /\ r \notin ImageWrites
           \/ ~Some(s, CommandReqs) /\ r.op = "verify"
    PROVE  VerifyLast(s \o <<r>>)
<1> DEFINE u == Append(s, r)
<1>1. u = s \o <<r>>
  BY AppendIsConcat
<1>2. /\ Len(s) \in Nat /\ Len(u) = Len(s) + 1
      /\ \A i \in 1 .. Len(s) : u[i] = s[i]
      /\ u[Len(s) + 1] = r
  BY AppendProperties, LenProperties
<1> HIDE DEF u
<1>3. CASE VerifyLast(s) /\ r \notin ImageWrites
  <2> SUFFICES ASSUME NEW i \in 1 .. Len(u), u[i] \in CommandReqs
               PROVE  /\ u[i].op = "verify"
                      /\ \A j \in i + 1 .. Len(u) : u[j] \notin ImageWrites
    BY <1>1 DEF VerifyLast
  <2>1. i # Len(s) + 1
    BY <1>2, <1>3, OpKinds
  <2>2. i \in 1 .. Len(s) /\ s[i] \in CommandReqs
    BY <1>2, <2>1
  <2>3. s[i].op = "verify" /\ \A j \in i + 1 .. Len(s) : s[j] \notin ImageWrites
    BY <1>3, <2>2 DEF VerifyLast
  <2>4. ASSUME NEW j \in i + 1 .. Len(u) PROVE u[j] \notin ImageWrites
    <3>1. CASE j = Len(s) + 1
      BY <1>2, <1>3, <3>1
    <3>2. CASE j # Len(s) + 1
      <4>1. j \in i + 1 .. Len(s) /\ j \in 1 .. Len(s)
        BY <1>2, <2>2, <3>2
      <4> QED
        BY <1>2, <2>3, <4>1
    <3> QED
      BY <3>1, <3>2
  <2> QED
    BY <1>2, <2>2, <2>3, <2>4
<1>4. CASE ~Some(s, CommandReqs) /\ r.op = "verify"
  <2> SUFFICES ASSUME NEW i \in 1 .. Len(u), u[i] \in CommandReqs
               PROVE  /\ u[i].op = "verify"
                      /\ \A j \in i + 1 .. Len(u) : u[j] \notin ImageWrites
    BY <1>1 DEF VerifyLast
  <2>1. i \notin 1 .. Len(s)
    BY <1>2, <1>4 DEF Some
  <2>2. i = Len(s) + 1
    BY <1>2, <2>1
  <2>3. i + 1 .. Len(u) = {}
    BY <1>2, <2>2
  <2> QED
    BY <1>2, <1>4, <2>2, <2>3
<1> QED
  BY <1>3, <1>4

-----------------------------------------------------------------------------
(* Steps that take nothing further                                         *)

\* The queue loses requests, or is given one that does not count.
QueueCalm ==
    \/ q'.reqs = q.reqs \/ q'.reqs = <<>>
    \/ q.reqs # <<>> /\ q'.reqs = Tail(q.reqs)
    \/ \E r \in Q!Requests : r.op \notin Writes /\ q'.reqs = q.reqs \o <<r>>

\* Android has what it had, or what does not count.
OpsCalm ==
    \A g \in 1 .. Len(gatts') :
        \/ gatts'[g].op.op \notin Writes
        \/ /\ g \in 1 .. Len(gatts) /\ gatts'[g].op.op = gatts[g].op.op
           /\ gatts[g].op.done => gatts'[g].op.done

\* Statuses arrive or are lost.
AirCalm ==
    \A g \in Q!Threads : \/ air'[g] = air[g] \/ air'[g] = <<>>
                         \/ air[g] # <<>> /\ air'[g] = Tail(air[g])

DevCalm == dev.mode = "verified" => dev'.mode = "verified" /\ dev'.got = dev.got

LEMMA QueueCalmKeeps ==
    ASSUME Typed, QueueCalm
    PROVE  /\ \A E : E \subseteq ImageWrites =>
                /\ Some(q'.reqs, E) => Some(q.reqs, E)
                /\ Once(q.reqs, E) => Once(q'.reqs, E)
           /\ VerifyLast(q.reqs) => VerifyLast(q'.reqs)
<1>1. q.reqs \in Seq(Q!Requests)
  BY DEF Typed, QueueTyped
<1>2. CASE q'.reqs = q.reqs
  BY <1>2
<1>3. CASE q'.reqs = <<>>
  BY <1>3, SomeEmpty DEF VerifyLast
<1>4. CASE q.reqs # <<>> /\ q'.reqs = Tail(q.reqs)
  BY <1>1, <1>4, SomeTail, VerifyLastTail
<1>5. ASSUME NEW r \in Q!Requests, r.op \notin Writes, q'.reqs = q.reqs \o <<r>>
      PROVE  /\ \A E : E \subseteq ImageWrites =>
                   /\ Some(q'.reqs, E) => Some(q.reqs, E)
                   /\ Once(q.reqs, E) => Once(q'.reqs, E)
             /\ VerifyLast(q.reqs) => VerifyLast(q'.reqs)
  <2>1. r \notin ImageWrites
    BY <1>5, RequestKinds
  <2>2. VerifyLast(q.reqs) => VerifyLast(q'.reqs)
    BY <1>1, <1>5, <2>1, VerifyLastAppend
  <2>3. ASSUME NEW E, E \subseteq ImageWrites
        PROVE  (Some(q'.reqs, E) => Some(q.reqs, E)) /\ (Once(q.reqs, E) => Once(q'.reqs, E))
    <3> DEFINE u == <<r>>
    <3>1. u \in Seq(Q!Requests) /\ ~Some(u, E) /\ Once(u, E) /\ q'.reqs = q.reqs \o u
      BY <1>5, <2>1, <2>3, SomeOne
    <3> HIDE DEF u
    <3>2. /\ Some(q.reqs \o u, E) <=> Some(q.reqs, E) \/ Some(u, E)
          /\ Once(q.reqs, E) /\ Once(u, E) /\ ~(Some(q.reqs, E) /\ Some(u, E)) => Once(q.reqs \o u, E)
      BY <1>1, <3>1, SomeConcat
    <3> QED
      BY <3>1, <3>2
  <2> QED
    BY <2>2, <2>3
<1> QED
  BY <1>2, <1>3, <1>4, <1>5 DEF QueueCalm

LEMMA OpsCalmKeeps ==
    ASSUME OpsCalm
    PROVE  /\ \A ops \in SUBSET Writes : Sent(ops)' => Sent(ops)
           /\ \A h : (\A g \in 1 .. Len(gatts) : gatts[g].op.op \in Writes => g = h)
                  => \A g \in 1 .. Len(gatts') : gatts'[g].op.op \in Writes => g = h
<1>1. ASSUME NEW ops \in SUBSET Writes, Sent(ops)' PROVE Sent(ops)
  <2>1. PICK g \in 1 .. Len(gatts') : gatts'[g].op.op \in ops /\ ~gatts'[g].op.done
    BY <1>1 DEF Sent
  <2>2. /\ g \in 1 .. Len(gatts) /\ gatts'[g].op.op = gatts[g].op.op
        /\ gatts[g].op.done => gatts'[g].op.done
    BY <2>1 DEF OpsCalm
  <2> QED
    BY <2>1, <2>2 DEF Sent
<1> QED
  BY <1>1 DEF OpsCalm

LEMMA AirCalmKeeps ==
    ASSUME Typed, AirCalm
    PROVE  (Answer' => Answer) /\ (OneAnswer => OneAnswer') /\ (Success' => Success)
<1>1. air \in [Q!Threads -> Seq({"ok", "failed"})]
  BY DEF Typed, RestTyped
<1>2. ASSUME NEW g \in Q!Threads
      PROVE  /\ air'[g] # <<>> => air[g] # <<>>
             /\ Some(air'[g], {"ok"}) => Some(air[g], {"ok"})
             /\ Len(air[g]) = 1 /\ air'[g] # <<>> => Len(air'[g]) = 1
  <2>1. air[g] \in Seq({"ok", "failed"})
    BY <1>1
  <2>2. CASE air'[g] = air[g]
    BY <2>2
  <2>3. CASE air'[g] = <<>>
    BY <2>3, SomeEmpty
  <2>4. CASE air[g] # <<>> /\ air'[g] = Tail(air[g])
    <3>1. Some(air'[g], {"ok"}) => Some(air[g], {"ok"})
      BY <2>1, <2>4, SomeTail
    <3>2. Len(air[g]) = 1 => air'[g] = <<>>
      BY <2>1, <2>4, TailOfOne
    <3> QED
      BY <2>4, <3>1, <3>2
  <2> QED
    BY <2>2, <2>3, <2>4 DEF AirCalm
<1> QED
  BY <1>2 DEF Answer, OneAnswer, Success

\* Such a step keeps what an upgrade that it does not touch relies on.
LEMMA CalmStep ==
    ASSUME Typed, QueueCalm, OpsCalm, AirCalm, DevCalm, Upgrade,
           ota'.gatt = ota.gatt, ota'.state = ota.state, ota'.offset = ota.offset, Transfer',
           Waiting' => Waiting
    PROVE  Upgrade'
<1>1. /\ Some(q'.reqs, CommandReqs) => Some(q.reqs, CommandReqs)
      /\ Once(q.reqs, CommandReqs) => Once(q'.reqs, CommandReqs)
      /\ Some(q'.reqs, ImageWrites) => Some(q.reqs, ImageWrites)
      /\ Some(q'.reqs, Foreign(ota.gatt)) => Some(q.reqs, Foreign(ota.gatt))
      /\ VerifyLast(q.reqs) => VerifyLast(q'.reqs)
  BY QueueCalmKeeps, OpKinds
<1>2. {Commands, Commands \ {"verify"}, {"verify"}, Writes} \subseteq SUBSET Writes
  BY OpKinds
<1>3. /\ Sent(Commands)' => Sent(Commands)
      /\ Sent(Commands \ {"verify"})' => Sent(Commands \ {"verify"})
      /\ Sent({"verify"})' => Sent({"verify"})
      /\ Sent(Writes)' => Sent(Writes)
  BY <1>2, OpsCalmKeeps
<1>4. Own'
  BY <1>1, OpsCalmKeeps DEF Upgrade, Own
<1>5. OneToken'
  BY <1>1, <1>3, AirCalmKeeps DEF Upgrade, OneToken
<1>6. ImageThere => ImageThere'
  BY <1>1, <1>3 DEF ImageThere, DevCalm
<1>7. Verifying'
  BY <1>1, <1>3, <1>6, AirCalmKeeps DEF Upgrade, Verifying
<1> QED
  BY <1>4, <1>5, <1>7 DEF Upgrade

LEMMA CalmUpgrade ==
    ASSUME Typed, Upgrade, QueueCalm, OpsCalm, AirCalm, DevCalm, UNCHANGED <<ota, ui>>
    PROVE  Upgrade'
<1>1. Transfer' /\ (Waiting' => Waiting)
  BY DEF Upgrade, Transfer, Waiting
<1> QED
  BY <1>1, CalmStep

\* What leaves the requests with Android alone, or ends one.
LEMMA OpsCalmForms ==
    ASSUME Typed, NEW g \in 1 .. Len(gatts),
           \/ UNCHANGED gatts
           \/ \E s : gatts' = [gatts EXCEPT ![g].state = s]
           \/ gatts' = [gatts EXCEPT ![g].op = Q!NoOp]
           \/ \E c \in GattType : c.op.op \notin Writes /\ gatts' = [gatts EXCEPT ![g] = c]
    PROVE  OpsCalm
<1>1. CASE UNCHANGED gatts
  BY <1>1 DEF OpsCalm
<1>2. CASE \E s : gatts' = [gatts EXCEPT ![g].state = s]
  BY <1>2, StateKeepsOps DEF OpsCalm
<1>3. CASE gatts' = [gatts EXCEPT ![g].op = Q!NoOp]
  <2>1. gatts' = [gatts EXCEPT ![g] = [gatts[g] EXCEPT !.op = Q!NoOp]]
    BY <1>3, GattForms
  <2>2. /\ Len(gatts') = Len(gatts)
        /\ \A h \in 1 .. Len(gatts) : gatts'[h].op = IF h = g THEN Q!NoOp ELSE gatts[h].op
    BY <2>1, NoOpType, OpChange
  <2> QED
    BY <2>2, NoOpType, OpKinds DEF OpsCalm
<1>4. ASSUME NEW c \in GattType, c.op.op \notin Writes, gatts' = [gatts EXCEPT ![g] = c]
      PROVE  OpsCalm
  <2>1. gatts \in Seq(GattType)
    BY DEF Typed, GattsTyped
  <2>2. /\ Len(gatts') = Len(gatts)
        /\ \A h \in 1 .. Len(gatts) : gatts'[h] = IF h = g THEN c ELSE gatts[h]
    BY <1>4, <2>1, ExceptSeq
  <2> QED
    BY <1>4, <2>2 DEF OpsCalm
<1> QED
  BY <1>1, <1>2, <1>3, <1>4

LEMMA ClosedOps ==
    ASSUME Typed, NEW g \in 1 .. Len(gatts), gatts' = [gatts EXCEPT ![g] = Q!Closed(g)]
    PROVE  OpsCalm
  BY ClosedType, NoOpType, OpKinds, OpsCalmForms

LEMMA ConnectOps == ASSUME Typed, Q!Connect \/ Q!ConnectGatt PROVE OpsCalm
<1>1. CASE Q!Connect
  <2>1. mGatt # 0 => mGatt \in 1 .. Len(gatts)
    BY DEF Typed, GattsTyped
  <2>2. CASE mGatt = 0
    BY <1>1, <2>2 DEF Q!Connect, OpsCalm
  <2>3. CASE mGatt # 0
    BY <1>1, <2>1, <2>3, ClosedOps DEF Q!Connect
  <2> QED
    BY <2>2, <2>3
<1>2. CASE Q!ConnectGatt
  <2>1. /\ Len(gatts') = Len(gatts) + 1 /\ Len(gatts) \in Nat
        /\ \A h \in 1 .. Len(gatts) : gatts'[h] = gatts[h]
        /\ gatts'[Len(gatts) + 1].op = Q!NoOp
    BY <1>2, ConnectedGatts
  <2>2. \A h \in 1 .. Len(gatts') : h \in 1 .. Len(gatts) \/ h = Len(gatts) + 1
    BY <2>1
  <2> QED
    BY <2>1, <2>2, NoOpType, OpKinds DEF OpsCalm
<1> QED
  BY <1>1, <1>2

LEMMA AirCalmForms ==
    ASSUME Typed, NEW g \in Q!Threads,
           \/ UNCHANGED air
           \/ air' = [air EXCEPT ![g] = <<>>]
           \/ air[g] # <<>> /\ air' = [air EXCEPT ![g] = Tail(@)]
    PROVE  AirCalm
  BY DEF Typed, RestTyped, AirCalm

LEMMA ConnectionUpgrade ==
    ASSUME Typed, Upgrade,
           \/ Library /\ UNCHANGED otaVars
           \/ Connecting
           \/ Q!Disconnect /\ UNCHANGED <<ota, ui, dev, air>>
           \/ \E g \in 1 .. Len(gatts) : MeshSubscribed(g) \/ Ends(g) \/ Lost(g)
    PROVE  Upgrade'
<1>1. CASE (Q!Connect \/ Q!ConnectGatt) /\ UNCHANGED otaVars
  <2>1. QueueCalm
    BY <1>1 DEF Q!Connect, Q!Cleared, Q!ConnectGatt, Q!ClearedRunning, QueueCalm, Typed, QueueTyped
  <2>2. AirCalm /\ DevCalm
    BY <1>1 DEF otaVars, AirCalm, DevCalm
  <2> QED
    BY <1>1, <2>1, <2>2, ConnectOps, CalmUpgrade DEF otaVars
<1>2. CASE Connections /\ UNCHANGED otaVars
  <2>1. PICK g \in 1 .. Len(gatts) : Q!DeviceConnected(g)
    BY <1>2 DEF Connections
  <2>2. gatts' = [gatts EXCEPT ![g] = FoundConnection(g)]
    BY <2>1 DEF Q!DeviceConnected, FoundConnection
  <2>3. FoundConnection(g) \in GattType /\ FoundConnection(g).op.op \notin Writes
    BY FoundForms, OpKinds
  <2>4. OpsCalm
    BY <2>2, <2>3, OpsCalmForms
  <2> QED
    BY <1>2, <2>1, <2>4, CalmUpgrade DEF Q!DeviceConnected, otaVars, QueueCalm, AirCalm, DevCalm
<1>3. CASE Q!SendProxyPacket /\ UNCHANGED otaVars
  <2> DEFINE r == Q!Req(mGatt, "proxy", 0)
  <2>1. mGatt \in Nat
    BY LenProperties DEF Typed, GattsTyped
  <2>2. r \in Q!Requests /\ r.op = "proxy"
    BY <2>1, RequestType DEF Known
  <2>3. q'.reqs = q.reqs \o <<r>> /\ UNCHANGED gatts
    BY <1>3 DEF Q!SendProxyPacket, Q!Added
  <2> HIDE DEF r
  <2>4. QueueCalm
    BY <2>2, <2>3, OpKinds DEF QueueCalm
  <2> QED
    BY <1>3, <2>3, <2>4, CalmUpgrade DEF otaVars, OpsCalm, AirCalm, DevCalm
<1>4. CASE Q!Disconnect /\ UNCHANGED <<ota, ui, dev, air>>
  <2>1. mGatt \in 1 .. Len(gatts)
    BY <1>4 DEF Q!Disconnect, Typed, GattsTyped
  <2>2. OpsCalm
    BY <1>4, <2>1, OpsCalmForms DEF Q!Disconnect
  <2> QED
    BY <1>4, <2>2, CalmUpgrade DEF Q!Disconnect, QueueCalm, AirCalm, DevCalm
<1>5. ASSUME NEW g \in 1 .. Len(gatts), Ends(g) \/ Lost(g) PROVE Upgrade'
  <2>1. Forgets(g) /\ UNCHANGED q /\ g \in Q!Threads
    BY <1>5, ThreadsSoFar DEF Ends, Lost, Q!OnDisconnected, Q!LinkLost
  <2>2. OpsCalm
    <3>1. CASE Ends(g)
      BY <3>1, ClosedOps DEF Ends, Q!OnDisconnected
    <3>2. CASE Lost(g)
      BY <3>2, OpsCalmForms DEF Lost, Q!LinkLost
    <3> QED
      BY <1>5, <3>1, <3>2
  <2>3. AirCalm
    BY <2>1, AirCalmForms DEF Forgets
  <2>4. DevCalm
    BY <2>1 DEF Forgets, DevCalm
  <2> QED
    BY <2>1, <2>2, <2>3, <2>4, CalmUpgrade DEF Forgets, QueueCalm
<1>6. ASSUME NEW g \in 1 .. Len(gatts), MeshSubscribed(g) PROVE Upgrade'
  <2>1. gatts' = [gatts EXCEPT ![g].op = Q!NoOp] /\ UNCHANGED q /\ UNCHANGED otaVars
    BY <1>6 DEF MeshSubscribed, Q!OnMeshDescriptorWrite
  <2>2. OpsCalm
    BY <2>1, OpsCalmForms
  <2> QED
    BY <2>1, <2>2, CalmUpgrade DEF otaVars, QueueCalm, AirCalm, DevCalm
<1> QED
  BY <1>1, <1>2, <1>3, <1>4, <1>5, <1>6 DEF Library, Connecting

\* The end of a packet's write, of a descriptor's, and of one that failed.
LEMMA OtherWriteUpgrade ==
    ASSUME Typed, Upgrade, NEW g \in 1 .. Len(gatts), NEW ok, Q!Completes(g, ok), Q!AsksNext(g),
           UNCHANGED <<ota, ui, dev, air>>
    PROVE  Upgrade'
<1>1. OpsCalm
  BY OpsCalmForms DEF Q!Completes
<1> QED
  BY <1>1, CalmUpgrade DEF Q!AsksNext, QueueCalm, AirCalm, DevCalm

\* The upgrade adds a request of its own.
LEMMA AddOwn ==
    ASSUME Typed, Own, NEW r \in Q!Requests, r.gatt = ota.gatt, q'.reqs = q.reqs \o <<r>>,
           OpsCalm, ota'.gatt = ota.gatt
    PROVE  Own'
<1> DEFINE u == <<r>>
           F == Foreign(ota.gatt)
<1>1. r \notin F
  BY RequestKinds
<1>2. u \in Seq(Q!Requests) /\ ~Some(u, F) /\ q'.reqs = q.reqs \o u /\ q.reqs \in Seq(Q!Requests)
  BY <1>1, SomeOne DEF Typed, QueueTyped
<1> HIDE DEF u, F
<1>3. Some(q'.reqs, F) => Some(q.reqs, F)
  BY <1>2, SomeConcat
<1> QED
  BY <1>3, OpsCalmKeeps DEF Own, F

-----------------------------------------------------------------------------
(* The main thread and the queue                                           *)

LEMMA StartUpgrade == ASSUME Typed, Start, hist'.clean PROVE Upgrade'
<1> DEFINE g == IF ota.made THEN ota.gatt ELSE mGatt
<1>1. /\ ota' = [ota EXCEPT !.made = TRUE, !.gatt = g, !.state = "IDLE"] /\ ui' = "start"
      /\ q'.reqs = q.reqs \o StartReqs(g)
      /\ UNCHANGED <<gatts, dev, air>>
  BY DEF Start, StartReqs, Q!Added, Typed, QueueTyped
<1>2. g \in 0 .. Len(gatts) /\ g \in Nat
  BY LenProperties DEF Typed, GattsTyped, OtaTyped
<1> HIDE DEF g
<1>3. Quiet
  <2> DEFINE c == Quiet
             h == g # mGatt \/ ~Q!Up(g)
             rs == IF Found(g) THEN <<>> ELSE <<"not found">>
  <2>1. hist' = [starts |-> hist.starts + 1, stops |-> hist.stops, clean |-> c,
                 hurt |-> h, early |-> FALSE, reports |-> rs]
    BY DEF Start, g
  <2> HIDE DEF c, h, rs
  <2>2. c
    BY <2>1
  <2> QED
    BY <2>2 DEF c
<1>4. /\ q.reqs = <<>> /\ ~ota.inTransfer
      /\ \A h \in 1 .. Len(gatts) : gatts[h].op.op \in {"none", "cccd"}
      /\ \A h \in Q!Threads : air[h] = <<>>
  BY <1>3 DEF Quiet
<1>5. /\ ota'.gatt = g /\ ota'.state = "IDLE" /\ ~ota'.inTransfer
  BY <1>1, <1>4 DEF Typed, OtaTyped, OtaType
<1>6. q'.reqs = StartReqs(g)
  BY <1>1, <1>2, <1>4, StartReqsFit, ConcatEmptySeq
<1>8. Once(q'.reqs, CommandReqs) /\ ~Some(q'.reqs, Foreign(g))
  <2> DEFINE desc == Q!Req(g, "desc", 0)
             prepare == Q!Req(g, "prepare", 0)
  <2>1. /\ desc \in Q!Requests /\ desc.op = "desc" /\ desc.gatt = g
        /\ prepare \in Q!Requests /\ prepare.op = "prepare" /\ prepare.gatt = g
    BY <1>2, RequestType DEF Known
  <2>2. StartReqs(g) = <<desc, prepare>> \/ StartReqs(g) = <<>>
    BY DEF StartReqs
  <2> HIDE DEF desc, prepare
  <2>3. desc \notin CommandReqs /\ desc \notin Foreign(g) /\ prepare \notin Foreign(g)
    BY <2>1, RequestKinds, OpKinds
  <2> QED
    BY <1>6, <2>1, <2>2, <2>3, SomeTwo, SomeEmpty
<1>9. \A h \in 1 .. Len(gatts') : gatts'[h].op.op \notin Writes
  BY <1>1, <1>4, OpKinds
<1>10. ~Sent(Commands)' /\ ~Answer'
  BY <1>1, <1>4, <1>9, OpKinds DEF Sent, Answer
<1>11. Own'
  BY <1>5, <1>8, <1>9 DEF Own
<1>12. OneToken'
  BY <1>1, <1>4, <1>5, <1>8, <1>10 DEF OneToken, OneAnswer
<1>13. Transfer' /\ Verifying'
  BY <1>1, <1>5 DEF Transfer, Verifying
<1> QED
  BY <1>11, <1>12, <1>13 DEF Upgrade

LEMMA MainUpgrade ==
    ASSUME Typed, Upgrade, Started \/ Stop \/ Stopped \/ UNCHANGED vars PROVE Upgrade'
<1>1. ota \in OtaType
  BY DEF Typed, OtaTyped
<1>2. CASE Started
  <2>1. /\ ota'.gatt = ota.gatt /\ ota'.offset = ota.offset /\ ota'.state = "WAIT"
        /\ ota'.inTransfer = ota.inTransfer /\ ui' = "idle" /\ ui = "start"
        /\ UNCHANGED <<q, gatts, dev, air>>
    BY <1>1, <1>2 DEF Started, queueVars, OtaType
  <2>2. Own'
    BY <2>1 DEF Upgrade, Own
  <2>3. OneToken'
    BY <2>1 DEF Upgrade, OneToken, Waiting, OneAnswer, Answer, Sent
  <2>4. Transfer' /\ Verifying'
    BY <2>1 DEF Upgrade, Transfer, Verifying
  <2> QED
    BY <2>2, <2>3, <2>4 DEF Upgrade
<1>3. CASE Stop
  <2>1. /\ UNCHANGED <<q, gatts, dev, air, ota>> /\ ui' = "stop"
    BY <1>3 DEF Stop, queueVars
  <2>2. QueueCalm /\ OpsCalm /\ AirCalm /\ DevCalm
    BY <2>1 DEF QueueCalm, OpsCalm, AirCalm, DevCalm
  <2>3. Transfer' /\ (Waiting' => Waiting)
    BY <2>1 DEF Upgrade, Transfer, Waiting
  <2> QED
    BY <2>1, <2>2, <2>3, CalmStep
<1>4. CASE Stopped
  <2> DEFINE r == Ota("abort", 0)
  <2>1. /\ ota'.gatt = ota.gatt /\ ota'.offset = ota.offset /\ ota'.state = "ABORT"
        /\ ota'.inTransfer = ota.inTransfer /\ ui' = "idle"
        /\ q'.reqs = q.reqs \o <<r>> /\ UNCHANGED gatts
    BY <1>1, <1>4 DEF Stopped, Q!Added, OtaType
  <2>2. r \in Q!Requests /\ r.gatt = ota.gatt
    BY OtaRequest DEF Known
  <2> HIDE DEF r
  <2>4. Own'
    BY <2>1, <2>2, AddOwn DEF Upgrade, OpsCalm
  <2>5. OneToken' /\ Transfer' /\ Verifying'
    BY <2>1 DEF Upgrade, OneToken, Waiting, Transfer, Verifying
  <2> QED
    BY <2>4, <2>5 DEF Upgrade
<1>5. CASE UNCHANGED vars
  <2>1. UNCHANGED <<q, gatts, ota, ui, dev, air>>
    BY <1>5 DEF vars, queueVars, otaVars
  <2> QED
    BY <2>1, CalmUpgrade DEF QueueCalm, OpsCalm, AirCalm, DevCalm
<1> QED
  BY <1>2, <1>3, <1>4, <1>5

LEMMA RunNextUpgrade ==
    ASSUME Typed, Upgrade, NEW t \in Q!Threads, Q!RunNext(t), UNCHANGED otaVars PROVE Upgrade'
<1>1. UNCHANGED <<ota, ui, dev, air>> /\ AirCalm /\ DevCalm
  BY DEF otaVars, AirCalm, DevCalm
<1>2. CASE Q!Empties
  <2>1. q'.reqs = q.reqs
    BY <1>2 DEF Q!Empties, Typed, QueueTyped
  <2> QED
    BY <1>1, <1>2, <2>1, CalmUpgrade DEF Q!Empties, QueueCalm, OpsCalm
<1>3. CASE Q!Refused
  <2>1. q.reqs # <<>> /\ q'.reqs = Tail(q.reqs)
    BY <1>3 DEF Q!Refused, Typed, QueueTyped
  <2>2. OpsCalm
    <3>1. Head(q.reqs).gatt \in 1 .. Len(gatts)
      BY <2>1, HeadFits
    <3> QED
      BY <1>3, <3>1, OpsCalmForms DEF Q!Refused
  <2> QED
    BY <1>1, <2>1, <2>2, CalmUpgrade DEF QueueCalm
<1>4. CASE Q!Issues
  <2> DEFINE r == Head(q.reqs)
             g == r.gatt
  <2>1. /\ q.reqs # <<>> /\ q.reqs \in Seq(Q!Requests) /\ r \in Q!Requests /\ g \in 1 .. Len(gatts)
        /\ q'.reqs = Tail(q.reqs)
    BY <1>4, HeadFits DEF Q!Issues, Typed, QueueTyped
  <2>2. gatts' = [gatts EXCEPT ![g] = [gatts[g] EXCEPT !.op = r]]
    BY <1>4, <2>1, GattForms DEF Q!Issues
  <2> HIDE DEF r, g
  <2>3. /\ Len(gatts') = Len(gatts)
        /\ \A h \in 1 .. Len(gatts) : gatts'[h].op = IF h = g THEN r ELSE gatts[h].op
    BY <2>1, <2>2, OpChange
  <2>4. /\ \A E : Some(q.reqs, E) <=> r \in E \/ Some(q'.reqs, E)
        /\ \A E : Once(q.reqs, E) => Once(q'.reqs, E)
        /\ \A E : Once(q.reqs, E) /\ r \in E => ~Some(q'.reqs, E)
    BY <2>1, SomeTail DEF r
  <2>5. /\ VerifyLast(q.reqs) => VerifyLast(q'.reqs)
        /\ VerifyLast(q.reqs) /\ r \in CommandReqs => r.op = "verify" /\ ~Some(q'.reqs, ImageWrites)
    BY <2>1, VerifyLastTail DEF r
  <2>6. /\ \A ops : Sent(ops)' => Sent(ops) \/ r.op \in ops
        /\ Answer' = Answer /\ Success' = Success /\ OneAnswer' = OneAnswer
    BY <1>1, <2>3 DEF Sent, Answer, Success, OneAnswer
  <2>7. /\ r \in CommandReqs <=> r.op \in Commands
        /\ r \in ImageWrites <=> r.op \in Writes
        /\ r \in Foreign(ota.gatt) <=> r.op \in Writes /\ g # ota.gatt
    BY <2>1, RequestKinds DEF g
  <2>8. Own'
    <3>1. r.op \in Writes => g = ota.gatt
      BY <2>4, <2>7 DEF Upgrade, Own
    <3>2. ~Some(q'.reqs, Foreign(ota.gatt))
      BY <2>4 DEF Upgrade, Own
    <3>3. \A h \in 1 .. Len(gatts') : gatts'[h].op.op \in Writes => h = ota.gatt
      BY <2>3, <3>1 DEF Upgrade, Own
    <3> QED
      BY <1>1, <3>2, <3>3 DEF Own
  <2>9. OneToken'
    BY <1>1, <2>4, <2>6, <2>7 DEF Upgrade, OneToken, Waiting
  <2>10. Transfer'
    BY <1>1 DEF Upgrade, Transfer
  <2>11. ImageThere => ImageThere'
    BY <1>1, <2>4, <2>6, <2>7 DEF ImageThere
  <2>12. Verifying'
    <3>1. ASSUME ota.state = "VERIFICATION"
          PROVE  /\ VerifyLast(q'.reqs) /\ ~Sent(Commands \ {"verify"})'
                 /\ Sent({"verify"})' => ~Some(q'.reqs, ImageWrites)
      BY <2>4, <2>5, <2>6, <2>7, <3>1, OpKinds DEF Upgrade, Verifying
    <3> QED
      BY <1>1, <2>6, <2>11, <3>1 DEF Upgrade, Verifying
  <2> QED
    BY <2>8, <2>9, <2>10, <2>12 DEF Upgrade
<1> QED
  BY <1>2, <1>3, <1>4 DEF Q!RunNext

-----------------------------------------------------------------------------
(* The device                                                              *)

\* A status is sent: the one answer there is, if there was none.
LEMMA NotifiedOne ==
    ASSUME Typed, NEW status \in {"ok", "failed"}, ~Answer, air' = Notified(status)
    PROVE  OneAnswer' /\ (Success' => status = "ok")
<1>1. dev.sub \in Q!Threads /\ air \in [Q!Threads -> Seq({"ok", "failed"})]
  BY DEF Typed, RestTyped, DeviceType
<1>2. \A g \in Q!Threads : air[g] = <<>>
  BY DEF Answer
<1>3. CASE dev.sub = 0
  <2>1. \A g \in Q!Threads : air'[g] = <<>>
    BY <1>2, <1>3 DEF Notified
  <2> QED
    BY <2>1, SomeEmpty DEF OneAnswer, Success
<1>4. CASE dev.sub # 0
  <2> DEFINE u == Append(<<>>, status)
  <2>1. air' = [air EXCEPT ![dev.sub] = u]
    BY <1>1, <1>2, <1>4 DEF Notified
  <2>2. Len(u) = 1 /\ (Some(u, {"ok"}) => status = "ok")
    <3>1. <<>> \in Seq({"ok", "failed"}) /\ Len(<<>>) = 0
      BY EmptySeq
    <3>2. Len(u) = 0 + 1
      BY <3>1, AppendProperties
    <3>3. Some(u, {"ok"}) <=> Some(<<>>, {"ok"}) \/ status \in {"ok"}
      BY <3>1, SomeAppend
    <3> QED
      BY <3>2, <3>3, SomeEmpty
  <2> HIDE DEF u
  <2>3. \A g \in Q!Threads : air'[g] = IF g = dev.sub THEN u ELSE <<>>
    BY <1>1, <1>2, <2>1
  <2> QED
    BY <2>2, <2>3, SomeEmpty DEF OneAnswer, Success
<1> QED
  BY <1>3, <1>4

LEMMA DeviceUpgrade ==
    ASSUME Typed, Upgrade, NEW g \in 1 .. Len(gatts), DeviceTakes(g) PROVE Upgrade'
<1> DEFINE r == gatts[g].op
           d == [r EXCEPT !.done = TRUE]
<1>1. r \in Q!Requests /\ ~r.done /\ UNCHANGED <<q, ota, ui>>
  BY GattForms DEF DeviceTakes, GattType
<1>2. d \in Q!Requests /\ d.op = r.op /\ d.done
  BY <1>1 DEF Q!Requests
<1>3. gatts' = [gatts EXCEPT ![g] = [gatts[g] EXCEPT !.op = d]]
  BY GattForms DEF DeviceTakes
<1>4. \/ /\ dev' = DeviceAfter(r)
         /\ air' = IF r.op \in Commands THEN Notified(Status(r)) ELSE air
      \/ /\ r.op \in OtaWrites
         /\ air' = IF r.op \in Commands THEN Notified("failed") ELSE air
         /\ UNCHANGED dev
  BY DEF DeviceTakes
<1>5. r = gatts[g].op
  OBVIOUS
<1> HIDE DEF r, d
<1>6. /\ Len(gatts') = Len(gatts)
      /\ \A h \in 1 .. Len(gatts) : gatts'[h].op = IF h = g THEN d ELSE gatts[h].op
  BY <1>2, <1>3, OpChange
<1>7. OpsCalm
  BY <1>2, <1>5, <1>6 DEF OpsCalm
<1>8. /\ QueueCalm
      /\ Transfer'
      /\ Waiting' <=> Waiting
  BY <1>1 DEF Upgrade, QueueCalm, Transfer, Waiting
<1>9. CASE r.op \notin Writes
  \* a descriptor or a packet: nothing of the image
  <2>1. dev'.mode = dev.mode /\ dev'.got = dev.got /\ air' = air
    <3>1. dev \in DeviceType
      BY DEF Typed, RestTyped
    <3>2. dev' = DeviceAfter(r) \/ dev' = dev
      BY <1>4
    <3>3. DeviceAfter(r).mode = dev.mode /\ DeviceAfter(r).got = dev.got
      BY <1>9, <3>1 DEF DeviceAfter, DeviceType, Writes
    <3> QED
      BY <1>4, <1>9, <3>2, <3>3, OpKinds
  <2>2. AirCalm /\ DevCalm
    BY <2>1 DEF AirCalm, DevCalm
  <2> QED
    BY <1>1, <1>7, <1>8, <2>2, CalmUpgrade
<1>10. CASE r.op \in Writes
  <2>1. g = ota.gatt /\ Sent({r.op})
    BY <1>1, <1>5, <1>10 DEF Upgrade, Own, Sent
  <2>2. Sent(Writes)
    BY <1>1, <1>5, <1>10 DEF Sent
  <2>3. ~ImageThere /\ ota.state # "VERIFIED"
    BY <2>2 DEF ImageThere, Upgrade, Verifying
  <2>4. ~Sent(Writes)'
    <3>1. ASSUME NEW h \in 1 .. Len(gatts'), gatts'[h].op.op \in Writes PROVE gatts'[h].op.done
      <4>1. h = g
        BY <1>6, <2>1, <3>1 DEF Upgrade, Own
      <4> QED
        BY <1>2, <1>6, <4>1
    <3> QED
      BY <3>1 DEF Sent
  <2>5. \A ops \in SUBSET Writes : ~Sent(ops)'
    BY <2>4 DEF Sent
  <2>6. Own'
    BY <1>1, <1>7, OpsCalmKeeps DEF Upgrade, Own
  <2>7. CASE r.op \notin Commands
    <3>1. air' = air
      BY <1>4, <2>7
    <3>2. Success' = Success /\ Answer' = Answer /\ OneAnswer' = OneAnswer
      BY <3>1 DEF Success, Answer, OneAnswer
    <3>3. OneToken'
      BY <1>1, <1>8, <2>5, <3>2, OpKinds DEF Upgrade, OneToken
    <3>4. Verifying'
      <4>1. {"verify"} \in SUBSET Writes /\ Commands \ {"verify"} \in SUBSET Writes
        BY OpKinds
      <4>2. ~Sent({"verify"})' /\ ~Sent(Commands \ {"verify"})'
        BY <2>5, <4>1
      <4>3. ota.state = "VERIFICATION" => VerifyLast(q.reqs) /\ ~Success
        BY <2>3 DEF Upgrade, Verifying
      <4> QED
        BY <1>1, <2>3, <3>2, <4>2, <4>3 DEF Verifying
    <3> QED
      BY <1>8, <2>6, <3>3, <3>4 DEF Upgrade
  <2>8. CASE r.op \in Commands
    <3>1. Sent(Commands)
      BY <1>1, <1>5, <2>8 DEF Sent
    <3>2. ~(ota.state = "DATA" /\ ota.offset > 0)
      BY <3>1 DEF Upgrade, OneToken
    <3>3. PICK status \in {"ok", "failed"} :
             /\ air' = Notified(status)
             /\ status = "ok" => dev' = DeviceAfter(r) /\ Status(r) = "ok"
      BY <1>4, <2>8 DEF Status
    <3>4. Waiting => ~Answer /\ ~Some(q.reqs, CommandReqs)
      BY <3>1 DEF Upgrade, OneToken
    <3>5. ASSUME Waiting PROVE OneAnswer' /\ (Success' => status = "ok")
      BY <3>3, <3>4, <3>5, NotifiedOne
    <3>6. ~Sent(Commands)' /\ ~Sent({"verify"})' /\ ~Sent(Commands \ {"verify"})'
      <4>1. Commands \in SUBSET Writes /\ {"verify"} \in SUBSET Writes
            /\ Commands \ {"verify"} \in SUBSET Writes
        BY OpKinds
      <4> QED
        BY <2>5, <4>1
    <3>7. OneToken'
      <4>1. ~(ota'.state = "DATA" /\ ota'.offset > 0)
        BY <1>1, <3>2
      <4>2. Waiting => Once(q.reqs, CommandReqs)
        BY DEF Upgrade, OneToken
      <4> QED
        BY <1>1, <1>8, <3>4, <3>5, <3>6, <4>1, <4>2 DEF OneToken
    <3>8. Verifying'
      <4>1. ota'.state # "VERIFIED"
        BY <1>1, <2>3
      <4>2. ASSUME ota.state = "VERIFICATION" PROVE VerifyLast(q.reqs) /\ (Success' => ImageThere')
        <5>1. Waiting /\ VerifyLast(q.reqs) /\ ~Sent(Commands \ {"verify"})
          BY <4>2 DEF Waiting, Upgrade, Verifying
        <5>2. r.op = "verify"
          BY <1>1, <1>5, <2>8, <5>1 DEF Sent
        <5>3. ~Some(q.reqs, ImageWrites)
          BY <2>1, <4>2, <5>2 DEF Upgrade, Verifying
        <5>4. ASSUME Success' PROVE dev'.mode = "verified" /\ dev'.got = Image
          <6>1. dev' = DeviceAfter(r) /\ DeviceAfter(r).mode = "verified"
            BY <3>3, <3>5, <5>1, <5>2, <5>4 DEF Status
          <6>2. dev \in DeviceType
            BY DEF Typed, RestTyped
          <6>3. DeviceAfter(r) = [dev EXCEPT !.mode = IF @ = "download" /\ dev.got = Image
                                                      THEN "verified" ELSE "idle"]
            BY <5>2 DEF DeviceAfter
          <6> QED
            BY <6>1, <6>2, <6>3 DEF DeviceType
        <5> QED
          BY <1>1, <2>4, <5>1, <5>3, <5>4 DEF ImageThere
      <4> QED
        BY <1>1, <3>6, <4>1, <4>2 DEF Verifying
    <3> QED
      BY <1>8, <2>6, <3>7, <3>8 DEF Upgrade
  <2> QED
    BY <2>7, <2>8
<1> QED
  BY <1>9, <1>10

-----------------------------------------------------------------------------
(* The callbacks                                                           *)

\* The only answer is taken.
LEMMA AnswerTaken ==
    ASSUME Typed, NEW g \in Q!Threads, air[g] # <<>>, air' = [air EXCEPT ![g] = Tail(@)]
    PROVE  /\ Answer /\ AirCalm
           /\ OneAnswer => ~Answer'
           /\ Head(air[g]) = "ok" => Success
<1>1. air \in [Q!Threads -> Seq({"ok", "failed"})] /\ air[g] \in Seq({"ok", "failed"})
  BY DEF Typed, RestTyped
<1>2. Answer /\ AirCalm
  BY AirCalmForms DEF Answer
<1>3. ASSUME OneAnswer PROVE ~Answer'
  <2>1. Len(air[g]) = 1 /\ \A h \in Q!Threads : h # g => air[h] = <<>>
    BY <1>3 DEF OneAnswer
  <2>2. Tail(air[g]) = <<>>
    BY <1>1, <2>1, TailOfOne
  <2> QED
    BY <1>1, <2>1, <2>2 DEF Answer
<1>4. Head(air[g]) = "ok" => Success
  BY <1>1, SomeTail DEF Success
<1> QED
  BY <1>2, <1>3, <1>4

\* What a request that the upgrade adds makes of the queue.
LEMMA AddRequest ==
    ASSUME Typed, NEW r \in Q!Requests, q'.reqs = q.reqs \o <<r>>
    PROVE  \A E : /\ r \notin E => Some(q'.reqs, E) = Some(q.reqs, E)
                  /\ ~Some(q.reqs, E) => Once(q'.reqs, E)
<1> DEFINE u == <<r>>
<1>1. u \in Seq(Q!Requests) /\ q'.reqs = q.reqs \o u /\ q.reqs \in Seq(Q!Requests)
  BY SomeOne DEF Typed, QueueTyped
<1>2. \A E : (Some(u, E) <=> r \in E) /\ Once(u, E)
  BY SomeOne
<1> HIDE DEF u
<1>3. \A E : Some(q'.reqs, E) <=> Some(q.reqs, E) \/ Some(u, E)
  BY <1>1, SomeConcat
<1>4. \A E : Once(q.reqs, E) /\ Once(u, E) /\ ~(Some(q.reqs, E) /\ Some(u, E)) => Once(q'.reqs, E)
  BY <1>1, SomeConcat
<1>5. \A E : ~Some(q.reqs, E) => Once(q.reqs, E)
  BY DEF Some, Once
<1>6. \A E : Some(q.reqs, E) \in BOOLEAN /\ Some(q'.reqs, E) \in BOOLEAN
  BY DEF Some
<1> QED
  BY <1>2, <1>3, <1>4, <1>5, <1>6

LEMMA AddsTo ==
    ASSUME Typed, NEW t, NEW rs, Q!Added(t, rs) PROVE q'.reqs = q.reqs \o rs
  BY DEF Q!Added, Typed, QueueTyped

LEMMA ChangedUpgrade ==
    ASSUME Typed, Upgrade, NEW g \in 1 .. Len(gatts), OnOtaCharacteristicChanged(g)
    PROVE  Upgrade'
<1>1. /\ air[g] # <<>> /\ air' = [air EXCEPT ![g] = Tail(@)] /\ g \in Q!Threads
      /\ UNCHANGED <<gatts, ui, dev>>
  BY ThreadsSoFar DEF OnOtaCharacteristicChanged
<1>2. /\ Answer /\ AirCalm
      /\ OneAnswer => ~Answer'
      /\ Head(air[g]) = "ok" => Success
  BY <1>1, AnswerTaken
<1>3. OpsCalm /\ DevCalm /\ \A ops : Sent(ops)' <=> Sent(ops)
  BY <1>1 DEF OpsCalm, DevCalm, Sent
<1>4. ota \in OtaType /\ ota.offset \in Nat
  BY DEF Typed, OtaTyped, OtaType
<1>5. Waiting => ~Answer' /\ ~Some(q.reqs, CommandReqs) /\ ~Sent(Commands)
  BY <1>2 DEF Upgrade, OneToken
<1>6. ~(ota.state = "DATA" /\ ota.offset > 0)
  BY <1>2 DEF Upgrade, OneToken
<1>7. ASSUME UNCHANGED <<q, ota>> PROVE Upgrade'
  BY <1>1, <1>2, <1>3, <1>7, CalmUpgrade DEF QueueCalm
<1>8. CASE ota.state = "WAIT" /\ ResponseOk(g)
  <2> DEFINE r == Ota("download", 0)
  <2>1. ota' = [Restarted(ota) EXCEPT !.state = "DATA"] /\ q'.reqs = q.reqs \o <<r>>
    <3>1. ota' = [Restarted(ota) EXCEPT !.state = "DATA"] /\ Q!Added(g, <<r>>)
      BY <1>8 DEF ResponseOk
    <3> QED
      BY <3>1, AddsTo
  <2>2. /\ ota'.gatt = ota.gatt /\ ota'.offset = 0 /\ ota'.state = "DATA"
        /\ ota'.inTransfer = ota.inTransfer
    BY <1>4, <2>1 DEF Restarted, OtaType
  <2>3. r \in Q!Requests /\ r.gatt = ota.gatt
    BY OtaRequest DEF Known
  <2> HIDE DEF r
  <2>4. Own'
    BY <1>3, <2>1, <2>2, <2>3, AddOwn DEF Upgrade
  <2>5. Once(q'.reqs, CommandReqs)
    BY <1>5, <1>8, <2>1, <2>3, AddRequest DEF Waiting
  <2>6. OneAnswer' /\ ~Answer' /\ ~Sent(Commands)'
    BY <1>3, <1>5, <1>8 DEF Waiting, OneAnswer, Answer
  <2>7. OneToken'
    BY <1>4, <2>2, <2>5, <2>6 DEF OneToken
  <2>8. Transfer'
    <3>1. ~ota.inTransfer /\ ui # "start"
      BY <1>8 DEF Upgrade, Transfer
    <3> QED
      BY <1>1, <2>2, <3>1 DEF Transfer
  <2>9. Verifying'
    BY <2>2 DEF Verifying
  <2> QED
    BY <2>4, <2>7, <2>8, <2>9 DEF Upgrade
<1>9. CASE ota.state = "DATA" /\ ~ota.inTransfer /\ ResponseOk(g)
  <2> DEFINE r == Ota("data", 1)
  <2>1. ota' = Chunk(Restarted(ota)) /\ q'.reqs = q.reqs \o <<r>>
    <3>1. ota' = Chunk(Restarted(ota)) /\ Q!Added(g, <<r>>)
      BY <1>9 DEF ResponseOk
    <3> QED
      BY <3>1, AddsTo
  <2>2. Restarted(ota) \in OtaType /\ Restarted(ota).offset = 0
        /\ Restarted(ota).gatt = ota.gatt /\ Restarted(ota).state = "DATA"
    BY <1>4, <1>9, Numbers DEF Restarted, OtaType
  <2>3. /\ ota'.gatt = ota.gatt /\ ota'.offset = 1 /\ ota'.state = "DATA"
    BY <2>1, <2>2, ChunkType, Numbers
  <2>4. r \in Q!Requests /\ r.gatt = ota.gatt /\ r.op = "data"
    BY OtaRequest DEF Known
  <2> HIDE DEF r
  <2>5. Waiting
    BY <1>4, <1>6, <1>9 DEF Waiting
  <2>6. Own'
    BY <1>3, <2>1, <2>3, <2>4, AddOwn DEF Upgrade
  <2>7. r \notin CommandReqs
    BY <2>4, RequestKinds, OpKinds
  <2>8. ~Some(q'.reqs, CommandReqs) /\ ~Answer' /\ ~Sent(Commands)'
    BY <1>3, <1>5, <2>1, <2>4, <2>5, <2>7, AddRequest
  <2>9. ui' # "start"
    BY <1>1, <1>9 DEF Upgrade, Transfer
  <2>10. OneToken'
    BY <2>3, <2>8, <2>9 DEF OneToken, Waiting
  <2>11. Transfer' /\ Verifying'
    BY <2>3, <2>9 DEF Transfer, Verifying
  <2> QED
    BY <2>6, <2>10, <2>11 DEF Upgrade
<1>10. CASE ota.state = "VERIFICATION" /\ ResponseOk(g) /\ Head(air[g]) = "ok"
  <2>1. ota' = [ota EXCEPT !.state = "VERIFIED"] /\ UNCHANGED q
    BY <1>10 DEF ResponseOk
  <2>2. /\ ota'.gatt = ota.gatt /\ ota'.offset = ota.offset /\ ota'.state = "VERIFIED"
        /\ ota'.inTransfer = ota.inTransfer
    BY <1>4, <2>1 DEF OtaType
  <2>3. ImageThere
    BY <1>2, <1>10 DEF Upgrade, Verifying
  <2>4. Own' /\ ImageThere'
    BY <1>1, <1>3, <2>1, <2>2, <2>3 DEF Upgrade, Own, ImageThere
  <2>5. ui # "start"
    BY <1>10 DEF Upgrade, Transfer
  <2>6. OneToken' /\ Transfer' /\ Verifying'
    BY <1>1, <1>10, <2>2, <2>4, <2>5 DEF Upgrade, OneToken, Waiting, Transfer, Verifying
  <2> QED
    BY <2>4, <2>6 DEF Upgrade
<1>11. CASE ota.state = "VERIFICATION" /\ ResponseFailed
  <2>1. ota' = [ota EXCEPT !.state = "ABORTED"] /\ UNCHANGED q
    BY <1>11 DEF ResponseFailed
  <2>2. /\ ota'.gatt = ota.gatt /\ ota'.offset = ota.offset /\ ota'.state = "ABORTED"
        /\ ota'.inTransfer = ota.inTransfer
    BY <1>4, <2>1 DEF OtaType
  <2>3. Own'
    BY <1>1, <2>1, <2>2 DEF Upgrade, Own
  <2>4. ui # "start"
    BY <1>11 DEF Upgrade, Transfer
  <2>5. OneToken' /\ Transfer' /\ Verifying'
    BY <1>1, <2>2, <2>4 DEF Upgrade, OneToken, Waiting, Transfer, Verifying
  <2> QED
    BY <2>3, <2>5 DEF Upgrade
<1>12. CASE ResponseOk(g) /\ Head(air[g]) = "ok"
  BY <1>7, <1>8, <1>9, <1>10, <1>12 DEF ResponseOk
<1>13. CASE ResponseFailed
  BY <1>7, <1>11, <1>13 DEF ResponseFailed
<1> QED
  BY <1>12, <1>13 DEF OnOtaCharacteristicChanged, Okay

LEMMA ProceedsUpgrade ==
    ASSUME Typed, Upgrade, NEW g \in 1 .. Len(gatts), Q!Completes(g, TRUE), Proceeds(g),
           UNCHANGED <<ui, dev, air>>
    PROVE  Upgrade'
<1>1. OpsCalm
  BY OpsCalmForms DEF Q!Completes
<1>2. /\ Sent(Commands)' => Sent(Commands)
      /\ Sent(Commands \ {"verify"})' => Sent(Commands \ {"verify"})
      /\ Sent({"verify"})' => Sent({"verify"})
      /\ Answer' = Answer /\ Success' = Success /\ OneAnswer' = OneAnswer
  <2>1. {Commands, Commands \ {"verify"}, {"verify"}} \subseteq SUBSET Writes
    BY OpKinds
  <2> QED
    BY <1>1, <2>1, OpsCalmKeeps DEF Answer, Success, OneAnswer
<1>3. ota \in OtaType /\ ota.offset \in Nat /\ Chunks \in Nat /\ Chunks > 0
  BY Numbers DEF Typed, OtaTyped, OtaType
<1>4. Sent(Commands \ {"verify"}) \/ Sent({"verify"}) => Sent(Commands)
  BY OpKinds DEF Sent
<1>5. Success => Answer
  BY SomeEmpty DEF Success, Answer
<1>6. CASE AllSent(ota) /\ ota' = [ota EXCEPT !.state = "VERIFICATION"]
           /\ q' = [q EXCEPT !.reqs = @ \o <<Ota("verify", 0)>>, !.running = TRUE]
  <2> DEFINE r == Ota("verify", 0)
  <2>1. ota.state = "DATA" /\ ota.offset = Chunks /\ q'.reqs = q.reqs \o <<r>>
    BY <1>6 DEF AllSent
  <2>2. /\ ota'.gatt = ota.gatt /\ ota'.offset = ota.offset /\ ota'.state = "VERIFICATION"
        /\ ota'.inTransfer = ota.inTransfer
    BY <1>3, <1>6 DEF OtaType
  <2>3. r \in Q!Requests /\ r.gatt = ota.gatt /\ r.op = "verify"
    BY OtaRequest DEF Known
  <2> HIDE DEF r
  <2>4. ~Some(q.reqs, CommandReqs) /\ ~Answer /\ ~Sent(Commands)
    BY <1>3, <2>1 DEF Upgrade, OneToken
  <2>5. Own'
    BY <1>1, <2>1, <2>2, <2>3, AddOwn DEF Upgrade
  <2>6. Once(q'.reqs, CommandReqs)
    BY <2>1, <2>3, <2>4, AddRequest
  <2>7. VerifyLast(q'.reqs)
    BY <2>1, <2>3, <2>4, VerifyLastAppend DEF Typed, QueueTyped
  <2>8. OneAnswer'
    BY <1>2, <2>4 DEF OneAnswer, Answer
  <2>9. OneToken'
    BY <1>2, <2>2, <2>4, <2>6, <2>8 DEF OneToken
  <2>10. Transfer' /\ Verifying'
    BY <1>2, <1>4, <1>5, <2>1, <2>2, <2>4, <2>7 DEF Upgrade, Transfer, Verifying
  <2> QED
    BY <2>5, <2>9, <2>10 DEF Upgrade
<1>7. CASE ota.inTransfer /\ ota.offset < Chunks /\ ota' = Chunk(ota)
           /\ q' = [q EXCEPT !.reqs = @ \o <<Ota("data", ota.offset + 1)>>, !.running = TRUE]
  <2> DEFINE r == Ota("data", ota.offset + 1)
  <2>1. q'.reqs = q.reqs \o <<r>>
    BY <1>7
  <2>2. /\ ota'.gatt = ota.gatt /\ ota'.offset = ota.offset + 1 /\ ota'.state = ota.state
    BY <1>3, <1>7, ChunkType
  <2>3. r \in Q!Requests /\ r.gatt = ota.gatt /\ r.op = "data"
    <3>1. "data" \in Known /\ ota.offset + 1 \in Nat
      BY <1>3 DEF Known
    <3> QED
      BY <3>1, OtaRequest
  <2> HIDE DEF r
  <2>4. ota.offset > 0 /\ ui # "start" /\ ota.state \notin {"WAIT", "VERIFICATION", "VERIFIED"}
    BY <1>3, <1>7 DEF Upgrade, Transfer
  <2>5. r \notin CommandReqs
    BY <2>3, RequestKinds, OpKinds
  <2>6. Own'
    BY <1>1, <2>1, <2>2, <2>3, AddOwn DEF Upgrade
  <2>7. ota.state = "DATA" => ~Some(q.reqs, CommandReqs) /\ ~Answer /\ ~Sent(Commands)
    BY <2>4 DEF Upgrade, OneToken
  <2>8. Some(q'.reqs, CommandReqs) = Some(q.reqs, CommandReqs)
    BY <2>1, <2>3, <2>5, AddRequest
  <2>9. ~Waiting'
    BY <1>3, <2>2, <2>4 DEF Waiting
  <2>10. OneToken'
    BY <1>2, <2>2, <2>7, <2>8, <2>9 DEF OneToken
  <2>11. Transfer' /\ Verifying'
    BY <1>3, <2>2, <2>4 DEF Transfer, Verifying
  <2> QED
    BY <2>6, <2>10, <2>11 DEF Upgrade
<1>8. CASE ota.inTransfer /\ ota.state = "ABORTED" /\ ota' = ota
           /\ q' = [q EXCEPT !.reqs = @ \o <<Ota("abort", 0)>>, !.running = TRUE]
  <2> DEFINE r == Ota("abort", 0)
  <2>1. q'.reqs = q.reqs \o <<r>>
    BY <1>8
  <2>2. r \in Q!Requests /\ r.gatt = ota.gatt
    BY OtaRequest DEF Known
  <2> HIDE DEF r
  <2>3. Own'
    BY <1>1, <1>8, <2>1, <2>2, AddOwn DEF Upgrade
  <2>4. ui # "start"
    BY <1>8 DEF Upgrade, Transfer
  <2>5. OneToken' /\ Transfer' /\ Verifying'
    BY <1>8, <2>4 DEF Upgrade, OneToken, Waiting, Transfer, Verifying
  <2> QED
    BY <2>3, <2>5 DEF Upgrade
<1>9. CASE ota' = ota /\ q' = q
  BY <1>1, <1>9, CalmUpgrade DEF QueueCalm, AirCalm, DevCalm
<1> QED
  BY <1>6, <1>7, <1>8, <1>9, ProceedsForms

-----------------------------------------------------------------------------
(* The invariant, and what it gives                                        *)

LEMMA CleanKept == ASSUME Typed, [Next]_vars, ~Start PROVE hist'.clean = hist.clean
<1>1. hist \in HistoryType
  BY DEF Typed, RestTyped
<1>2. /\ Hurt(hist).clean = hist.clean
      /\ \A s : Report(hist, s).clean = hist.clean
      /\ \A b : [hist EXCEPT !.early = b].clean = hist.clean
      /\ \A n : [Hurt(hist) EXCEPT !.stops = n].clean = hist.clean
  BY <1>1 DEF Hurt, Report, HistoryType
<1>3. CASE User \/ MainThread
  BY <1>2, <1>3 DEF User, MainThread, Connecting, otaVars, Stop, Started, Stopped
<1>4. CASE Nexts \/ (Library /\ UNCHANGED otaVars) \/ UNCHANGED vars
  BY <1>4 DEF Nexts, vars, otaVars
<1>5. CASE Device
  BY <1>2, <1>5 DEF Device, DeviceTakes
<1>6. CASE Q!Disconnect /\ hist' = Hurt(hist) /\ UNCHANGED <<ota, ui, dev, air>>
  BY <1>2, <1>6
<1>7. ASSUME NEW g \in 1 .. Len(gatts), Callback(g) \/ Ends(g) \/ Lost(g)
      PROVE  hist'.clean = hist.clean
  <2>1. CASE OnOtaCharacteristicChanged(g)
    BY <1>2, <2>1 DEF OnOtaCharacteristicChanged, ResponseOk, ResponseFailed
  <2>2. CASE OnOtaCharacteristicWrite(g) \/ OnOtherWrite(g)
    BY <1>2, <2>2 DEF OnOtaCharacteristicWrite, OnOtherWrite, Proceeds
  <2>3. CASE Ends(g) \/ Lost(g)
    BY <1>2, <2>3 DEF Ends, Lost, Forgets
  <2>4. CASE MeshSubscribed(g)
    BY <2>4 DEF MeshSubscribed, otaVars
  <2> QED
    BY <1>7, <2>1, <2>2, <2>3, <2>4 DEF Callback
<1> QED
  BY <1>3, <1>4, <1>5, <1>6, <1>7 DEF Next

LEMMA UpgradeStep ==
    ASSUME Typed, [Next]_vars, hist.clean => Upgrade PROVE hist'.clean => Upgrade'
<1> SUFFICES ASSUME hist'.clean PROVE Upgrade'
  OBVIOUS
<1>1. CASE Start
  BY <1>1, StartUpgrade
<1>2. CASE ~Start
  <2>1. Upgrade
    BY <1>2, CleanKept
  <2>2. ASSUME NEW g \in 1 .. Len(gatts), Callback(g) \/ Ends(g) \/ Lost(g) PROVE Upgrade'
    <3>1. CASE OnOtaCharacteristicWrite(g)
      BY <2>1, <3>1, ProceedsUpgrade, OtherWriteUpgrade DEF OnOtaCharacteristicWrite
    <3>2. CASE OnOtherWrite(g)
      BY <2>1, <3>2, OtherWriteUpgrade DEF OnOtherWrite, Q!OnOtherWrite
    <3>3. CASE OnOtaCharacteristicChanged(g)
      BY <2>1, <3>3, ChangedUpgrade
    <3>4. CASE MeshSubscribed(g) \/ Ends(g) \/ Lost(g)
      BY <2>1, <3>4, ConnectionUpgrade
    <3> QED
      BY <2>2, <3>1, <3>2, <3>3, <3>4 DEF Callback
  <2>3. CASE User \/ MainThread \/ UNCHANGED vars
    BY <1>2, <2>1, <2>3, MainUpgrade, ConnectionUpgrade DEF User, MainThread
  <2>4. CASE Nexts
    BY <2>1, <2>4, RunNextUpgrade DEF Nexts
  <2>5. CASE Device
    BY <2>1, <2>5, DeviceUpgrade DEF Device
  <2>6. CASE Library /\ UNCHANGED otaVars
    BY <2>1, <2>6, ConnectionUpgrade
  <2>7. CASE Q!Disconnect /\ hist' = Hurt(hist) /\ UNCHANGED <<ota, ui, dev, air>>
    BY <2>1, <2>7, ConnectionUpgrade
  <2> QED
    BY <2>2, <2>3, <2>4, <2>5, <2>6, <2>7 DEF Next
<1> QED
  BY <1>1, <1>2

LEMMA UpgradeInit == Init => Upgrade
<1> SUFFICES ASSUME Init PROVE Upgrade
  OBVIOUS
<1>1. q.reqs = <<>> /\ Len(gatts) = 0 /\ ui = "idle" /\ ota.state = "IDLE" /\ ~ota.inTransfer
  BY DEF Init, Q!Init
<1>2. Own
  BY <1>1, SomeEmpty DEF Own
<1> QED
  BY <1>1, <1>2 DEF Upgrade, OneToken, Waiting, Transfer, Verifying

LEMMA Invariant == Spec => []IInv
<1>1. Init => IInv
  BY TypeInit, AsideInit, SerialInit, UpgradeInit DEF IInv
<1>2. IInv /\ [Next]_vars => IInv'
  BY TypeStep, AsideStep, SerialStep, UpgradeStep DEF IInv, Aside
<1> QED
  BY <1>1, <1>2, PTL DEF Spec

\* A step that reports success finds the image there.
LEMMA ReportStep ==
    ASSUME IInv, [Next]_vars, hist.clean, Len(hist'.reports) > Len(hist.reports),
           hist'.reports[Len(hist'.reports)] = "completed"
    PROVE  dev.mode = "verified" /\ dev.got = Image
<1>1. Typed /\ Upgrade
  BY DEF IInv
<1> DEFINE R == {"completed", "aborted", "not found"}
<1>2. hist \in HistoryType /\ hist.reports \in Seq(R) /\ "aborted" \in R
  BY <1>1 DEF Typed, RestTyped, HistoryType
<1> HIDE DEF R
<1>12. Len(hist.reports) \in Nat
  BY <1>2, LenProperties
<1>3. /\ Hurt(hist).reports = hist.reports
      /\ \A r : Report(hist, r).reports = Append(hist.reports, r)
      /\ \A b : [hist EXCEPT !.early = b].reports = hist.reports
      /\ \A n : [Hurt(hist) EXCEPT !.stops = n].reports = hist.reports
  BY <1>2 DEF Hurt, Report, HistoryType
<1>4. hist'.reports # hist.reports
  BY <1>12
<1>5. ~(hist' = Report(hist, "aborted"))
  <2> SUFFICES ASSUME hist' = Report(hist, "aborted") PROVE FALSE
    OBVIOUS
  <2>1. hist'.reports = Append(hist.reports, "aborted")
    BY <1>3
  <2>2. /\ Len(hist'.reports) = Len(hist.reports) + 1
        /\ hist'.reports[Len(hist.reports) + 1] = "aborted"
    BY <1>2, <2>1, AppendProperties
  <2> QED
    BY <2>2
<1>6. hist'.reports # <<>>
  <2>1. Len(<<>>) = 0
    BY EmptySeq
  <2> QED
    BY <1>12, <2>1
<1>7. CASE User \/ MainThread
  <2>1. CASE Start
    <3> DEFINE c == Quiet
               g == IF ota.made THEN ota.gatt ELSE mGatt
               h == g # mGatt \/ ~Q!Up(g)
               rs == IF Found(g) THEN <<>> ELSE <<"not found">>
    <3>1. hist' = [starts |-> hist.starts + 1, stops |-> hist.stops, clean |-> c,
                   hurt |-> h, early |-> FALSE, reports |-> rs]
      BY <2>1 DEF Start
    <3>2. rs = <<>> \/ (rs = <<"not found">> /\ Len(rs) = 1 /\ rs[1] = "not found")
      OBVIOUS
    <3> HIDE DEF c, g, h, rs
    <3> QED
      BY <1>6, <3>1, <3>2
  <2>2. CASE Stop
    BY <1>3, <1>4, <2>2 DEF Stop
  <2>3. CASE Started \/ Stopped \/ Connecting
    BY <1>4, <2>3 DEF Started, Stopped, Connecting, otaVars
  <2> QED
    BY <1>7, <2>1, <2>2, <2>3 DEF User, MainThread
<1>8. CASE Nexts \/ (Library /\ UNCHANGED otaVars) \/ UNCHANGED vars
  BY <1>4, <1>8 DEF Nexts, vars, otaVars
<1>9. CASE Device
  BY <1>3, <1>4, <1>9 DEF Device, DeviceTakes
<1>10. CASE Q!Disconnect /\ hist' = Hurt(hist) /\ UNCHANGED <<ota, ui, dev, air>>
  BY <1>3, <1>4, <1>10
<1>11. ASSUME NEW g \in 1 .. Len(gatts), Callback(g) \/ Ends(g) \/ Lost(g)
       PROVE  dev.mode = "verified" /\ dev.got = Image
  <2>1. CASE OnOtaCharacteristicChanged(g)
    <3>1. ota.state = "VERIFICATION" /\ Head(air[g]) = "ok"
      BY <1>3, <1>4, <1>5, <2>1 DEF OnOtaCharacteristicChanged, ResponseOk, ResponseFailed, Okay
    <3>2. air[g] # <<>> /\ air' = [air EXCEPT ![g] = Tail(@)] /\ g \in Q!Threads
      BY <1>1, <2>1, ThreadsSoFar DEF OnOtaCharacteristicChanged
    <3>3. Success
      BY <1>1, <3>1, <3>2, AnswerTaken
    <3> QED
      BY <1>1, <3>1, <3>3 DEF Upgrade, Verifying, ImageThere
  <2>2. CASE OnOtaCharacteristicWrite(g) \/ OnOtherWrite(g)
    <3>1. ota.state = "VERIFIED"
      BY <1>3, <1>4, <1>5, <2>2 DEF OnOtaCharacteristicWrite, OnOtherWrite, Proceeds, Result
    <3> QED
      BY <1>1, <3>1 DEF Upgrade, Verifying, ImageThere
  <2>3. CASE Ends(g) \/ Lost(g)
    BY <1>3, <1>4, <2>3 DEF Ends, Lost, Forgets
  <2>4. CASE MeshSubscribed(g)
    BY <1>4, <2>4 DEF MeshSubscribed, otaVars
  <2> QED
    BY <1>11, <2>1, <2>2, <2>3, <2>4 DEF Callback
<1> QED
  BY <1>7, <1>8, <1>9, <1>10, <1>11 DEF Next

\* Success of an upgrade that was started with nothing of another under way
\* is reported only if the device has verified the whole image: for every
\* image, in whatever order the callbacks of the writes and the statuses
\* arrive, with stops, refusals and connections that come and go.
THEOREM SuccessIsTheImage == Spec => SuccessImpliesImage
<1>1. IInv /\ [Next]_vars =>
        [ hist.clean /\ Len(hist'.reports) > Len(hist.reports)
          /\ hist'.reports[Len(hist'.reports)] = "completed"
             => dev.mode = "verified" /\ dev.got = Image ]_vars
  BY ReportStep
<1> QED
  BY <1>1, Invariant, PTL DEF Spec, SuccessImpliesImage

-----------------------------------------------------------------------------
(* The image on its way                                                    *)

Asked(ops) == {r \in Q!Requests : r.op \in ops}
Answered == {r \in Q!Requests : r.done}

\* such a request is in the queue or with Android, and the device has not seen it
Due(ops) == Some(q.reqs, Asked(ops)) \/ Sent(ops)

\* the packets of the queue s are those after the first a, up to b, in order
InLine(s, a, b) ==
    /\ a =< b
    /\ \A i \in 1 .. Len(s) : s[i].op = "data" => s[i].x \in a + 1 .. b
    /\ \A x \in a + 1 .. b : \E i \in 1 .. Len(s) : s[i].op = "data" /\ s[i].x = x
    /\ \A i, j \in 1 .. Len(s) :
          i < j /\ s[i].op = "data" /\ s[j].op = "data" => s[i].x < s[j].x

UpTo(k) == [i \in 1 .. k |-> i]

\* the packets that the device has, and the one that Android has for it
Passed == Len(dev.got) + (IF Sent({"data"}) THEN 1 ELSE 0)

\* What the device has, what Android has and what the queue has are the
\* packets so far, each once and in this order.
InOrder ==
    /\ dev.mode = "download" /\ dev.got = UpTo(Len(dev.got))
    /\ \A g \in 1 .. Len(gatts) :
          gatts[g].op.op = "data" /\ ~gatts[g].op.done => gatts[g].op.x = Len(dev.got) + 1
    /\ InLine(q.reqs, Passed, ota.offset)

\* What is still to come of an upgrade that nothing has disturbed.
Course ==
    \/ /\ ui = "start" \/ ota.state = "WAIT"
       /\ ~Due(Writes \ {"prepare"})
       /\ ~Due({"prepare"}) => dev.mode = "ready" /\ dev.got = <<>>
    \/ /\ ota.state = "DATA" /\ ota.offset = 0
       /\ ~Due(Writes \ {"download"}) /\ dev.got = <<>>
       /\ dev.mode = IF Due({"download"}) THEN "ready" ELSE "download"
    \/ ota.state = "DATA" /\ ota.offset > 0 /\ InOrder
    \/ /\ ota.state = "VERIFICATION"
       /\ ~Due(Commands \ {"verify"})
       /\ Due({"verify"}) => InOrder
    \/ ota.state = "VERIFIED"

Undisturbed == hist.clean /\ ~hist.hurt /\ ~seen.stale /\ ota.gatt # 0

Going == /\ mGatt = ota.gatt /\ gatts[mGatt].state = "up" /\ ui # "stop"
         /\ ~Some(q.reqs, Answered)
         /\ \A g \in Q!Threads : ~Some(air[g], {"failed"})
         /\ Course

\* Android was busy and has refused a request: next() is not called again,
\* and whoever adds a request takes the queue to be running.
Asleep == /\ mGatt = ota.gatt /\ gatts[mGatt].state # "connecting" /\ q.running
          /\ nexts[Q!App] = 0 /\ nexts[mGatt] = 0 /\ Busy(mGatt) = 0

Flow == Undisturbed => ~q.clearing /\ (Going \/ Asleep)

LEMMA InLineTail ==
    ASSUME NEW s \in Seq(Q!Requests), s # <<>>, NEW a \in Nat, NEW b \in Nat, InLine(s, a, b)
    PROVE  IF Head(s).op = "data" THEN Head(s).x = a + 1 /\ InLine(Tail(s), a + 1, b)
                                  ELSE InLine(Tail(s), a, b)
<1>1. /\ Len(s) \in Nat \ {0} /\ Len(Tail(s)) = Len(s) - 1
      /\ \A i \in 1 .. Len(s) - 1 : Tail(s)[i] = s[i + 1]
      /\ Head(s) = s[1] /\ 1 \in 1 .. Len(s)
  BY HeadTailProperties, LenProperties, EmptySeq
<1>2. \A i \in 1 .. Len(s) : s[i].x \in Nat
  <2>1. \A i \in 1 .. Len(s) : s[i] \in Q!Requests
    BY ElementOfSeq
  <2> QED
    BY <2>1 DEF Q!Requests
<1>3. \A i \in 1 .. Len(Tail(s)) : i + 1 \in 1 .. Len(s) /\ Tail(s)[i] = s[i + 1]
  BY <1>1
<1>4. \A i \in 1 .. Len(s) : i # 1 => i - 1 \in 1 .. Len(Tail(s)) /\ Tail(s)[i - 1] = s[i]
  BY <1>1
<1>5. \A i, j \in 1 .. Len(Tail(s)) :
         i < j /\ Tail(s)[i].op = "data" /\ Tail(s)[j].op = "data" => Tail(s)[i].x < Tail(s)[j].x
  <2> SUFFICES ASSUME NEW i \in 1 .. Len(Tail(s)), NEW j \in 1 .. Len(Tail(s)), i < j,
                      Tail(s)[i].op = "data", Tail(s)[j].op = "data"
               PROVE  Tail(s)[i].x < Tail(s)[j].x
    OBVIOUS
  <2>1. i + 1 < j + 1 /\ s[i + 1].op = "data" /\ s[j + 1].op = "data"
    BY <1>3
  <2>2. s[i + 1].x < s[j + 1].x
    BY <1>3, <2>1 DEF InLine
  <2> QED
    BY <1>3, <2>2
<1>6. CASE s[1].op = "data"
  <2>1. s[1].x \in a + 1 .. b
    BY <1>1, <1>6 DEF InLine
  <2>2. PICK i \in 1 .. Len(s) : s[i].op = "data" /\ s[i].x = a + 1
    BY <2>1 DEF InLine
  <2>3. i # 1 => s[1].x < s[i].x
    BY <1>1, <1>6, <2>2 DEF InLine
  <2>4. s[1].x = a + 1
    BY <2>1, <2>2, <2>3
  <2>5. \A j \in 1 .. Len(Tail(s)) : Tail(s)[j].op = "data" => Tail(s)[j].x \in (a + 1) + 1 .. b
    <3> SUFFICES ASSUME NEW j \in 1 .. Len(Tail(s)), Tail(s)[j].op = "data"
                 PROVE  Tail(s)[j].x \in (a + 1) + 1 .. b
      OBVIOUS
    <3>1. s[j + 1].x \in a + 1 .. b /\ s[1].x < s[j + 1].x
      BY <1>1, <1>3, <1>6 DEF InLine
    <3> QED
      BY <1>3, <2>4, <3>1
  <2>6. \A x \in (a + 1) + 1 .. b : \E j \in 1 .. Len(Tail(s)) : Tail(s)[j].op = "data" /\ Tail(s)[j].x = x
    <3> SUFFICES ASSUME NEW x \in (a + 1) + 1 .. b
                 PROVE  \E j \in 1 .. Len(Tail(s)) : Tail(s)[j].op = "data" /\ Tail(s)[j].x = x
      OBVIOUS
    <3>1. PICK j \in 1 .. Len(s) : s[j].op = "data" /\ s[j].x = x
      BY DEF InLine
    <3>2. j # 1
      BY <2>4, <3>1
    <3> QED
      BY <1>4, <3>1, <3>2
  <2>7. a + 1 =< b
    BY <2>1
  <2>8. InLine(Tail(s), a + 1, b)
    BY <1>5, <2>5, <2>6, <2>7 DEF InLine
  <2> QED
    BY <1>1, <1>6, <2>4, <2>8
<1>7. CASE s[1].op # "data"
  <2>1. \A j \in 1 .. Len(Tail(s)) : Tail(s)[j].op = "data" => Tail(s)[j].x \in a + 1 .. b
    BY <1>3 DEF InLine
  <2>2. \A x \in a + 1 .. b : \E j \in 1 .. Len(Tail(s)) : Tail(s)[j].op = "data" /\ Tail(s)[j].x = x
    <3> SUFFICES ASSUME NEW x \in a + 1 .. b
                 PROVE  \E j \in 1 .. Len(Tail(s)) : Tail(s)[j].op = "data" /\ Tail(s)[j].x = x
      OBVIOUS
    <3>1. PICK j \in 1 .. Len(s) : s[j].op = "data" /\ s[j].x = x
      BY DEF InLine
    <3> QED
      BY <1>4, <1>7, <3>1
  <2> QED
    BY <1>1, <1>5, <1>7, <2>1, <2>2 DEF InLine
<1> QED
  BY <1>1, <1>6, <1>7

LEMMA InLineAppend ==
    ASSUME NEW s \in Seq(Q!Requests), NEW a \in Nat, NEW b \in Nat, InLine(s, a, b),
           NEW r \in Q!Requests
    PROVE  /\ r.op # "data" => InLine(s \o <<r>>, a, b)
           /\ r.op = "data" /\ r.x = b + 1 => InLine(s \o <<r>>, a, b + 1)
<1> DEFINE u == Append(s, r)
<1>1. u = s \o <<r>>
  BY AppendIsConcat
<1>2. /\ Len(s) \in Nat /\ Len(u) = Len(s) + 1
      /\ \A i \in 1 .. Len(s) : i \in 1 .. Len(u) /\ u[i] = s[i]
      /\ u[Len(u)] = r /\ Len(u) \in 1 .. Len(u)
      /\ \A i \in 1 .. Len(u) : i \in 1 .. Len(s) \/ i = Len(u)
  BY AppendProperties, LenProperties
<1>3. \A i \in 1 .. Len(s) : s[i].x \in Nat /\ i < Len(u)
  <2>1. \A i \in 1 .. Len(s) : s[i] \in Q!Requests
    BY ElementOfSeq
  <2> QED
    BY <1>2, <2>1 DEF Q!Requests
<1> HIDE DEF u
<1>4. ASSUME r.op # "data" PROVE InLine(u, a, b)
  <2>1. \A i \in 1 .. Len(u) : u[i].op = "data" => i \in 1 .. Len(s) /\ u[i] = s[i]
    BY <1>2, <1>4
  <2>2. \A x \in a + 1 .. b : \E i \in 1 .. Len(u) : u[i].op = "data" /\ u[i].x = x
    BY <1>2 DEF InLine
  <2> QED
    BY <2>1, <2>2 DEF InLine
<1>5. ASSUME r.op = "data", r.x = b + 1 PROVE InLine(u, a, b + 1)
  <2>1. a =< b /\ a =< b + 1
    BY DEF InLine
  <2>2. \A i \in 1 .. Len(u) : u[i].op = "data" => u[i].x \in a + 1 .. b + 1
    <3> SUFFICES ASSUME NEW i \in 1 .. Len(u), u[i].op = "data" PROVE u[i].x \in a + 1 .. b + 1
      OBVIOUS
    <3>1. CASE i = Len(u)
      BY <1>2, <1>5, <2>1, <3>1
    <3>2. CASE i \in 1 .. Len(s)
      <4>1. s[i].x \in a + 1 .. b
        BY <1>2, <3>2 DEF InLine
      <4> QED
        BY <1>2, <3>2, <4>1
    <3> QED
      BY <1>2, <3>1, <3>2
  <2>3. \A x \in a + 1 .. b + 1 : \E i \in 1 .. Len(u) : u[i].op = "data" /\ u[i].x = x
    <3> SUFFICES ASSUME NEW x \in a + 1 .. b + 1
                 PROVE  \E i \in 1 .. Len(u) : u[i].op = "data" /\ u[i].x = x
      OBVIOUS
    <3>1. CASE x = b + 1
      BY <1>2, <1>5, <3>1
    <3>2. CASE x # b + 1
      <4>1. x \in a + 1 .. b
        BY <3>2
      <4> QED
        BY <1>2, <4>1 DEF InLine
    <3> QED
      BY <3>1, <3>2
  <2>4. \A i, j \in 1 .. Len(u) :
           i < j /\ u[i].op = "data" /\ u[j].op = "data" => u[i].x < u[j].x
    <3> SUFFICES ASSUME NEW i \in 1 .. Len(u), NEW j \in 1 .. Len(u), i < j,
                        u[i].op = "data", u[j].op = "data"
                 PROVE  u[i].x < u[j].x
      OBVIOUS
    <3>1. i \in 1 .. Len(s) /\ u[i] = s[i]
      BY <1>2
    <3>2. s[i].x \in a + 1 .. b
      BY <3>1 DEF InLine
    <3>3. CASE j = Len(u)
      BY <1>2, <1>5, <3>1, <3>2, <3>3
    <3>4. CASE j \in 1 .. Len(s)
      <4>1. u[j] = s[j]
        BY <1>2, <3>4
      <4> QED
        BY <3>1, <3>4, <4>1 DEF InLine
    <3> QED
      BY <1>2, <3>3, <3>4
  <2> QED
    BY <2>1, <2>2, <2>3, <2>4 DEF InLine
<1> QED
  BY <1>1, <1>4, <1>5

\* A queue without a packet.
LEMMA InLineNone ==
    ASSUME NEW s \in Seq(Q!Requests), ~Some(s, Asked({"data"})), NEW a \in Nat
    PROVE  /\ InLine(s, a, a)
           /\ \A b \in Nat : InLine(s, a, b) => a = b
<1>1. \A i \in 1 .. Len(s) : s[i].op # "data"
  <2>1. \A i \in 1 .. Len(s) : s[i] \in Q!Requests
    BY ElementOfSeq
  <2> QED
    BY <2>1 DEF Some, Asked
<1>2. a + 1 .. a = {}
  OBVIOUS
<1>3. InLine(s, a, a)
  BY <1>1, <1>2 DEF InLine
<1>4. ASSUME NEW b \in Nat, InLine(s, a, b) PROVE a = b
  <2>1. a + 1 .. b = {}
    BY <1>1, <1>4 DEF InLine
  <2>2. a =< b
    BY <1>4 DEF InLine
  <2> QED
    BY <2>1, <2>2
<1> QED
  BY <1>3, <1>4

\* A request that is still to reach the device.
Open(r) == r.op \in Writes /\ ~r.done

\* Steps that leave the writes of the image where they are.
QueueSteady ==
    \/ q'.reqs = q.reqs
    \/ q.reqs # <<>> /\ Head(q.reqs).op \notin Writes /\ q'.reqs = Tail(q.reqs)
    \/ \E r \in Q!Requests : r.op \notin Writes /\ ~r.done /\ q'.reqs = q.reqs \o <<r>>
OpsSteady ==
    /\ Len(gatts') = Len(gatts)
    /\ \A g \in 1 .. Len(gatts) : \/ gatts'[g].op = gatts[g].op
                                  \/ ~Open(gatts[g].op) /\ ~Open(gatts'[g].op)
DevSteady == dev'.mode = dev.mode /\ dev'.got = dev.got

LEMMA AskedKinds ==
    /\ \A ops \in SUBSET Writes : Asked(ops) \subseteq ImageWrites
    /\ {Writes, Writes \ {"prepare"}, {"prepare"}, Writes \ {"download"}, {"download"},
        Commands, Commands \ {"verify"}, {"verify"}, {"data"}} \subseteq SUBSET Writes
    /\ \A r \in Q!Requests : \A ops : r \in Asked(ops) <=> r.op \in ops
    /\ \A r \in Q!Requests : r \in Answered <=> r.done
  BY OpKinds DEF Asked, ImageWrites, Writes, Commands, Answered

LEMMA PassedType == Typed => Passed \in Nat /\ Len(dev.got) \in Nat /\ ota.offset \in Nat
<1> SUFFICES ASSUME Typed PROVE Passed \in Nat /\ Len(dev.got) \in Nat /\ ota.offset \in Nat
  OBVIOUS
<1>1. Len(dev.got) \in Nat /\ ota.offset \in Nat
  BY LenProperties DEF Typed, RestTyped, DeviceType, OtaTyped, OtaType
<1>2. Passed = Len(dev.got) \/ Passed = Len(dev.got) + 1
  <2> DEFINE n == Len(dev.got)
  <2>1. Passed = n + (IF Sent({"data"}) THEN 1 ELSE 0) /\ n \in Nat
    BY <1>1 DEF Passed
  <2> HIDE DEF n
  <2>2. Passed = n \/ Passed = n + 1
    BY <2>1
  <2> QED
    BY <2>2 DEF n
<1> QED
  BY <1>1, <1>2

LEMMA QueueSteadyKeeps ==
    ASSUME Typed, QueueSteady
    PROVE  /\ \A E : E \subseteq ImageWrites => (Some(q'.reqs, E) <=> Some(q.reqs, E))
           /\ \A a, b \in Nat : InLine(q.reqs, a, b) => InLine(q'.reqs, a, b)
           /\ ~Some(q.reqs, Answered) => ~Some(q'.reqs, Answered)
<1>1. q.reqs \in Seq(Q!Requests)
  BY DEF Typed, QueueTyped
<1>2. "data" \in Writes
  BY OpKinds
<1>3. CASE q'.reqs = q.reqs
  BY <1>3
<1>4. CASE q.reqs # <<>> /\ Head(q.reqs).op \notin Writes /\ q'.reqs = Tail(q.reqs)
  <2>1. Head(q.reqs) \notin ImageWrites /\ Head(q.reqs).op # "data"
    BY <1>2, <1>4 DEF ImageWrites
  <2>2. \A a, b \in Nat : InLine(q.reqs, a, b) => InLine(q'.reqs, a, b)
    BY <1>1, <1>4, <2>1, InLineTail
  <2>3. ASSUME NEW E PROVE Some(q.reqs, E) <=> Head(q.reqs) \in E \/ Some(q'.reqs, E)
    BY <1>1, <1>4, SomeTail
  <2> QED
    BY <2>1, <2>2, <2>3
<1>5. ASSUME NEW r \in Q!Requests, r.op \notin Writes, ~r.done, q'.reqs = q.reqs \o <<r>>
      PROVE  /\ \A E : E \subseteq ImageWrites => (Some(q'.reqs, E) <=> Some(q.reqs, E))
             /\ \A a, b \in Nat : InLine(q.reqs, a, b) => InLine(q'.reqs, a, b)
             /\ ~Some(q.reqs, Answered) => ~Some(q'.reqs, Answered)
  <2>1. r \notin ImageWrites /\ r.op # "data" /\ r \notin Answered
    BY <1>2, <1>5 DEF ImageWrites, Answered
  <2>2. \A a, b \in Nat : InLine(q.reqs, a, b) => InLine(q'.reqs, a, b)
    BY <1>1, <1>5, <2>1, InLineAppend
  <2>3. ASSUME NEW E PROVE r \notin E => Some(q'.reqs, E) = Some(q.reqs, E)
    BY <1>5, AddRequest
  <2> QED
    BY <2>1, <2>2, <2>3
<1> QED
  BY <1>3, <1>4, <1>5 DEF QueueSteady

LEMMA OpsSteadyKeeps ==
    ASSUME OpsSteady
    PROVE  /\ \A ops \in SUBSET Writes : Sent(ops)' <=> Sent(ops)
           /\ \A n : (\A g \in 1 .. Len(gatts) :
                        gatts[g].op.op = "data" /\ ~gatts[g].op.done => gatts[g].op.x = n)
                  => \A g \in 1 .. Len(gatts') :
                        gatts'[g].op.op = "data" /\ ~gatts'[g].op.done => gatts'[g].op.x = n
<1>1. "data" \in Writes
  BY OpKinds
<1>2. \A ops \in SUBSET Writes : Sent(ops)' <=> Sent(ops)
  BY DEF OpsSteady, Open, Sent
<1> QED
  BY <1>1, <1>2 DEF OpsSteady, Open

\* Such a step is no step of the upgrade.
LEMMA SteadyKeeps ==
    ASSUME Typed, QueueSteady, OpsSteady, DevSteady
    PROVE  /\ \A ops \in SUBSET Writes : Due(ops)' <=> Due(ops)
           /\ InOrder /\ UNCHANGED ota => InOrder'
           /\ Passed' = Passed
<1>1. \A ops \in SUBSET Writes : Due(ops)' <=> Due(ops)
  <2> SUFFICES ASSUME NEW ops \in SUBSET Writes PROVE Due(ops)' <=> Due(ops)
    OBVIOUS
  <2>1. Asked(ops) \subseteq ImageWrites
    BY AskedKinds
  <2>2. Some(q'.reqs, Asked(ops)) <=> Some(q.reqs, Asked(ops))
    BY <2>1, QueueSteadyKeeps
  <2>3. Sent(ops)' <=> Sent(ops)
    BY OpsSteadyKeeps
  <2> QED
    BY <2>2, <2>3 DEF Due
<1>2. Passed' = Passed
  <2>1. Sent({"data"})' <=> Sent({"data"})
    BY OpsSteadyKeeps, AskedKinds
  <2> QED
    BY <2>1 DEF Passed, DevSteady
<1>3. ASSUME InOrder, UNCHANGED ota PROVE InOrder'
  <2>1. InLine(q'.reqs, Passed', ota'.offset)
    BY <1>2, <1>3, PassedType, QueueSteadyKeeps DEF InOrder
  <2>2. \A g \in 1 .. Len(gatts') :
           gatts'[g].op.op = "data" /\ ~gatts'[g].op.done => gatts'[g].op.x = Len(dev.got) + 1
    BY <1>3, OpsSteadyKeeps DEF InOrder
  <2> QED
    BY <1>3, <2>1, <2>2 DEF InOrder, DevSteady
<1> QED
  BY <1>1, <1>2, <1>3

LEMMA SteadyCourse ==
    ASSUME Typed, Course, UNCHANGED <<ota, ui>>, dev'.mode = dev.mode, dev'.got = dev.got,
           \A ops \in SUBSET Writes : Due(ops)' <=> Due(ops), InOrder => InOrder'
    PROVE  Course'
<1>1. /\ Due(Writes \ {"prepare"})' <=> Due(Writes \ {"prepare"})
      /\ Due({"prepare"})' <=> Due({"prepare"})
      /\ Due(Writes \ {"download"})' <=> Due(Writes \ {"download"})
      /\ Due({"download"})' <=> Due({"download"})
      /\ Due(Commands \ {"verify"})' <=> Due(Commands \ {"verify"})
      /\ Due({"verify"})' <=> Due({"verify"})
  BY AskedKinds
<1>2. CASE (ui = "start" \/ ota.state = "WAIT") /\ ~Due(Writes \ {"prepare"})
           /\ (~Due({"prepare"}) => dev.mode = "ready" /\ dev.got = <<>>)
  BY <1>1, <1>2 DEF Course
<1>3. CASE ota.state = "DATA" /\ ota.offset = 0 /\ ~Due(Writes \ {"download"}) /\ dev.got = <<>>
           /\ dev.mode = (IF Due({"download"}) THEN "ready" ELSE "download")
  BY <1>1, <1>3 DEF Course
<1>4. CASE ota.state = "DATA" /\ ota.offset > 0 /\ InOrder
  BY <1>4 DEF Course
<1>5. CASE ota.state = "VERIFICATION" /\ ~Due(Commands \ {"verify"}) /\ (Due({"verify"}) => InOrder)
  BY <1>1, <1>5 DEF Course
<1>6. CASE ota.state = "VERIFIED"
  BY <1>6 DEF Course
<1> QED
  BY <1>2, <1>3, <1>4, <1>5, <1>6 DEF Course

-----------------------------------------------------------------------------
(* Its steps                                                               *)

\* What cannot have happened to an upgrade that is undisturbed afterwards.
LEMMA UndisturbedBefore ==
    ASSUME Typed, Typed', [Next]_vars, ~Start, Undisturbed'
    PROVE  /\ Undisturbed /\ ota'.gatt = ota.gatt /\ hist' # Hurt(hist) /\ ~seen.stale /\ ~Stop
<1>1. hist \in HistoryType /\ seen \in [packets : 0 .. MaxOthers, stale : BOOLEAN, refused : BOOLEAN, torn : BOOLEAN]
      /\ ota \in OtaType
  BY DEF Typed, RestTyped, GattsTyped, OtaTyped
<1>2. /\ Hurt(hist).hurt = TRUE
      /\ \A s : Report(hist, s).hurt = hist.hurt
      /\ \A b : [hist EXCEPT !.early = b].hurt = hist.hurt
      /\ \A n : [Hurt(hist) EXCEPT !.stops = n].hurt = TRUE
  BY <1>1 DEF Hurt, Report, HistoryType
<1>3. hist' # Hurt(hist) /\ ~Stop
  BY <1>2 DEF Undisturbed, Stop
<1>4. hist.clean
  BY CleanKept DEF Undisturbed
<1>5. ~hist.hurt /\ ~seen.stale /\ ota'.gatt = ota.gatt
  <2>1. CASE User \/ MainThread
    <3>1. /\ UNCHANGED hist
          /\ UNCHANGED seen \/ seen' = [seen EXCEPT !.torn = @ \/ q.reqs # <<>>]
      BY <1>3, <2>1 DEF User, MainThread, Started, Stopped, Connecting, Q!ConnectGatt, queueVars,
                        otaVars
    <3>2. seen'.stale = seen.stale
      BY <1>1, <3>1
    <3> QED
      BY <3>1, <3>2, OtaKept DEF Undisturbed
  <2>2. CASE Nexts
    <3>1. PICK t \in Q!Threads : Q!RunNext(t) /\ UNCHANGED otaVars
      BY <2>2 DEF Nexts
    <3> DEFINE st == seen.stale \/ (t \notin {Q!App, mGatt} /\ mGatt # 0)
               rf == seen.refused \/ (Q!Refused /\ Q!Unnoticed(Head(q.reqs)))
    <3>2. seen' = [seen EXCEPT !.stale = st, !.refused = rf]
      BY <3>1 DEF Q!RunNext
    <3> HIDE DEF st, rf
    <3>3. seen'.stale = st
      BY <1>1, <3>2
    <3> QED
      BY <3>1, <3>3 DEF st, otaVars, Undisturbed
  <2>3. CASE (Library /\ UNCHANGED otaVars) \/ UNCHANGED vars
    <3>1. UNCHANGED seen \/ seen' = [seen EXCEPT !.packets = @ + 1]
      BY <2>3 DEF Library, Connections, Q!Connect, Q!DeviceConnected, Q!SendProxyPacket,
                  vars, queueVars
    <3>2. seen'.stale = seen.stale
      BY <1>1, <3>1
    <3> QED
      BY <2>3, <3>2 DEF vars, otaVars, Undisturbed
  <2>4. CASE Device
    BY <1>3, <2>4 DEF Device, DeviceTakes, Undisturbed
  <2>5. CASE Q!Disconnect /\ hist' = Hurt(hist) /\ UNCHANGED <<ota, ui, dev, air>>
    BY <1>3, <2>5
  <2>6. ASSUME NEW g \in 1 .. Len(gatts), Callback(g) \/ Ends(g) \/ Lost(g)
        PROVE  ~hist.hurt /\ ~seen.stale /\ ota'.gatt = ota.gatt
    <3>1. CASE OnOtaCharacteristicChanged(g)
      <4>1. seen' = seen /\ hist'.hurt = hist.hurt
        BY <1>2, <1>3, <3>1 DEF OnOtaCharacteristicChanged, ResponseOk, ResponseFailed
      <4>2. ota'.gatt = ota.gatt
        BY <1>1, <3>1 DEF OnOtaCharacteristicChanged, ResponseOk, ResponseFailed, Restarted, Chunk,
                          OtaType
      <4> QED
        BY <4>1, <4>2 DEF Undisturbed
    <3>2. CASE OnOtaCharacteristicWrite(g)
      <4>1. Proceeds(g) /\ seen' = seen
        BY <1>3, <3>2 DEF OnOtaCharacteristicWrite, Q!Completes
      <4>2. hist'.hurt = hist.hurt
        BY <1>2, <4>1 DEF Proceeds
      <4>3. ota'.gatt = ota.gatt
        BY <1>1, <4>1, ProceedsForms DEF Chunk, OtaType
      <4> QED
        BY <4>1, <4>2, <4>3 DEF Undisturbed
    <3>3. CASE OnOtherWrite(g)
      BY <1>3, <3>3 DEF OnOtherWrite, Q!OnOtherWrite, Q!Completes, Undisturbed
    <3>4. CASE Ends(g) \/ Lost(g)
      BY <1>3, <3>4 DEF Ends, Lost, Forgets
    <3>5. CASE MeshSubscribed(g)
      BY <3>5 DEF MeshSubscribed, Q!OnMeshDescriptorWrite, otaVars, Undisturbed
    <3> QED
      BY <2>6, <3>1, <3>2, <3>3, <3>4, <3>5 DEF Callback
  <2> QED
    BY <2>1, <2>2, <2>3, <2>4, <2>5, <2>6 DEF Next
<1> QED
  BY <1>3, <1>4, <1>5 DEF Undisturbed

LEMMA StartFlow == ASSUME Typed, Served, Start, Undisturbed' PROVE Going'
<1> DEFINE g == IF ota.made THEN ota.gatt ELSE mGatt
           desc == Q!Req(g, "desc", 0)
           prepare == Q!Req(g, "prepare", 0)
           rs == <<desc, prepare>>
<1>1. /\ ota' = [ota EXCEPT !.made = TRUE, !.gatt = g, !.state = "IDLE"] /\ ui' = "start"
      /\ Q!Added(Q!App, IF Found(g) THEN rs ELSE <<>>)
      /\ UNCHANGED <<mGatt, gatts, dev, air>>
  BY DEF Start
<1>2. g \in 1 .. Len(gatts) /\ g = mGatt /\ gatts[mGatt].state = "up" /\ Quiet
  <2> DEFINE c == Quiet
             h == g # mGatt \/ ~Q!Up(g)
             e == IF Found(g) THEN <<>> ELSE <<"not found">>
  <2>1. hist' = [starts |-> hist.starts + 1, stops |-> hist.stops, clean |-> c,
                 hurt |-> h, early |-> FALSE, reports |-> e]
    BY DEF Start
  <2> HIDE DEF c, h, e
  <2>2. c /\ ~h
    BY <2>1 DEF Undisturbed
  <2> QED
    BY <2>2 DEF c, h, Q!Up, Typed, GattsTyped
<1>3. q'.reqs = q.reqs \o rs
  <2>1. Found(g)
    BY <1>2 DEF Found, Served
  <2>2. Q!Added(Q!App, rs)
    BY <1>1, <2>1
  <2> HIDE DEF rs
  <2> QED
    BY <2>2, AddsTo
<1>4. /\ desc \in Q!Requests /\ desc.op = "desc" /\ ~desc.done
      /\ prepare \in Q!Requests /\ prepare.op = "prepare" /\ ~prepare.done
  BY <1>2, RequestType DEF Known
<1> HIDE DEF g, desc, prepare
<1>5. ota'.gatt = g
  BY <1>1 DEF Typed, OtaTyped, OtaType
<1>6. q'.reqs = rs
  <2>1. rs \in Seq(Q!Requests)
    BY <1>4, SomeTwo
  <2> QED
    BY <1>2, <1>3, <2>1, ConcatEmptySeq DEF Quiet
<1>7. /\ \A E : Some(q'.reqs, E) <=> desc \in E \/ prepare \in E
  BY <1>4, <1>6, SomeTwo
<1>8. \A ops \in SUBSET Writes : ~Sent(ops)'
  <2>1. \A h \in 1 .. Len(gatts') : gatts'[h].op.op \notin Writes
    BY <1>1, <1>2, NoOpType, OpKinds DEF Quiet
  <2> QED
    BY <2>1 DEF Sent
<1>9. ~Some(q'.reqs, Answered)
  BY <1>4, <1>7, AskedKinds
<1>10. \A h \in Q!Threads : ~Some(air'[h], {"failed"})
  BY <1>1, <1>2, SomeEmpty DEF Quiet
<1>11. Course'
  <2>1. Writes \ {"prepare"} \in SUBSET Writes /\ {"prepare"} \in SUBSET Writes
    BY AskedKinds
  <2>2. "desc" \notin Writes
    BY OpKinds
  <2>3. ~Some(q'.reqs, Asked(Writes \ {"prepare"})) /\ Some(q'.reqs, Asked({"prepare"}))
    BY <1>4, <1>7, <2>2, AskedKinds
  <2>4. ~Due(Writes \ {"prepare"})' /\ Due({"prepare"})'
    BY <1>8, <2>1, <2>3 DEF Due, Asked
  <2> QED
    BY <1>1, <2>4 DEF Course
<1> QED
  BY <1>1, <1>2, <1>5, <1>9, <1>10, <1>11 DEF Going, Answered

\* A connection that stays up, and a step that is none of the upgrade.
LEMMA SteadyFlow ==
    ASSUME Typed, Going, QueueSteady, OpsSteady, DevSteady, UNCHANGED <<mGatt, ota, ui, air>>,
           gatts'[mGatt].state = "up"
    PROVE  Going'
<1>1. Course'
  BY SteadyKeeps, SteadyCourse DEF Going, DevSteady
<1>2. ~Some(q'.reqs, Answered)
  BY QueueSteadyKeeps DEF Going
<1> QED
  BY <1>1, <1>2 DEF Going, Answered

LEMMA MainFlow ==
    ASSUME Typed, Upgrade, Going, Started \/ Stopped \/ UNCHANGED vars PROVE Going'
<1>1. CASE Started
  <2>1. /\ ota.state = "IDLE" /\ ota'.state = "WAIT" /\ ota'.gatt = ota.gatt /\ ui' = "idle"
        /\ UNCHANGED <<q, mGatt, gatts, dev, air>>
    BY <1>1 DEF Started, queueVars, Typed, OtaTyped, OtaType, Upgrade, Transfer
  <2>2. /\ ~Due(Writes \ {"prepare"})
        /\ ~Due({"prepare"}) => dev.mode = "ready" /\ dev.got = <<>>
    BY <2>1 DEF Going, Course
  <2>3. Course'
    BY <2>1, <2>2 DEF Course, Due, Sent, Asked
  <2> QED
    BY <2>1, <2>3 DEF Going, Answered
<1>2. CASE Stopped
  BY <1>2 DEF Stopped, Going
<1>3. CASE UNCHANGED vars
  BY <1>3, SteadyFlow DEF vars, queueVars, otaVars, QueueSteady, OpsSteady, DevSteady, Going
<1> QED
  BY <1>1, <1>2, <1>3

LEMMA LibraryFlow ==
    ASSUME Typed, Upgrade, Going, Undisturbed, Library, UNCHANGED otaVars PROVE Going'
<1>1. mGatt \in 1 .. Len(gatts) /\ gatts[mGatt].state = "up"
  BY DEF Going, Undisturbed, Typed, GattsTyped
<1>2. ~Q!Connect
  BY <1>1 DEF Q!Connect
<1>3. CASE Connections
  <2>1. PICK g \in 1 .. Len(gatts) : Q!DeviceConnected(g)
    BY <1>3 DEF Connections
  <2>2. g # mGatt /\ gatts' = [gatts EXCEPT ![g] = FoundConnection(g)] /\ UNCHANGED <<q, mGatt>>
    BY <1>1, <2>1 DEF Q!DeviceConnected, FoundConnection
  <2>3. /\ Len(gatts') = Len(gatts)
        /\ \A h \in 1 .. Len(gatts) : gatts'[h] = IF h = g THEN FoundConnection(g) ELSE gatts[h]
    BY <2>2 DEF Typed, GattsTyped
  <2>4. ~Open(gatts[g].op) /\ ~Open(FoundConnection(g).op)
    BY <2>2, FoundForms, OpKinds DEF Upgrade, Own, Going, Open
  <2>5. OpsSteady
    BY <2>3, <2>4 DEF OpsSteady
  <2> QED
    BY <1>1, <2>2, <2>3, <2>5, SteadyFlow DEF otaVars, QueueSteady, DevSteady
<1>4. CASE Q!SendProxyPacket
  <2> DEFINE r == Q!Req(mGatt, "proxy", 0)
  <2>1. mGatt \in Nat
    BY <1>1
  <2>2. r \in Q!Requests /\ r.op = "proxy" /\ ~r.done
    BY <2>1, RequestType DEF Known
  <2>3. q'.reqs = q.reqs \o <<r>> /\ UNCHANGED <<mGatt, gatts>>
    BY <1>4, AddsTo DEF Q!SendProxyPacket
  <2> HIDE DEF r
  <2>4. QueueSteady
    BY <2>2, <2>3, OpKinds DEF QueueSteady
  <2> QED
    BY <1>1, <2>3, <2>4, SteadyFlow DEF otaVars, OpsSteady, DevSteady
<1> QED
  BY <1>2, <1>3, <1>4 DEF Library

\* A write of the image goes from the queue to Android.
LEMMA IssuesFlow ==
    ASSUME Typed, Upgrade, Going, Undisturbed, Q!Issues, UNCHANGED <<mGatt, ota, ui, dev, air>>
    PROVE  Going'
<1> DEFINE r == Head(q.reqs)
           g == r.gatt
<1>1. /\ q.reqs # <<>> /\ q.reqs \in Seq(Q!Requests) /\ r \in Q!Requests /\ g \in 1 .. Len(gatts)
      /\ q'.reqs = Tail(q.reqs) /\ gatts[g].op = Q!NoOp
  BY HeadFits DEF Q!Issues, Q!Accepts, Typed, QueueTyped
<1>2. gatts' = [gatts EXCEPT ![g] = [gatts[g] EXCEPT !.op = r]]
  BY <1>1, GattForms DEF Q!Issues
<1>3. gatts'[mGatt].state = "up"
  <2>1. mGatt \in 1 .. Len(gatts) /\ gatts[mGatt].state = "up"
    BY DEF Going, Undisturbed, Typed, GattsTyped
  <2>2. gatts \in Seq(GattType) /\ DOMAIN gatts = 1 .. Len(gatts) /\ gatts[g] \in GattType
    BY <1>1, GattForms, LenProperties DEF Typed, GattsTyped
  <2> QED
    BY <1>2, <2>1, <2>2 DEF GattType
<1>4. \A E : Some(q.reqs, E) <=> r \in E \/ Some(q'.reqs, E)
  BY <1>1, SomeTail
<1>5. \A a, b \in Nat : InLine(q.reqs, a, b) =>
         IF r.op = "data" THEN r.x = a + 1 /\ InLine(q'.reqs, a + 1, b) ELSE InLine(q'.reqs, a, b)
  BY <1>1, InLineTail
<1> HIDE DEF r, g
<1>6. /\ Len(gatts') = Len(gatts)
      /\ \A h \in 1 .. Len(gatts) : gatts'[h].op = IF h = g THEN r ELSE gatts[h].op
  BY <1>1, <1>2, OpChange
<1>7. ~Some(q'.reqs, Answered) /\ ~r.done
  BY <1>1, <1>4, AskedKinds DEF Going
<1>8. \A ops \in SUBSET Writes : Sent(ops)' <=> Sent(ops) \/ r.op \in ops
  <2> SUFFICES ASSUME NEW ops \in SUBSET Writes PROVE Sent(ops)' <=> Sent(ops) \/ r.op \in ops
    OBVIOUS
  <2>1. Q!NoOp.op \notin ops
    BY NoOpType, OpKinds
  <2>2. Sent(ops)' => Sent(ops) \/ r.op \in ops
    BY <1>6 DEF Sent
  <2>3. r.op \in ops => Sent(ops)'
    BY <1>1, <1>6, <1>7 DEF Sent
  <2>4. Sent(ops) => Sent(ops)'
    BY <1>1, <1>6, <2>1 DEF Sent
  <2> QED
    BY <2>2, <2>3, <2>4
<1>9. \A ops \in SUBSET Writes : Due(ops)' <=> Due(ops)
  <2> SUFFICES ASSUME NEW ops \in SUBSET Writes PROVE Due(ops)' <=> Due(ops)
    OBVIOUS
  <2>1. r \in Asked(ops) <=> r.op \in ops
    BY <1>1, AskedKinds
  <2> QED
    BY <1>4, <1>8, <2>1 DEF Due, Asked
<1>10. ASSUME InOrder PROVE InOrder'
  <2>1. InLine(q.reqs, Passed, ota.offset) /\ Passed \in Nat /\ ota.offset \in Nat /\ Len(dev.got) \in Nat
    BY <1>10, PassedType DEF InOrder
  <2>2. Sent({"data"})' <=> Sent({"data"}) \/ r.op = "data"
    BY <1>8, AskedKinds
  <2>3. ASSUME r.op = "data" PROVE ~Sent({"data"})
    <3>1. g = ota.gatt
      <4>1. ~(r \in Foreign(ota.gatt)) /\ "data" \in Writes
        BY <1>4, OpKinds DEF Upgrade, Own
      <4> QED
        BY <1>1, <2>3, <4>1, RequestKinds DEF g
    <3>2. ASSUME NEW h \in 1 .. Len(gatts) PROVE gatts[h].op.op # "data"
      <4>1. gatts[h].op.op = "data" => h = g
        BY <3>1, OpKinds DEF Upgrade, Own
      <4> QED
        BY <1>1, <4>1, NoOpType
    <3> QED
      BY <3>2 DEF Sent
  <2>4. CASE r.op = "data"
    <3>1. Passed = Len(dev.got) /\ Passed' = Len(dev.got) + 1
      BY <2>1, <2>2, <2>3, <2>4 DEF Passed
    <3>2. r.x = Len(dev.got) + 1 /\ InLine(q'.reqs, Passed', ota.offset)
      BY <1>5, <2>1, <2>4, <3>1
    <3>3. \A h \in 1 .. Len(gatts') :
             gatts'[h].op.op = "data" /\ ~gatts'[h].op.done => gatts'[h].op.x = Len(dev.got) + 1
      BY <1>6, <1>10, <3>2 DEF InOrder
    <3> QED
      BY <1>10, <3>2, <3>3 DEF InOrder
  <2>5. CASE r.op # "data"
    <3>1. Passed' = Passed
      BY <2>2, <2>5 DEF Passed
    <3>2. InLine(q'.reqs, Passed', ota.offset)
      BY <1>5, <2>1, <2>5, <3>1
    <3>3. \A h \in 1 .. Len(gatts') :
             gatts'[h].op.op = "data" /\ ~gatts'[h].op.done => gatts'[h].op.x = Len(dev.got) + 1
      BY <1>6, <1>10, <2>5 DEF InOrder
    <3> QED
      BY <1>10, <3>2, <3>3 DEF InOrder
  <2> QED
    BY <2>4, <2>5
<1>11. Course'
  BY <1>9, <1>10, SteadyCourse DEF Going
<1> QED
  BY <1>3, <1>7, <1>11 DEF Going, Answered

\* next() issues a request, finds none, or lets the queue fall asleep.
LEMMA RunNextFlow ==
    ASSUME Typed, Typed', Serial, Upgrade, Going, Undisturbed, Undisturbed', NEW t \in Q!Threads,
           Q!RunNext(t), UNCHANGED otaVars
    PROVE  Going' \/ Asleep'
<1>1. UNCHANGED <<mGatt, ota, ui, dev, air>>
  BY DEF Q!RunNext, otaVars
<1>2. mGatt \in 1 .. Len(gatts) /\ gatts[mGatt].state = "up" /\ mGatt = ota.gatt
  BY DEF Going, Undisturbed, Typed, GattsTyped
<1>3. CASE Q!Empties
  <2>1. q'.reqs = q.reqs
    BY <1>3 DEF Q!Empties, Typed, QueueTyped
  <2> QED
    BY <1>1, <1>2, <1>3, <2>1, SteadyFlow DEF Q!Empties, QueueSteady, OpsSteady, DevSteady
<1>4. CASE Q!Refused
  <2> DEFINE r == Head(q.reqs)
  <2>1. r.gatt \in 1 .. Len(gatts) /\ q'.running = q.running
    BY <1>4, HeadFits DEF Q!Refused, Typed, QueueTyped
  <2>2. nexts'[Q!App] = 0 /\ nexts'[mGatt] = 0 /\ Busy(mGatt) = 0 /\ q.running
    BY <1>2, NextTaken DEF Undisturbed
  <2>3. /\ Len(gatts') = Len(gatts)
        /\ gatts'[mGatt].op = gatts[mGatt].op /\ gatts'[mGatt].state # "connecting"
    <3>1. CASE gatts' = gatts
      BY <1>2, <3>1
    <3>2. CASE gatts' = [gatts EXCEPT ![r.gatt].state = "leaving"]
      <4>1. Len(gatts') = Len(gatts) /\ gatts'[mGatt].op = gatts[mGatt].op
        BY <1>2, <2>1, <3>2, StateKeepsOps
      <4>2. gatts'[mGatt].state \in {"leaving", "up"}
        <5>1. gatts \in Seq(GattType) /\ DOMAIN gatts = 1 .. Len(gatts) /\ gatts[mGatt] \in GattType
          BY <1>2, LenProperties DEF Typed, GattsTyped
        <5> QED
          BY <1>2, <2>1, <3>2, <5>1 DEF GattType
      <4> QED
        BY <4>1, <4>2
    <3> QED
      BY <1>4, <3>1, <3>2 DEF Q!Refused
  <2> QED
    BY <1>1, <1>2, <2>1, <2>2, <2>3 DEF Asleep, Busy
<1> QED
  BY <1>1, <1>3, <1>4, IssuesFlow DEF Q!RunNext

-----------------------------------------------------------------------------
(* Its steps: the device                                                   *)

LEMMA UpToNext ==
    ASSUME NEW s \in Seq(Nat), NEW n \in Nat, s = UpTo(n), Len(s) = n
    PROVE  Append(s, n + 1) = UpTo(n + 1)
<1> DEFINE u == Append(s, n + 1)
           v == UpTo(n + 1)
<1>1. /\ u \in Seq(Nat) /\ Len(u) = n + 1
      /\ \A i \in 1 .. n : u[i] = i
      /\ u[n + 1] = n + 1
  <2>1. u \in Seq(Nat) /\ Len(u) = n + 1 /\ u[n + 1] = n + 1 /\ \A i \in 1 .. n : u[i] = s[i]
    BY AppendProperties
  <2>2. \A i \in 1 .. n : s[i] = i
    BY DEF UpTo
  <2> QED
    BY <2>1, <2>2
<1>2. v \in Seq(Nat) /\ Len(v) = n + 1 /\ \A i \in 1 .. n + 1 : v[i] = i
  BY DEF UpTo
<1> HIDE DEF u, v
<1>3. \A i \in 1 .. n + 1 : u[i] = v[i]
  BY <1>1, <1>2
<1> QED
  BY <1>1, <1>2, <1>3, SeqEqual DEF u, v

\* Nothing that was on its way to the device has failed there.
LEMMA OkayNotified ==
    ASSUME Typed, \A g \in Q!Threads : ~Some(air[g], {"failed"}), air' = Notified("ok")
    PROVE  \A g \in Q!Threads : ~Some(air'[g], {"failed"})
<1>1. dev.sub \in Q!Threads /\ air \in [Q!Threads -> Seq({"ok", "failed"})]
  BY DEF Typed, RestTyped, DeviceType
<1>2. ~Some(Append(air[dev.sub], "ok"), {"failed"})
  <2>1. air[dev.sub] \in Seq({"ok", "failed"}) /\ ~Some(air[dev.sub], {"failed"})
    BY <1>1
  <2> QED
    BY <2>1, SomeAppend
<1> QED
  BY <1>1, <1>2 DEF Notified

\* The device takes a write of the image.
LEMMA WriteTaken ==
    ASSUME Typed, Upgrade, Going, NEW g \in 1 .. Len(gatts), DeviceTakes(g),
           hist' # Hurt(hist), gatts[g].op.op \in Writes
    PROVE  LET r == gatts[g].op
           IN  /\ dev' = DeviceAfter(r)
               /\ r.op \in Commands => Status(r) = "ok"
               /\ r.op # "abort" /\ (r.op = "verify" => dev.mode = "download" /\ dev.got = Image)
               /\ Course'
<1> DEFINE r == gatts[g].op
           d == [r EXCEPT !.done = TRUE]
<1>1. r \in Q!Requests /\ ~r.done /\ UNCHANGED <<q, ota, ui>> /\ dev' = DeviceAfter(r)
  BY GattForms DEF DeviceTakes, GattType
<1>2. d \in Q!Requests /\ d.op = r.op /\ d.done
  BY <1>1 DEF Q!Requests
<1>3. gatts' = [gatts EXCEPT ![g] = [gatts[g] EXCEPT !.op = d]]
  BY GattForms DEF DeviceTakes
<1>4. r = gatts[g].op /\ r.op \in Writes
  OBVIOUS
<1> HIDE DEF r, d
<1>5. /\ Len(gatts') = Len(gatts)
      /\ \A h \in 1 .. Len(gatts) : gatts'[h].op = IF h = g THEN d ELSE gatts[h].op
  BY <1>2, <1>3, OpChange
<1>6. \A h \in 1 .. Len(gatts) : gatts[h].op.op \in Writes => h = g
  BY <1>4 DEF Upgrade, Own
<1>7. \A ops \in SUBSET Writes : /\ ~Sent(ops)' /\ (Sent(ops) <=> r.op \in ops)
                                 /\ Due(ops)' => Due(ops)
                                 /\ r.op \in ops => Due(ops)
  <2> SUFFICES ASSUME NEW ops \in SUBSET Writes
               PROVE  /\ ~Sent(ops)' /\ (Sent(ops) <=> r.op \in ops)
                      /\ Due(ops)' => Due(ops)
                      /\ r.op \in ops => Due(ops)
    OBVIOUS
  <2>1. ~Sent(ops)'
    BY <1>2, <1>5, <1>6 DEF Sent
  <2>2. Sent(ops) <=> r.op \in ops
    BY <1>1, <1>4, <1>6 DEF Sent
  <2> QED
    BY <1>1, <2>1, <2>2 DEF Due, Asked
<1>8. dev \in DeviceType /\ Len(dev.got) \in Nat /\ dev.got \in Seq(Nat)
  BY LenProperties DEF Typed, RestTyped, DeviceType
<1>9. ota.state # "VERIFIED"
  <2>1. Sent(Writes)
    BY <1>4, <1>7, AskedKinds
  <2> QED
    BY <2>1 DEF Upgrade, Verifying, ImageThere
\* one command at most
<1>10. r.op \in Commands /\ Waiting => ~Some(q.reqs, CommandReqs)
  <2>1. r.op \in Commands => Sent(Commands)
    BY <1>7, AskedKinds
  <2> QED
    BY <2>1 DEF Upgrade, OneToken
<1>11. ASSUME NEW op \in Commands, r.op \in Commands, Waiting PROVE ~Due({op})'
  <2>1. {op} \in SUBSET Writes /\ Asked({op}) \subseteq CommandReqs
    BY OpKinds DEF Asked, CommandReqs
  <2>2. ~Some(q.reqs, Asked({op}))
    BY <1>10, <1>11, <2>1 DEF Some
  <2>3. ~Some(q.reqs, Asked({op}))'
    BY <1>1, <2>2 DEF Asked
  <2> QED
    BY <1>7, <2>1, <2>3 DEF Due
<1>12. CASE (ui = "start" \/ ota.state = "WAIT") /\ ~Due(Writes \ {"prepare"})
  <2>1. r.op = "prepare"
    BY <1>4, <1>7, <1>12, AskedKinds
  <2>2. dev'.mode = "ready" /\ dev'.got = <<>>
    BY <1>1, <1>8, <2>1 DEF DeviceAfter, DeviceType
  <2>3. ~Due(Writes \ {"prepare"})'
    BY <1>7, <1>12, AskedKinds
  <2>4. Course'
    BY <1>1, <1>12, <2>2, <2>3 DEF Course
  <2> QED
    BY <1>1, <2>1, <2>4 DEF Status, r
<1>13. CASE ota.state = "DATA" /\ ota.offset = 0 /\ ~Due(Writes \ {"download"}) /\ dev.got = <<>>
            /\ dev.mode = (IF Due({"download"}) THEN "ready" ELSE "download")
  <2>1. r.op = "download" /\ "download" \in Commands /\ Waiting
    BY <1>4, <1>7, <1>13, AskedKinds DEF Commands, Waiting
  <2>2. dev.mode = "ready"
    BY <1>7, <1>13, <2>1, AskedKinds
  <2>3. dev'.mode = "download" /\ dev'.got = <<>>
    BY <1>1, <1>8, <1>13, <2>1, <2>2 DEF DeviceAfter, DeviceType
  <2>4. ~Due(Writes \ {"download"})' /\ ~Due({"download"})'
    BY <1>7, <1>11, <1>13, <2>1, AskedKinds
  <2>5. Course'
    BY <1>1, <1>13, <2>3, <2>4 DEF Course
  <2> QED
    BY <1>1, <2>1, <2>2, <2>5 DEF Status, r
<1>14. ASSUME r.op = "data", InOrder PROVE InOrder'
  <2> DEFINE n == Len(dev.got)
  <2>1. n \in Nat /\ r.x = n + 1 /\ dev.mode = "download" /\ dev.got = UpTo(n)
    BY <1>1, <1>4, <1>8, <1>14 DEF InOrder
  <2>2. dev' = [dev EXCEPT !.got = Append(dev.got, n + 1)]
    BY <1>1, <1>14, <2>1 DEF DeviceAfter
  <2>3. dev'.mode = "download" /\ dev'.got = Append(dev.got, n + 1)
    BY <1>8, <2>1, <2>2 DEF DeviceType
  <2>4. dev'.got = UpTo(n + 1)
    BY <1>8, <2>1, <2>3, UpToNext
  <2>5. Len(dev'.got) = n + 1
    BY <1>8, <2>3, AppendProperties
  <2>6. Passed = n + 1
    BY <1>7, <1>14, AskedKinds DEF Passed
  <2>7. Passed' = n + 1 + 0
    BY <1>7, <2>5, AskedKinds DEF Passed
  <2>8. Passed' = Passed
    <3> HIDE DEF n
    <3> QED
      BY <2>1, <2>6, <2>7
  <2>9. InLine(q'.reqs, Passed', ota'.offset)
    BY <1>1, <1>14, <2>8 DEF InOrder
  <2>10. \A h \in 1 .. Len(gatts') : ~(gatts'[h].op.op = "data" /\ ~gatts'[h].op.done)
    BY <1>7, AskedKinds DEF Sent
  <2> QED
    BY <2>3, <2>4, <2>5, <2>9, <2>10 DEF InOrder
<1>15. CASE ota.state = "DATA" /\ ota.offset > 0 /\ InOrder
  <2>1. r.op \notin Commands
    BY <1>7, <1>15, AskedKinds DEF Upgrade, OneToken
  <2>2. r.op = "data"
    BY <1>4, <2>1 DEF Writes, Commands
  <2>3. Course'
    BY <1>1, <1>14, <1>15, <2>2 DEF Course
  <2> QED
    BY <1>1, <2>1, <2>2, <2>3 DEF r
<1>16. CASE ota.state = "VERIFICATION" /\ ~Due(Commands \ {"verify"}) /\ (Due({"verify"}) => InOrder)
  <2>1. r.op \in {"data", "verify"}
    BY <1>4, <1>7, <1>16, AskedKinds DEF Writes, Commands
  <2>2. ~Due(Commands \ {"verify"})' /\ (Due({"verify"})' => Due({"verify"}))
    BY <1>7, <1>16, AskedKinds
  <2>3. CASE r.op = "data"
    <3>1. Course'
      BY <1>1, <1>14, <1>16, <2>2, <2>3 DEF Course
    <3> QED
      BY <1>1, <2>3, <3>1 DEF Commands, r
  <2>4. CASE r.op = "verify"
    <3>1. Waiting /\ "verify" \in Commands
      BY <1>16, OpKinds DEF Waiting
    <3>2. ~Due({"verify"})'
      BY <1>11, <2>4, <3>1
    <3>3. Course'
      BY <1>1, <1>16, <2>2, <3>2 DEF Course
    <3>4. InOrder /\ ~Some(q.reqs, ImageWrites) /\ ~Sent({"data"}) /\ ota.offset = Chunks
      BY <1>7, <1>16, <2>4, AskedKinds DEF Upgrade, Verifying, Transfer
    <3>5. ~Some(q.reqs, Asked({"data"}))
      BY <3>4, AskedKinds DEF Some
    <3>6. InLine(q.reqs, Passed, Chunks) /\ Passed = Len(dev.got)
      <4>1. Passed = Len(dev.got) + 0
        BY <3>4 DEF Passed
      <4> DEFINE n == Len(dev.got)
      <4> HIDE DEF n
      <4>2. n \in Nat /\ Passed = n + 0
        BY <1>8, <4>1 DEF n
      <4>3. Passed = n
        BY <4>2
      <4> QED
        BY <3>4, <4>3 DEF InOrder, n
    <3>7. Len(dev.got) = Chunks
      BY <1>8, <3>5, <3>6, InLineNone, Numbers DEF Typed, QueueTyped
    <3>8. dev.mode = "download" /\ dev.got = Image
      BY <3>4, <3>7 DEF InOrder, UpTo, Image
    <3>9. Status(r) = "ok"
      BY <1>8, <2>4, <3>8 DEF Status, DeviceAfter, DeviceType
    <3> QED
      BY <1>1, <2>4, <3>3, <3>8, <3>9 DEF r
  <2> QED
    BY <2>1, <2>3, <2>4
<1> QED
  BY <1>9, <1>12, <1>13, <1>15, <1>16 DEF Going, Course

LEMMA DeviceFlow ==
    ASSUME Typed, Upgrade, Going, Undisturbed, NEW g \in 1 .. Len(gatts), DeviceTakes(g),
           hist' # Hurt(hist)
    PROVE  Going' /\ (dev.mode # "idle" => dev'.mode # "idle")
<1> DEFINE r == gatts[g].op
           d == [r EXCEPT !.done = TRUE]
<1>1. r \in Q!Requests /\ ~r.done /\ UNCHANGED <<q, mGatt, ota, ui>> /\ dev' = DeviceAfter(r)
      /\ air' = IF r.op \in Commands THEN Notified(Status(r)) ELSE air
  BY GattForms DEF DeviceTakes, GattType
<1>2. d \in Q!Requests /\ d.op = r.op /\ d.done
  BY <1>1 DEF Q!Requests
<1>3. gatts' = [gatts EXCEPT ![g] = [gatts[g] EXCEPT !.op = d]]
  BY GattForms DEF DeviceTakes
<1>4. dev \in DeviceType
  BY DEF Typed, RestTyped
<1>5. r = gatts[g].op
  OBVIOUS
<1> HIDE DEF r, d
<1>6. mGatt \in 1 .. Len(gatts) /\ gatts[mGatt].state = "up" /\ gatts'[mGatt].state = "up"
  <2>1. mGatt \in 1 .. Len(gatts) /\ gatts[mGatt].state = "up"
    BY DEF Going, Undisturbed, Typed, GattsTyped
  <2>2. gatts \in Seq(GattType) /\ DOMAIN gatts = 1 .. Len(gatts) /\ gatts[g] \in GattType
    BY GattForms, LenProperties DEF Typed, GattsTyped
  <2> QED
    BY <1>3, <2>1, <2>2 DEF GattType
<1>7. CASE r.op \notin Writes
  <2>1. DevSteady /\ UNCHANGED air
    <3>1. DeviceAfter(r).mode = dev.mode /\ DeviceAfter(r).got = dev.got
      BY <1>4, <1>7 DEF DeviceAfter, DeviceType, Writes
    <3> QED
      BY <1>1, <1>7, <3>1, OpKinds DEF DevSteady
  <2>2. OpsSteady
    <3>1. /\ Len(gatts') = Len(gatts)
          /\ \A h \in 1 .. Len(gatts) : gatts'[h].op = IF h = g THEN d ELSE gatts[h].op
      BY <1>2, <1>3, OpChange
    <3> QED
      BY <1>2, <1>5, <1>7, <3>1 DEF OpsSteady, Open
  <2> QED
    BY <1>1, <1>6, <2>1, <2>2, SteadyFlow DEF QueueSteady, DevSteady
<1>8. CASE r.op \in Writes
  <2>1. /\ r.op \in Commands => Status(r) = "ok"
        /\ r.op # "abort" /\ (r.op = "verify" => dev.mode = "download" /\ dev.got = Image)
        /\ Course'
    BY <1>5, <1>8, WriteTaken
  <2>2. \A h \in Q!Threads : ~Some(air'[h], {"failed"})
    BY <1>1, <2>1, OkayNotified DEF Going
  <2>3. dev.mode # "idle" => dev'.mode # "idle"
    BY <1>1, <1>4, <1>8, <2>1 DEF DeviceAfter, DeviceType, Writes
  <2> QED
    BY <1>1, <1>6, <2>1, <2>2, <2>3 DEF Going, Answered
<1> QED
  BY <1>7, <1>8

-----------------------------------------------------------------------------
(* Its steps: the callbacks                                                *)

\* A request that the upgrade adds, and what is due then.
LEMMA AddDue ==
    ASSUME Typed, NEW r \in Q!Requests, ~r.done, q'.reqs = q.reqs \o <<r>>,
           \A ops \in SUBSET Writes : Sent(ops)' <=> Sent(ops)
    PROVE  /\ \A ops \in SUBSET Writes : r.op \notin ops => (Due(ops)' <=> Due(ops))
           /\ \A ops \in SUBSET Writes : r.op \in ops => Due(ops)'
           /\ ~Some(q.reqs, Answered) => ~Some(q'.reqs, Answered)
<1> DEFINE u == <<r>>
<1>1. u \in Seq(Q!Requests) /\ q'.reqs = q.reqs \o u /\ q.reqs \in Seq(Q!Requests)
      /\ \A E : Some(u, E) <=> r \in E
  BY SomeOne DEF Typed, QueueTyped
<1> HIDE DEF u
<1>2. ASSUME NEW E PROVE Some(q'.reqs, E) <=> Some(q.reqs, E) \/ r \in E
  BY <1>1, SomeConcat
<1>3. ASSUME NEW ops \in SUBSET Writes
      PROVE  (r.op \notin ops => (Due(ops)' <=> Due(ops))) /\ (r.op \in ops => Due(ops)')
  <2>1. Some(q'.reqs, Asked(ops)) <=> Some(q.reqs, Asked(ops)) \/ r.op \in ops
    BY <1>2, AskedKinds
  <2> QED
    BY <2>1 DEF Due, Asked
<1>4. ~Some(q.reqs, Answered) => ~Some(q'.reqs, Answered)
  BY <1>2, AskedKinds
<1> QED
  BY <1>3, <1>4

\* A status arrives: it is no failure, and it answers the one command there was.
LEMMA ChangedFlow ==
    ASSUME Typed, Upgrade, Going, Undisturbed, NEW g \in 1 .. Len(gatts),
           OnOtaCharacteristicChanged(g)
    PROVE  Going'
<1>1. /\ air[g] # <<>> /\ air' = [air EXCEPT ![g] = Tail(@)] /\ g \in Q!Threads
      /\ UNCHANGED <<mGatt, gatts, ui, dev>>
  BY ThreadsSoFar DEF OnOtaCharacteristicChanged
<1>2. air \in [Q!Threads -> Seq({"ok", "failed"})] /\ air[g] \in Seq({"ok", "failed"})
  BY <1>1 DEF Typed, RestTyped
<1>3. \A h \in Q!Threads : ~Some(air'[h], {"failed"})
  BY <1>1, <1>2, SomeTail DEF Going
<1>4. ResponseOk(g)
  <2>1. Head(air[g]) \in {"ok", "failed"} /\ Head(air[g]) # "failed"
    BY <1>1, <1>2, SomeTail, HeadTailProperties DEF Going
  <2> QED
    BY <2>1 DEF OnOtaCharacteristicChanged, Okay
<1>5. Answer /\ ota \in OtaType /\ ota.offset \in Nat
  BY <1>1 DEF Answer, Typed, OtaTyped, OtaType
<1>6. \A ops \in SUBSET Writes : Sent(ops)' <=> Sent(ops)
  BY <1>1 DEF Sent
<1>7. Waiting => ~Some(q.reqs, CommandReqs) /\ ~Sent(Commands)
  BY <1>5 DEF Upgrade, OneToken
<1>8. ASSUME NEW op \in Commands, Waiting PROVE ~Due({op})
  <2>1. Asked({op}) \subseteq CommandReqs
    BY DEF Asked, CommandReqs
  <2> QED
    BY <1>7, <1>8, <2>1 DEF Due, Some, Sent
<1>9. ASSUME Course', ~Some(q'.reqs, Answered), ota'.gatt = ota.gatt PROVE Going'
  BY <1>1, <1>3, <1>9 DEF Going, Answered
<1>10. ASSUME NEW op \in Writes PROVE ~Due(Writes \ {op}) /\ ~Due({op}) => ~Due(Writes)
  BY DEF Due, Some, Sent, Asked
<1>11. ASSUME ~Due(Writes), NEW ops \in SUBSET Writes PROVE ~Due(ops)
  BY <1>11 DEF Due, Some, Sent, Asked
<1>12. CASE ota.state = "WAIT" /\ ota' = [Restarted(ota) EXCEPT !.state = "DATA"]
            /\ Q!Added(g, <<Ota("download", 0)>>)
  <2> DEFINE r == Ota("download", 0)
  <2>1. /\ ota'.gatt = ota.gatt /\ ota'.offset = 0 /\ ota'.state = "DATA"
        /\ q'.reqs = q.reqs \o <<r>>
    BY <1>5, <1>12, AddsTo DEF Restarted, OtaType
  <2>2. r \in Q!Requests /\ r.op = "download" /\ ~r.done
    BY OtaRequest DEF Known
  <2> HIDE DEF r
  <2>3. Waiting /\ {"prepare", "download"} \subseteq Commands
    BY <1>12 DEF Waiting, Commands
  <2>4. /\ ~Due(Writes \ {"prepare"}) /\ ~Due({"prepare"})
        /\ dev.mode = "ready" /\ dev.got = <<>>
    BY <1>8, <1>12, <2>3 DEF Going, Course
  <2>5. ~Due(Writes)
    BY <1>10, <2>3, <2>4, OpKinds
  <2>6. ~Due(Writes \ {"download"})' /\ Due({"download"})' /\ ~Some(q'.reqs, Answered)
    BY <1>6, <1>11, <2>1, <2>2, <2>5, AddDue, AskedKinds DEF Going
  <2>7. Course'
    BY <1>1, <2>1, <2>4, <2>6 DEF Course
  <2> QED
    BY <1>9, <2>1, <2>6, <2>7
<1>13. CASE ota.state = "DATA" /\ ~ota.inTransfer /\ ota' = Chunk(Restarted(ota))
            /\ Q!Added(g, <<Ota("data", 1)>>)
  <2> DEFINE r == Ota("data", 1)
  <2>1. Restarted(ota) \in OtaType /\ Restarted(ota).offset = 0
        /\ Restarted(ota).gatt = ota.gatt /\ Restarted(ota).state = "DATA"
    BY <1>5, <1>13, Numbers DEF Restarted, OtaType
  <2>2. /\ ota'.gatt = ota.gatt /\ ota'.offset = 1 /\ ota'.state = "DATA"
        /\ q'.reqs = q.reqs \o <<r>>
    <3>1. ota'.gatt = ota.gatt /\ ota'.offset = 1 /\ ota'.state = "DATA"
      BY <1>13, <2>1, ChunkType, Numbers
    <3> QED
      BY <1>13, <3>1, AddsTo
  <2>3. r \in Q!Requests /\ r.op = "data" /\ r.x = 1 /\ ~r.done
    BY OtaRequest DEF Known
  <2> HIDE DEF r
  <2>4. ota.offset = 0 /\ ui # "start"
    BY <1>5, <1>13 DEF Upgrade, OneToken, Transfer
  <2>5. Waiting /\ "download" \in Commands
    BY <1>13, <2>4 DEF Waiting, Commands
  <2>6. ~Due({"download"}) /\ ~Due(Writes \ {"download"}) /\ dev.got = <<>> /\ dev.mode = "download"
    BY <1>8, <1>13, <2>4, <2>5 DEF Going, Course
  <2>7. ~Due({"data"})
    BY <1>10, <1>11, <2>5, <2>6, AskedKinds, OpKinds
  <2>8. ~Some(q.reqs, Asked({"data"})) /\ ~Sent({"data"})
    BY <2>7 DEF Due
  <2>9. Len(dev.got) = 0 /\ Passed' = 0 /\ dev.got = UpTo(Len(dev.got))
    <3>1. Len(<<>>) = 0 /\ <<>> = UpTo(0)
      BY EmptySeq DEF UpTo
    <3>2. ~Sent({"data"})'
      BY <1>6, <2>8, AskedKinds
    <3>3. Len(dev.got) = 0
      BY <2>6, <3>1
    <3>4. Passed' = 0 + 0
      BY <1>1, <3>2, <3>3 DEF Passed
    <3>5. Passed' = 0
      BY <3>4
    <3> QED
      BY <2>6, <3>1, <3>3, <3>5
  <2>10. InLine(q.reqs, 0, 0) /\ q.reqs \in Seq(Q!Requests)
    BY <2>8, InLineNone DEF Typed, QueueTyped
  <2>11. InLine(q'.reqs, 0, 1)
    <3>1. r.x = 0 + 1 /\ 0 + 1 = 1
      BY <2>3
    <3>2. InLine(q.reqs \o <<r>>, 0, 0 + 1)
      BY <2>3, <2>10, <3>1, InLineAppend
    <3> QED
      BY <2>2, <3>1, <3>2
  <2>12. \A h \in 1 .. Len(gatts') : ~(gatts'[h].op.op = "data" /\ ~gatts'[h].op.done)
    BY <1>1, <2>8 DEF Sent
  <2>13. Course'
    BY <1>1, <2>2, <2>6, <2>9, <2>11, <2>12 DEF Course, InOrder
  <2>14. ~Some(q'.reqs, Answered)
    BY <1>6, <2>2, <2>3, AddDue DEF Going
  <2> QED
    BY <1>9, <2>2, <2>13, <2>14
<1>14. CASE ota.state = "VERIFICATION" /\ ota' = [ota EXCEPT !.state = "VERIFIED"] /\ UNCHANGED q
  BY <1>5, <1>9, <1>14 DEF Going, Course, OtaType
<1>15. CASE UNCHANGED <<q, ota>>
  <2>1. Course'
    <3>1. /\ InOrder => InOrder'
          /\ \A ops : Due(ops)' <=> Due(ops)
      BY <1>1, <1>15 DEF InOrder, Due, Passed, Sent, Asked
    <3> QED
      BY <1>1, <1>15, <3>1, SteadyCourse DEF Going
  <2> QED
    BY <1>9, <1>15, <2>1 DEF Going
<1> QED
  BY <1>4, <1>12, <1>13, <1>14, <1>15 DEF ResponseOk

\* The end of a request is no step of the image: the device has seen it.
LEMMA OtherSteady ==
    ASSUME Typed, Going, Undisturbed, NEW g \in 1 .. Len(gatts), ~Open(gatts[g].op),
           gatts' = [gatts EXCEPT ![g] = [gatts[g] EXCEPT !.op = Q!NoOp]]
    PROVE  OpsSteady /\ gatts'[mGatt].state = "up"
<1>1. /\ Len(gatts') = Len(gatts)
      /\ \A h \in 1 .. Len(gatts) : gatts'[h].op = IF h = g THEN Q!NoOp ELSE gatts[h].op
  BY NoOpType, OpChange
<1>2. ~Open(Q!NoOp)
  BY NoOpType, OpKinds DEF Open
<1>3. OpsSteady
  BY <1>1, <1>2 DEF OpsSteady
<1>4. gatts'[mGatt].state = "up"
  <2>1. mGatt \in 1 .. Len(gatts) /\ gatts[mGatt].state = "up"
    BY DEF Going, Undisturbed, Typed, GattsTyped
  <2>2. gatts \in Seq(GattType) /\ DOMAIN gatts = 1 .. Len(gatts) /\ gatts[g] \in GattType
    BY GattForms, LenProperties DEF Typed, GattsTyped
  <2> QED
    BY <2>1, <2>2 DEF GattType
<1> QED
  BY <1>3, <1>4

LEMMA CompletesSteady ==
    ASSUME Typed, Going, Undisturbed, NEW g \in 1 .. Len(gatts), NEW ok, Q!Completes(g, ok),
           ok \/ gatts[g].op.op \in {"desc", "proxy"}
    PROVE  OpsSteady /\ gatts'[mGatt].state = "up" /\ UNCHANGED mGatt
<1>1. gatts' = [gatts EXCEPT ![g] = [gatts[g] EXCEPT !.op = Q!NoOp]] /\ UNCHANGED mGatt
  BY GattForms DEF Q!Completes
<1>2. ~Open(gatts[g].op)
  BY OpKinds DEF Q!Completes, Open
<1> QED
  BY <1>1, <1>2, OtherSteady

LEMMA ProceedsFlow ==
    ASSUME Typed, Upgrade, Going, Undisturbed, NEW g \in 1 .. Len(gatts), Q!Completes(g, TRUE),
           Proceeds(g), UNCHANGED <<ui, dev, air>>
    PROVE  Going'
<1>1. OpsSteady /\ gatts'[mGatt].state = "up" /\ UNCHANGED mGatt
  BY CompletesSteady
<1>2. \A ops \in SUBSET Writes : Sent(ops)' <=> Sent(ops)
  BY <1>1, OpsSteadyKeeps
<1>3. ota \in OtaType /\ ota.offset \in Nat /\ Chunks \in Nat /\ Chunks > 0
  BY Numbers DEF Typed, OtaTyped, OtaType
<1>4. ASSUME Course', ~Some(q'.reqs, Answered), ota'.gatt = ota.gatt PROVE Going'
  BY <1>1, <1>4 DEF Going, Answered
<1>5. Passed' = Passed /\ Passed \in Nat
  <2>1. Sent({"data"})' <=> Sent({"data"})
    BY <1>2, AskedKinds
  <2> QED
    BY <2>1, PassedType DEF Passed
<1>6. InOrder => \A h \in 1 .. Len(gatts') :
         gatts'[h].op.op = "data" /\ ~gatts'[h].op.done => gatts'[h].op.x = Len(dev.got) + 1
  BY <1>1, OpsSteadyKeeps DEF InOrder
<1>7. CASE AllSent(ota) /\ ota' = [ota EXCEPT !.state = "VERIFICATION"]
           /\ q' = [q EXCEPT !.reqs = @ \o <<Ota("verify", 0)>>, !.running = TRUE]
  <2> DEFINE r == Ota("verify", 0)
  <2>1. ota.state = "DATA" /\ ota.offset = Chunks /\ q'.reqs = q.reqs \o <<r>>
    BY <1>7 DEF AllSent, Typed, QueueTyped
  <2>2. /\ ota'.gatt = ota.gatt /\ ota'.offset = ota.offset /\ ota'.state = "VERIFICATION"
    BY <1>3, <1>7 DEF OtaType
  <2>3. r \in Q!Requests /\ r.op = "verify" /\ ~r.done
    BY OtaRequest DEF Known
  <2> HIDE DEF r
  <2>4. ui # "start" /\ InOrder
    BY <1>3, <2>1 DEF Upgrade, Transfer, Going, Course
  <2>5. ~Due(Commands \ {"verify"})
    <3>1. ~Some(q.reqs, CommandReqs) /\ ~Sent(Commands)
      BY <1>3, <2>1 DEF Upgrade, OneToken
    <3> QED
      BY <3>1 DEF Due, Some, Sent, Asked, CommandReqs
  <2>6. ~Due(Commands \ {"verify"})' /\ ~Some(q'.reqs, Answered)
    <3>1. Commands \ {"verify"} \in SUBSET Writes /\ "verify" \notin Commands \ {"verify"}
      BY AskedKinds
    <3> QED
      BY <1>2, <2>1, <2>3, <2>5, <3>1, AddDue DEF Going
  <2>7. InOrder'
    <3>1. InLine(q.reqs, Passed, ota.offset) /\ q.reqs \in Seq(Q!Requests)
      BY <2>4 DEF InOrder, Typed, QueueTyped
    <3>2. InLine(q'.reqs, Passed, ota.offset)
      BY <1>3, <1>5, <2>1, <2>3, <3>1, InLineAppend
    <3> QED
      BY <1>5, <1>6, <2>2, <2>4, <3>2 DEF InOrder
  <2>8. Course'
    BY <2>2, <2>6, <2>7 DEF Course
  <2> QED
    BY <1>4, <2>2, <2>6, <2>8
<1>8. CASE ~AllSent(ota) /\ ota.inTransfer /\ ota.offset < Chunks /\ ota' = Chunk(ota)
           /\ q' = [q EXCEPT !.reqs = @ \o <<Ota("data", ota.offset + 1)>>, !.running = TRUE]
  <2> DEFINE r == Ota("data", ota.offset + 1)
  <2>1. q'.reqs = q.reqs \o <<r>>
    BY <1>8 DEF Typed, QueueTyped
  <2>2. /\ ota'.gatt = ota.gatt /\ ota'.offset = ota.offset + 1 /\ ota'.state = ota.state
    BY <1>3, <1>8, ChunkType
  <2>3. r \in Q!Requests /\ r.op = "data" /\ r.x = ota.offset + 1 /\ ~r.done
    <3>1. "data" \in Known /\ ota.offset + 1 \in Nat
      BY <1>3 DEF Known
    <3> QED
      BY <3>1, OtaRequest
  <2> HIDE DEF r
  <2>4. ota.offset > 0 /\ ui # "start" /\ ota.state \notin {"WAIT", "VERIFICATION", "VERIFIED"}
    BY <1>3, <1>8 DEF Upgrade, Transfer
  <2>5. ota.state = "DATA" /\ InOrder
    BY <1>3, <2>4 DEF Going, Course
  <2>6. InOrder'
    <3>1. InLine(q.reqs, Passed, ota.offset) /\ q.reqs \in Seq(Q!Requests)
      BY <2>5 DEF InOrder, Typed, QueueTyped
    <3>2. InLine(q'.reqs, Passed, ota.offset + 1)
      BY <1>3, <1>5, <2>1, <2>3, <3>1, InLineAppend
    <3> QED
      BY <1>5, <1>6, <2>2, <2>5, <3>2 DEF InOrder
  <2>7. ota'.offset > 0
    BY <1>3, <2>2
  <2>8. Course'
    BY <2>2, <2>5, <2>6, <2>7 DEF Course
  <2>9. ~Some(q'.reqs, Answered)
    BY <1>2, <2>1, <2>3, AddDue DEF Going
  <2> QED
    BY <1>4, <2>2, <2>8, <2>9
<1>9. ~(ota.inTransfer /\ ota.state = "ABORTED")
  BY DEF Upgrade, Transfer, Going, Course
<1>10. CASE ota' = ota /\ q' = q
  BY <1>1, <1>10, SteadyFlow DEF QueueSteady, DevSteady
<1> QED
  BY <1>7, <1>8, <1>9, <1>10, ProceedsForms

-----------------------------------------------------------------------------
(* The image on its way: the invariant, and what it gives                  *)

\* While such an upgrade has its connection, the library does not connect.
LEMMA ClearingFlow ==
    ASSUME Typed, [Next]_vars, Flow, Undisturbed', ~Start => Undisturbed PROVE ~q'.clearing
<1>1. q \in [reqs : Seq(Q!Requests), running : BOOLEAN, clearing : BOOLEAN]
  BY DEF Typed, QueueTyped
<1>2. ASSUME NEW t, NEW rs, Q!Added(t, rs) PROVE q'.clearing = q.clearing
  BY <1>1, <1>2 DEF Q!Added
<1>3. CASE Start
  BY <1>2, <1>3 DEF Start, Q!AppIdle
<1>4. CASE ~Start
  <2>1. ~q.clearing /\ mGatt # 0 /\ gatts[mGatt].state # "connecting"
    BY <1>4 DEF Flow, Undisturbed, Going, Asleep
  <2>2. ~Q!Connect
    BY <2>1 DEF Q!Connect
  <2>3. CASE User \/ MainThread \/ UNCHANGED vars
    BY <1>1, <1>2, <1>4, <2>1, <2>3 DEF User, MainThread, Stop, Started, Stopped, Connecting,
       Q!ConnectGatt, vars, queueVars
  <2>4. CASE Nexts \/ Device
    BY <1>1, <2>1, <2>4 DEF Nexts, Q!RunNext, Q!Empties, Q!Issues, Q!Refused, Device, DeviceTakes
  <2>5. CASE Library \/ Q!Disconnect
    BY <1>2, <2>1, <2>2, <2>5 DEF Library, Connections, Q!DeviceConnected, Q!SendProxyPacket,
                                  Q!Disconnect
  <2>6. ASSUME NEW g \in 1 .. Len(gatts), Callback(g) \/ Ends(g) \/ Lost(g) PROVE ~q'.clearing
    <3>1. CASE OnOtaCharacteristicChanged(g)
      BY <1>2, <2>1, <3>1 DEF OnOtaCharacteristicChanged, ResponseOk, ResponseFailed
    <3>2. CASE OnOtaCharacteristicWrite(g) /\ Proceeds(g)
      <4>1. q' = q \/ \E rs : q' = [q EXCEPT !.reqs = rs, !.running = TRUE]
        BY <3>2, ProceedsForms
      <4> QED
        BY <1>1, <2>1, <4>1
    <3>3. CASE ~(OnOtaCharacteristicChanged(g) \/ (OnOtaCharacteristicWrite(g) /\ Proceeds(g)))
      BY <2>1, <2>6, <3>3 DEF Callback, OnOtaCharacteristicWrite, OnOtherWrite, Q!OnOtherWrite,
         Q!AsksNext, MeshSubscribed, Q!OnMeshDescriptorWrite, Ends, Q!OnDisconnected, Lost, Q!LinkLost
    <3> QED
      BY <3>1, <3>2, <3>3
  <2> QED
    BY <1>4, <2>3, <2>4, <2>5, <2>6 DEF Next
<1> QED
  BY <1>3, <1>4

\* Nothing wakes the queue but a new connection.
LEMMA AsleepStep ==
    ASSUME Typed, [Next]_vars, Asleep, ~q.clearing, Undisturbed, Undisturbed', ~Start,
           hist' # Hurt(hist)
    PROVE  Asleep'
<1>1. /\ mGatt \in 1 .. Len(gatts) /\ mGatt # Q!App /\ Q!App = 0
      /\ nexts \in [Q!Threads -> Nat] /\ gatts \in Seq(GattType) /\ DOMAIN gatts = 1 .. Len(gatts)
      /\ q \in [reqs : Seq(Q!Requests), running : BOOLEAN, clearing : BOOLEAN]
  BY LenProperties DEF Undisturbed, Asleep, Typed, GattsTyped, NextsTyped, QueueTyped, Q!App
<1>2. ota'.gatt = ota.gatt
  BY OtaKept
<1>3. gatts[mGatt].op.op \in {"none", "cccd"}
  BY DEF Asleep, Busy
<1>4. ASSUME UNCHANGED mGatt, q'.running, nexts'[Q!App] = 0, nexts'[mGatt] = 0,
             gatts'[mGatt] = gatts[mGatt]
      PROVE  Asleep'
  BY <1>2, <1>4 DEF Asleep, Busy
<1>5. ASSUME NEW t, NEW rs, Q!Added(t, rs) PROVE q'.running /\ nexts' = nexts
  BY <1>1, <1>5 DEF Q!Added, Asleep
<1>6. CASE Stop \/ Started \/ UNCHANGED vars
  BY <1>4, <1>6 DEF Stop, Started, vars, queueVars, Asleep
<1>7. CASE Stopped
  BY <1>4, <1>5, <1>7 DEF Stopped, Asleep
<1>8. ~Connecting /\ ~Q!Connect
  BY <1>1 DEF Connecting, Q!ConnectGatt, Q!Connect, Asleep
<1>9. ~Nexts
  <2> SUFFICES ASSUME NEW t \in Q!Threads, Q!RunNext(t) PROVE FALSE
    BY DEF Nexts
  <2> DEFINE st == seen.stale \/ (t \notin {Q!App, mGatt} /\ mGatt # 0)
             rf == seen.refused \/ (Q!Refused /\ Q!Unnoticed(Head(q.reqs)))
  <2>1. seen' = [seen EXCEPT !.stale = st, !.refused = rf] /\ nexts[t] > 0
    BY DEF Q!RunNext
  <2> HIDE DEF st, rf
  <2>2. ~st
    BY <2>1 DEF Undisturbed, Typed, GattsTyped
  <2> QED
    BY <1>1, <2>1, <2>2 DEF st, Asleep
<1>10. CASE Device
  <2>1. PICK g \in 1 .. Len(gatts) : DeviceTakes(g)
    BY <1>10 DEF Device
  <2>2. g # mGatt /\ gatts' = [gatts EXCEPT ![g].op.done = TRUE] /\ UNCHANGED <<q, mGatt, nexts>>
    BY <1>3, <2>1 DEF DeviceTakes
  <2> QED
    BY <1>1, <1>4, <2>2 DEF Asleep
<1>11. CASE Connections
  <2>1. PICK g \in 1 .. Len(gatts) : Q!DeviceConnected(g)
    BY <1>11 DEF Connections
  <2>2. g # mGatt /\ gatts' = [gatts EXCEPT ![g] = FoundConnection(g)]
        /\ UNCHANGED <<q, mGatt, nexts>>
    BY <2>1 DEF Q!DeviceConnected, FoundConnection, Asleep
  <2> QED
    BY <1>1, <1>4, <2>2 DEF Asleep
<1>12. CASE Q!SendProxyPacket
  BY <1>4, <1>5, <1>12 DEF Q!SendProxyPacket, Asleep
<1>13. ASSUME NEW g \in 1 .. Len(gatts), Callback(g) \/ Ends(g) \/ Lost(g) PROVE Asleep'
  <2>1. CASE OnOtaCharacteristicChanged(g)
    <3>1. (q'.running /\ nexts' = nexts) /\ UNCHANGED <<mGatt, gatts>>
      BY <1>5, <2>1 DEF OnOtaCharacteristicChanged, ResponseOk, ResponseFailed, Asleep
    <3> QED
      BY <1>4, <3>1 DEF Asleep
  <2>2. ASSUME NEW ok, Q!Completes(g, ok), NEW n \in Nat, q'.running,
               nexts' = [nexts EXCEPT ![g] = n]
        PROVE  Asleep'
    <3>1. g # mGatt /\ g # Q!App /\ gatts' = [gatts EXCEPT ![g].op = Q!NoOp] /\ UNCHANGED mGatt
      BY <1>1, <1>3, <2>2 DEF Q!Completes
    <3>2. nexts'[Q!App] = 0 /\ nexts'[mGatt] = 0
      BY <1>1, <2>2, <3>1 DEF Asleep
    <3> QED
      BY <1>1, <1>4, <2>2, <3>1, <3>2
  <2>3. g \in Q!Threads /\ nexts[g] \in Nat
    BY <1>1, ThreadsSoFar
  <2>4. CASE OnOtaCharacteristicWrite(g)
    <3>1. CASE Q!Completes(g, TRUE) /\ Proceeds(g)
      <4>1. PICK n \in {0, 1} : nexts' = [nexts EXCEPT ![g] = nexts[g] + 1 + n]
        BY <3>1 DEF Proceeds
      <4>2. q'.running
        <5>1. q' = q \/ \E rs : q' = [q EXCEPT !.reqs = rs, !.running = TRUE]
          BY <3>1, ProceedsForms
        <5> QED
          BY <1>1, <5>1 DEF Asleep
      <4>3. nexts[g] + 1 + n \in Nat
        BY <2>3, <4>1
      <4> QED
        BY <2>2, <3>1, <4>1, <4>2, <4>3
    <3> QED
      BY <2>4, <3>1 DEF OnOtaCharacteristicWrite
  <2>5. CASE OnOtherWrite(g)
    <3>1. PICK ok \in BOOLEAN : Q!Completes(g, ok) /\ Q!AsksNext(g)
      BY <2>5 DEF OnOtherWrite, Q!OnOtherWrite
    <3>2. nexts' = [nexts EXCEPT ![g] = nexts[g] + 1] /\ nexts[g] + 1 \in Nat /\ q'.running
      BY <2>3, <3>1 DEF Q!AsksNext, Asleep
    <3> QED
      BY <2>2, <3>1, <3>2
  <2>6. CASE MeshSubscribed(g)
    <3>1. gatts' = [gatts EXCEPT ![g].op = Q!NoOp] /\ UNCHANGED <<q, mGatt, nexts>>
      BY <2>6 DEF MeshSubscribed, Q!OnMeshDescriptorWrite
    <3>2. gatts'[mGatt].state = gatts[mGatt].state
          /\ gatts'[mGatt].op \in {gatts[mGatt].op, Q!NoOp}
      BY <1>1, <3>1, GattForms DEF GattType
    <3> QED
      BY <1>2, <1>3, <3>1, <3>2, NoOpType DEF Asleep, Busy
  <2> QED
    BY <1>13, <2>1, <2>4, <2>5, <2>6 DEF Callback, Ends, Lost, Forgets
<1> QED
  BY <1>6, <1>7, <1>8, <1>9, <1>10, <1>11, <1>12, <1>13 DEF Next, User, MainThread, Library

LEMMA GoingStep ==
    ASSUME IInv, Typed', Flow, [Next]_vars, Undisturbed'
    PROVE  ~q'.clearing /\ (Going' \/ Asleep')
<1>1. Typed /\ Serial /\ Served
  BY DEF IInv, Aside
<1>2. CASE Start
  BY <1>1, <1>2, StartFlow, ClearingFlow
<1>3. CASE ~Start
  <2>1. Undisturbed /\ hist' # Hurt(hist) /\ ~Stop /\ ~q'.clearing
    BY <1>1, <1>3, UndisturbedBefore, ClearingFlow
  <2>2. ~q.clearing /\ (Going \/ Asleep) /\ (Asleep => Asleep')
    BY <1>1, <1>3, <2>1, AsleepStep DEF Flow
  <2> SUFFICES ASSUME Going PROVE Going' \/ Asleep'
    BY <2>1, <2>2
  <2>3. Upgrade
    BY <2>1 DEF IInv, Undisturbed
  <2>4. CASE Started \/ Stopped \/ UNCHANGED vars
    BY <1>1, <2>3, <2>4, MainFlow
  <2>5. ~Connecting
    BY <2>2 DEF Connecting, Q!ConnectGatt
  <2>6. CASE Nexts
    BY <1>1, <2>1, <2>3, <2>6, RunNextFlow DEF Nexts
  <2>7. CASE Device
    BY <1>1, <2>1, <2>3, <2>7, DeviceFlow DEF Device
  <2>8. CASE Library /\ UNCHANGED otaVars
    BY <1>1, <2>1, <2>3, <2>8, LibraryFlow
  <2>9. ASSUME NEW g \in 1 .. Len(gatts), Callback(g) \/ Ends(g) \/ Lost(g) PROVE Going'
    <3>1. CASE OnOtaCharacteristicChanged(g)
      BY <1>1, <2>1, <2>3, <3>1, ChangedFlow
    <3>2. CASE OnOtaCharacteristicWrite(g)
      BY <1>1, <2>1, <2>3, <3>2, ProceedsFlow DEF OnOtaCharacteristicWrite
    <3>3. CASE OnOtherWrite(g)
      <4>1. /\ Q!Completes(g, TRUE) /\ Q!AsksNext(g) /\ gatts[g].op.op \in {"desc", "proxy"}
            /\ UNCHANGED <<ota, ui, dev, air>>
        BY <2>1, <3>3 DEF OnOtherWrite, Q!OnOtherWrite
      <4>2. OpsSteady /\ gatts'[mGatt].state = "up" /\ UNCHANGED mGatt
        BY <1>1, <2>1, <4>1, CompletesSteady
      <4> QED
        BY <1>1, <4>1, <4>2, SteadyFlow DEF Q!AsksNext, QueueSteady, DevSteady
    <3>4. CASE Ends(g) \/ Lost(g)
      BY <2>1, <3>4 DEF Ends, Lost, Forgets
    <3>5. CASE MeshSubscribed(g)
      <4>1. gatts[g].op.op = "cccd" /\ gatts' = [gatts EXCEPT ![g] = [gatts[g] EXCEPT !.op = Q!NoOp]]
            /\ UNCHANGED <<q, mGatt, ota, ui, dev, air>>
        BY <3>5, GattForms DEF MeshSubscribed, Q!OnMeshDescriptorWrite, otaVars
      <4>2. OpsSteady /\ gatts'[mGatt].state = "up"
        BY <1>1, <2>1, <4>1, OpKinds, OtherSteady DEF Open
      <4> QED
        BY <1>1, <4>1, <4>2, SteadyFlow DEF QueueSteady, DevSteady
    <3> QED
      BY <2>9, <3>1, <3>2, <3>3, <3>4, <3>5 DEF Callback
  <2> QED
    BY <1>3, <2>1, <2>4, <2>5, <2>6, <2>7, <2>8, <2>9 DEF Next, User, MainThread
<1> QED
  BY <1>2, <1>3

LEMMA FlowInvariant == Spec => [](IInv /\ Flow)
<1>1. Init => IInv /\ Flow
  BY TypeInit, AsideInit, SerialInit, UpgradeInit DEF IInv, Flow, Undisturbed, Init
<1>2. IInv /\ Flow /\ [Next]_vars => (IInv /\ Flow)'
  <2>1. IInv /\ [Next]_vars => IInv'
    BY TypeStep, AsideStep, SerialStep, UpgradeStep DEF IInv, Aside
  <2>2. IInv' => Typed'
    BY DEF IInv
  <2>3. IInv /\ Typed' /\ Flow /\ [Next]_vars
          => (Undisturbed' => ~q'.clearing /\ (Going' \/ Asleep'))
    BY GoingStep
  <2> QED
    BY <2>1, <2>2, <2>3 DEF Flow
<1> QED
  BY <1>1, <1>2, PTL DEF Spec

\* A step of an undisturbed upgrade after which the device has discarded what
\* it had.
LEMMA DiscardStep ==
    ASSUME IInv, Flow, Next, hist.clean, ~hist'.hurt, ~seen.stale, dev.mode # "idle"
    PROVE  dev'.mode # "idle"
<1>1. Typed /\ Upgrade /\ hist \in HistoryType
  BY DEF IInv, Typed, RestTyped
<1>2. Hurt(hist).hurt = TRUE
  BY <1>1 DEF Hurt, HistoryType
<1>3. CASE Device
  <2>1. PICK g \in 1 .. Len(gatts) : DeviceTakes(g)
    BY <1>3 DEF Device
  <2>2. hist' = hist /\ dev' = DeviceAfter(gatts[g].op)
    BY <1>2, <2>1 DEF DeviceTakes
  <2>3. CASE gatts[g].op.op \in Writes
    <3>1. g = ota.gatt
      BY <1>1, <2>3 DEF Upgrade, Own
    <3>2. Undisturbed /\ hist' # Hurt(hist)
      BY <1>2, <2>2, <3>1 DEF Undisturbed
    <3>3. ~Asleep
      BY <2>3, <3>1, OpKinds DEF Asleep, Busy
    <3>4. Going
      BY <3>2, <3>3 DEF Flow
    <3> QED
      BY <1>1, <2>1, <3>2, <3>4, DeviceFlow
  <2>4. CASE gatts[g].op.op \notin Writes
    <3>1. dev \in DeviceType
      BY <1>1 DEF Typed, RestTyped
    <3> QED
      BY <2>2, <2>4, <3>1 DEF DeviceAfter, DeviceType, Writes
  <2> QED
    BY <2>3, <2>4
<1>4. CASE User \/ MainThread \/ Nexts \/ (Library /\ UNCHANGED otaVars)
  BY <1>4 DEF User, MainThread, Start, Stop, Started, Stopped, Connecting, Nexts, otaVars
<1>5. CASE Q!Disconnect /\ hist' = Hurt(hist) /\ UNCHANGED <<ota, ui, dev, air>>
  BY <1>2, <1>5
<1>6. ASSUME NEW g \in 1 .. Len(gatts), Callback(g) \/ Ends(g) \/ Lost(g) PROVE dev'.mode # "idle"
  <2>1. CASE Ends(g) \/ Lost(g)
    BY <1>2, <2>1 DEF Ends, Lost, Forgets
  <2> QED
    BY <1>6, <2>1 DEF Callback, OnOtaCharacteristicChanged, OnOtaCharacteristicWrite, OnOtherWrite,
                      MeshSubscribed, otaVars
<1> QED
  BY <1>3, <1>4, <1>5, <1>6 DEF Next

\* The packets of such an upgrade reach the device once each and in order,
\* before the VERIFY, whatever the size of the image and whatever else goes
\* through the queue: the device never discards what it has been sent.  Unless
\* a request was refused by the device, someone has stopped, the connection
\* has ended or the thread of an older one has taken a request.
THEOREM ImageSentAlways == Spec => ImageSent
<1>1. IInv /\ Flow /\ [Next]_vars =>
        [ hist.clean /\ ~hist'.hurt /\ ~seen.stale /\ dev.mode # "idle" => dev'.mode # "idle" ]_vars
  BY DiscardStep
<1> QED
  BY <1>1, FlowInvariant, PTL DEF Spec, ImageSent

=============================================================================
