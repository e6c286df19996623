--------------------------- MODULE WinLinkProofs ---------------------------
(***************************************************************************)
(* What holds of the GATT connection of the Windows client however often   *)
(* the mesh library connects.                                              *)
(***************************************************************************)
EXTENDS WinLink, SequenceTheorems, TLAPS

-----------------------------------------------------------------------------
(* Queues                                                                  *)

Has(s, m) == \E i \in 1 .. Len(s) : s[i].m = m
Single(s, m) == \A i, j \in 1 .. Len(s) : s[i].m = m /\ s[j].m = m => i = j

LEMMA HasAppend ==
    ASSUME NEW S, NEW s \in Seq(S), NEW e \in S, NEW m
    PROVE  /\ Has(Append(s, e), m) <=> Has(s, m) \/ e.m = m
           /\ Single(s, m) /\ ~(Has(s, m) /\ e.m = m) => Single(Append(s, e), m)
<1>1. /\ Len(s) \in Nat /\ Len(Append(s, e)) = Len(s) + 1
      /\ \A i \in 1 .. Len(s) : Append(s, e)[i] = s[i]
      /\ Append(s, e)[Len(s) + 1] = e
  BY AppendProperties, LenProperties
<1> QED
  BY <1>1 DEF Has, Single

LEMMA HasTail ==
    ASSUME NEW S, NEW s \in Seq(S), s # <<>>, NEW m
    PROVE  /\ Has(s, m) <=> Head(s).m = m \/ Has(Tail(s), m)
           /\ Single(s, m) => Single(Tail(s), m)
           /\ Single(s, m) /\ Head(s).m = m => ~Has(Tail(s), m)
<1>1. /\ Len(s) \in Nat \ {0} /\ Len(Tail(s)) = Len(s) - 1
      /\ \A i \in 1 .. Len(s) - 1 : Tail(s)[i] = s[i + 1]
      /\ Head(s) = s[1]
  BY HeadTailProperties, LenProperties, EmptySeq
<1>2. ASSUME Has(s, m) PROVE Head(s).m = m \/ Has(Tail(s), m)
  <2> PICK i \in 1 .. Len(s) : s[i].m = m
    BY <1>2 DEF Has
  <2>1. i # 1 => i - 1 \in 1 .. Len(Tail(s)) /\ Tail(s)[i - 1].m = m
    BY <1>1
  <2> QED
    BY <1>1, <2>1 DEF Has
<1>3. ASSUME Head(s).m = m \/ Has(Tail(s), m) PROVE Has(s, m)
  BY <1>1, <1>3 DEF Has
<1> QED
  BY <1>1, <1>2, <1>3 DEF Has, Single

-----------------------------------------------------------------------------
(* Types                                                                   *)

Messages == [m : {"CONNECT", "DISCONNECT", "DISCONNECTED", "CCCD_PUT_COMPLETE"}, n : {0}]
Writes == [iface : Nat, op : {"subscribe"}, x : {<<>>}, done : BOOLEAN]
Seen == [asked : Nat, ifaces : Nat, subscribed : Nat, missed : Nat,
         torn : BOOLEAN, silent : BOOLEAN, stale : BOOLEAN]

LEMMA MessageType ==
    \A m \in {"CONNECT", "DISCONNECT", "DISCONNECTED", "CCCD_PUT_COMPLETE"} :
       Message(m, 0) \in Messages
  BY DEF Message, Messages

LEMMA WriteType == \A i \in Nat : Write(i, "subscribe", <<>>) \in Writes
  BY DEF Write, Writes

LEMMA AttDone ==
    ASSUME NEW s \in Seq(Writes), s # <<>>
    PROVE  /\ [s EXCEPT ![1].done = TRUE] \in Seq(Writes)
           /\ Len([s EXCEPT ![1].done = TRUE]) = Len(s)
           /\ \A i \in 1 .. Len(s) : /\ [s EXCEPT ![1].done = TRUE][i].iface = s[i].iface
                                     /\ [s EXCEPT ![1].done = TRUE][i].op = s[i].op
<1>1. Len(s) \in Nat \ {0} /\ 1 \in 1 .. Len(s)
  BY LenProperties, EmptySeq
<1>2. \A i \in 1 .. Len(s) : s[i] \in Writes
  BY ElementOfSeq
<1> DEFINE w == [s[1] EXCEPT !.done = TRUE]
<1>3. w \in Writes /\ w.iface = s[1].iface /\ w.op = s[1].op
  BY <1>1, <1>2 DEF Writes
<1>4. [s EXCEPT ![1].done = TRUE] = [s EXCEPT ![1] = w]
  OBVIOUS
<1> HIDE DEF w
<1>5. /\ [s EXCEPT ![1] = w] \in Seq(Writes)
      /\ Len([s EXCEPT ![1] = w]) = Len(s)
      /\ \A i \in 1 .. Len(s) : [s EXCEPT ![1] = w][i] = IF i = 1 THEN w ELSE s[i]
  BY <1>1, <1>3, ExceptSeq
<1> QED
  BY <1>1, <1>3, <1>4, <1>5

LEMMA TypeDef ==
    TypeOK <=> /\ lib \in {"idle", "connecting", "connected", "disconnecting"}
               /\ connecting \in BOOLEAN
               /\ iface \in Nat
               /\ state \in {"connecting", "connected", "unconnected"}
               /\ ui \in {"idle", "init", "crashed"}
               /\ msgs \in Seq(Messages)
               /\ link \in {"down", "up"}
               /\ att \in Seq(Writes)
               /\ seen \in Seen
  BY DEF TypeOK, Messages, Writes, Seen

\* The queue that a handler leaves, or a post makes, is one of messages.
LEMMA QueueType ==
    ASSUME TypeOK
    PROVE  /\ \A m \in {"CONNECT", "DISCONNECT", "DISCONNECTED", "CCCD_PUT_COMPLETE"} :
                 Append(msgs, Message(m, 0)) \in Seq(Messages)
           /\ msgs # <<>> => Tail(msgs) \in Seq(Messages)
           /\ \A i \in Nat : Append(att, Write(i, "subscribe", <<>>)) \in Seq(Writes)
           /\ att # <<>> => Tail(att) \in Seq(Writes) /\ Head(att) \in Writes
<1>1. msgs \in Seq(Messages) /\ att \in Seq(Writes)
  BY TypeDef
<1> QED
  BY <1>1, MessageType, WriteType, AppendProperties, HeadTailProperties

LEMMA TornType ==
    ASSUME TypeOK, TearDown PROVE seen' \in Seen
<1> DEFINE b == seen.torn \/ connecting
<1>1. b \in BOOLEAN
  OBVIOUS
<1>2. seen \in Seen /\ seen' = [seen EXCEPT !.torn = b]
  BY TypeDef DEF TearDown
<1> HIDE DEF b
<1> QED
  BY <1>1, <1>2 DEF Seen

LEMMA MissedType ==
    ASSUME TypeOK, LinkDown
    PROVE  /\ seen' \in Seen
           /\ seen'.torn = seen.torn /\ seen'.stale = seen.stale
           /\ seen'.silent = seen.silent /\ seen'.subscribed = seen.subscribed
<1> DEFINE n == IF Connecting /\ ui # "init" THEN iface ELSE seen.missed
<1>1. seen \in Seen /\ n \in Nat
  BY TypeDef DEF Seen
<1>2. seen' = [seen EXCEPT !.missed = n]
  BY DEF LinkDown
<1> HIDE DEF n
<1> QED
  BY <1>1, <1>2 DEF Seen

LEMMA TypeInit == Init => TypeOK
<1> SUFFICES ASSUME Init PROVE TypeOK
  OBVIOUS
<1>1. msgs \in Seq(Messages) /\ att \in Seq(Writes)
  BY EmptySeq DEF Init
<1>2. seen \in Seen
  BY DEF Init, Seen
<1> QED
  BY <1>1, <1>2, TypeDef DEF Init

LEMMA TypeStep == TypeOK /\ [Next]_linkVars => TypeOK'
<1> SUFFICES ASSUME TypeOK, [Next]_linkVars PROVE TypeOK'
  OBVIOUS
<1> DEFINE Typed ==
       /\ lib \in {"idle", "connecting", "connected", "disconnecting"}
       /\ connecting \in BOOLEAN
       /\ iface \in Nat
       /\ state \in {"connecting", "connected", "unconnected"}
       /\ ui \in {"idle", "init", "crashed"}
       /\ msgs \in Seq(Messages)
       /\ link \in {"down", "up"}
       /\ att \in Seq(Writes)
       /\ seen \in Seen
<1>0. Typed
  BY TypeDef
<1> SUFFICES Typed'
  BY DEF TypeOK, Messages, Writes, Seen
<1>q. /\ \A m \in {"CONNECT", "DISCONNECT", "DISCONNECTED", "CCCD_PUT_COMPLETE"} :
            Append(msgs, Message(m, 0)) \in Seq(Messages)
      /\ msgs # <<>> => Tail(msgs) \in Seq(Messages)
      /\ \A i \in Nat : Append(att, Write(i, "subscribe", <<>>)) \in Seq(Writes)
      /\ att # <<>> => Tail(att) \in Seq(Writes) /\ Head(att) \in Writes
  BY QueueType
<1>1. CASE GattConnect
  <2>1. seen.asked + 1 \in Nat /\ seen' = [seen EXCEPT !.asked = seen.asked + 1]
    BY <1>0, <1>1 DEF GattConnect, Seen
  <2>2. seen' \in Seen
    BY <1>0, <2>1 DEF Seen
  <2> QED
    BY <1>0, <1>q, <1>1, <2>2 DEF GattConnect, Post
<1>2. CASE GattDisconnect
  BY <1>0, <1>q, <1>2 DEF GattDisconnect, Post
<1>3. CASE OnMeshDeviceConnect
  <2>1. msgs' \in Seq(Messages)
    BY <1>q, <1>3 DEF OnMeshDeviceConnect, Takes
  <2>2. seen.ifaces + 1 \in Nat /\ seen' \in Seen
    <3>1. seen.ifaces + 1 \in Nat
      BY <1>0 DEF Seen
    <3>2. \/ seen' = seen
          \/ seen' = [seen EXCEPT !.ifaces = seen.ifaces + 1]
          \/ seen' = [seen EXCEPT !.ifaces = seen.ifaces + 1, !.silent = TRUE]
      BY <1>3 DEF OnMeshDeviceConnect
    <3> QED
      BY <1>0, <3>1, <3>2 DEF Seen
  <2> QED
    BY <1>0, <1>3, <2>1, <2>2 DEF OnMeshDeviceConnect, GiveUp
<1>4. CASE InitReturns
  <2>1. CASE GiveUp /\ UNCHANGED <<link, att, seen>>
    BY <1>0, <1>q, <1>4, <2>1 DEF InitReturns, GiveUp
  <2>2. CASE Subscribe(iface) /\ UNCHANGED <<lib, connecting, iface, state, msgs, link>>
    BY <1>0, <1>q, <1>4, <2>2 DEF InitReturns, GiveUp, Subscribe
  <2>3. CASE SubscribeNothing /\ UNCHANGED <<lib, connecting, iface, state, msgs, link>>
    BY <1>0, <1>4, <2>3 DEF InitReturns, GiveUp, SubscribeNothing, Seen
  <2> QED
    BY <1>4, <2>1, <2>2, <2>3 DEF InitReturns
<1>5. CASE OnMeshDeviceCCCDPutComplete
  BY <1>0, <1>q, <1>5 DEF OnMeshDeviceCCCDPutComplete, Takes
<1>6. CASE OnMeshDeviceDisconnect
  BY <1>0, <1>q, <1>6, TornType DEF OnMeshDeviceDisconnect, Takes, TearDown
<1>7. CASE OnMeshDeviceDisconnected
  BY <1>0, <1>q, <1>7, TornType DEF OnMeshDeviceDisconnected, Takes, TearDown
<1>8. CASE LinkUp
  BY <1>0, <1>8 DEF LinkUp
<1>9. CASE LinkDown
  <2>1. seen' \in Seen
    BY <1>9, MissedType
  <2> QED
    BY <1>0, <1>q, <1>9, <2>1 DEF LinkDown, Post
<1>10. CASE DeviceTakes
  BY <1>0, <1>10, AttDone DEF DeviceTakes
<1>11. CASE SubscribeCompletes
  <2>1. PICK ok \in BOOLEAN :
           /\ seen' = [seen EXCEPT !.subscribed = IF ok THEN Head(att).iface ELSE @,
                                   !.stale = @ \/ Head(att).iface # iface]
           /\ InObject(Head(att).iface, Reply(ok), UNCHANGED msgs)
    BY <1>11 DEF SubscribeCompletes, Writes, InObject
  <2>2. seen' \in Seen
    BY <1>0, <1>q, <1>11, <2>1 DEF Seen, Writes, SubscribeCompletes
  <2>3. msgs' \in Seq(Messages) /\ ui' \in {"idle", "init", "crashed"}
    BY <1>0, <1>q, <2>1 DEF InObject, Reply, Post
  <2> QED
    BY <1>0, <1>q, <1>11, <2>2, <2>3 DEF SubscribeCompletes
<1>12. CASE UNCHANGED linkVars
  BY <1>0, <1>12 DEF linkVars
<1> QED
  BY <1>1, <1>2, <1>3, <1>4, <1>5, <1>6, <1>7, <1>8, <1>9, <1>10, <1>11, <1>12
     DEF Next, Library, Handlers

\* Every variable of the connection keeps its type.
THEOREM TypeCorrect == Spec => []TypeOK
  BY TypeInit, TypeStep, PTL DEF Spec

-----------------------------------------------------------------------------
(* Connections                                                             *)

CCCD == "CCCD_PUT_COMPLETE"

\* no connection is in progress without an interface, unless it was torn down
ConnectingIface == connecting /\ iface = 0 => seen.torn

\* ConnectingAwaits, in the terms of the lemmas on queues
Awaits == connecting => \/ ui # "idle"
                        \/ \E k \in 1 .. Len(att) : att[k].iface = iface
                        \/ Has(msgs, CCCD) \/ Has(msgs, "DISCONNECTED")
                        \/ seen.torn \/ seen.silent

\* While no connection was torn down in progress and no completion has run in
\* an interface that was deleted, at most one write of a descriptor is on its
\* way, or the message of its success, and it is that of the interface.
OneSubscription ==
    ~seen.torn /\ ~seen.stale =>
       /\ ui = "init" => connecting /\ att = <<>> /\ ~Has(msgs, CCCD)
       /\ att # <<>> => Len(att) = 1 /\ att[1].iface = iface
                        /\ connecting /\ ~Has(msgs, CCCD)
       /\ Has(msgs, CCCD) => connecting /\ seen.subscribed = iface
       /\ Single(msgs, CCCD)

\* The inductive invariant: ConnectingAwaits needs that a connection in progress
\* has an interface, ConnectedMeansSubscribed that the messages are its own.
IInv == TypeOK /\ ConnectingIface /\ Awaits /\ OneSubscription

LEMMA IInvInit == Init => IInv
<1> SUFFICES ASSUME Init PROVE IInv
  OBVIOUS
<1>1. ~Has(msgs, CCCD) /\ Single(msgs, CCCD)
  BY DEF Init, Has, Single
<1> QED
  BY <1>1, TypeInit DEF Init, IInv, ConnectingIface, Awaits, OneSubscription

\* what a post and the taking of a message do to the queue
LEMMA PostQueue ==
    ASSUME TypeOK, NEW m \in {"CONNECT", "DISCONNECT", "DISCONNECTED", CCCD},
           msgs' = Append(msgs, Message(m, 0))
    PROVE  /\ \A k : Has(msgs, k)' <=> Has(msgs, k) \/ m = k
           /\ Single(msgs, CCCD) /\ ~(Has(msgs, CCCD) /\ m = CCCD) => Single(msgs, CCCD)'
<1>1. msgs \in Seq(Messages) /\ Message(m, 0) \in Messages
  BY TypeDef, MessageType DEF CCCD
<1>2. Message(m, 0).m = m
  BY DEF Message
<1>3. \A k : Has(Append(msgs, Message(m, 0)), k) <=> Has(msgs, k) \/ Message(m, 0).m = k
  BY <1>1, HasAppend
<1>4. Single(msgs, CCCD) /\ ~(Has(msgs, CCCD) /\ Message(m, 0).m = CCCD)
         => Single(Append(msgs, Message(m, 0)), CCCD)
  BY <1>1, HasAppend
<1>5. \A k : Has(msgs, k)' <=> Has(Append(msgs, Message(m, 0)), k)
  BY DEF Has
<1>6. Single(msgs, CCCD)' <=> Single(Append(msgs, Message(m, 0)), CCCD)
  BY DEF Single
<1> QED
  BY <1>2, <1>3, <1>4, <1>5, <1>6

LEMMA TakeQueue ==
    ASSUME TypeOK, msgs # <<>>, msgs' = Tail(msgs)
    PROVE  /\ \A k : Has(msgs, k) <=> Head(msgs).m = k \/ Has(msgs, k)'
           /\ Single(msgs, CCCD) => Single(msgs, CCCD)'
           /\ Single(msgs, CCCD) /\ Head(msgs).m = CCCD => ~Has(msgs, CCCD)'
<1>1. msgs \in Seq(Messages)
  BY TypeDef
<1>2. \A k : Has(msgs, k) <=> Head(msgs).m = k \/ Has(Tail(msgs), k)
  BY <1>1, HasTail
<1>3. /\ Single(msgs, CCCD) => Single(Tail(msgs), CCCD)
      /\ Single(msgs, CCCD) /\ Head(msgs).m = CCCD => ~Has(Tail(msgs), CCCD)
  BY <1>1, HasTail
<1>4. \A k : Has(msgs, k)' <=> Has(Tail(msgs), k)
  BY DEF Has
<1>5. Single(msgs, CCCD)' <=> Single(Tail(msgs), CCCD)
  BY DEF Single
<1> QED
  BY <1>2, <1>3, <1>4, <1>5

LEMMA SameQueue ==
    ASSUME UNCHANGED msgs
    PROVE  /\ \A k : Has(msgs, k)' <=> Has(msgs, k)
           /\ Single(msgs, CCCD)' <=> Single(msgs, CCCD)
  BY DEF Has, Single
\* the parts of the inductive invariant after a step, given its types
Rest == ConnectingIface /\ Awaits /\ OneSubscription

LEMMA LibraryStep ==
    ASSUME IInv, GattConnect \/ GattDisconnect PROVE Rest'
<1>1. /\ UNCHANGED <<connecting, iface, ui, att>>
      /\ seen'.torn = seen.torn /\ seen'.stale = seen.stale
      /\ seen'.silent = seen.silent /\ seen'.subscribed = seen.subscribed
  BY TypeDef DEF IInv, GattConnect, GattDisconnect, Seen
<1>2. PICK m \in {"CONNECT", "DISCONNECT"} : msgs' = Append(msgs, Message(m, 0))
  BY DEF GattConnect, GattDisconnect, Post
<1>3. /\ \A k : Has(msgs, k)' <=> Has(msgs, k) \/ m = k
      /\ Single(msgs, CCCD) => Single(msgs, CCCD)'
  BY <1>2, PostQueue DEF IInv, CCCD
<1>4. m # CCCD
  BY DEF CCCD
<1> QED
  BY <1>1, <1>3, <1>4 DEF IInv, Rest, ConnectingIface, Awaits, OneSubscription

LEMMA ConnectStep ==
    ASSUME IInv, OnMeshDeviceConnect PROVE Rest'
<1>1. /\ \A k : Has(msgs, k) <=> "CONNECT" = k \/ Has(msgs, k)'
      /\ Single(msgs, CCCD) => Single(msgs, CCCD)'
  BY TakeQueue DEF IInv, OnMeshDeviceConnect, Takes
<1>2. "CONNECT" # CCCD /\ "CONNECT" # "DISCONNECTED"
  BY DEF CCCD
<1>3. /\ UNCHANGED att
      /\ seen'.torn = seen.torn /\ seen'.stale = seen.stale
      /\ seen'.subscribed = seen.subscribed
  BY TypeDef DEF IInv, OnMeshDeviceConnect, Seen
<1>4. CASE UNCHANGED <<connecting, iface, state, ui, link, att, seen>>
  BY <1>1, <1>2, <1>4 DEF IInv, Rest, ConnectingIface, Awaits, OneSubscription
<1>5. CASE iface = 0 /\ GiveUp
  BY <1>1, <1>2, <1>3, <1>5
     DEF IInv, Rest, ConnectingIface, Awaits, OneSubscription, GiveUp
<1>6. CASE iface = 0 /\ connecting' = TRUE /\ iface' = seen.ifaces + 1 /\ UNCHANGED ui
           /\ seen' = [seen EXCEPT !.ifaces = @ + 1, !.silent = TRUE]
  <2>1. seen'.silent /\ iface' # 0
    BY <1>6, TypeDef DEF IInv, Seen
  <2> QED
    BY <1>1, <1>2, <1>3, <1>6, <2>1
       DEF IInv, Rest, ConnectingIface, Awaits, OneSubscription
<1>7. CASE iface = 0 /\ connecting' = TRUE /\ iface' = seen.ifaces + 1 /\ ui' = "init"
  <2>1. iface' # 0
    BY <1>7, TypeDef DEF IInv, Seen
  <2> QED
    BY <1>1, <1>2, <1>3, <1>7, <2>1
       DEF IInv, Rest, ConnectingIface, Awaits, OneSubscription
<1> QED
  BY <1>4, <1>5, <1>6, <1>7 DEF OnMeshDeviceConnect

LEMMA InitStep ==
    ASSUME IInv, InitReturns PROVE Rest'
<1>1. CASE GiveUp /\ UNCHANGED <<att, seen>> /\ UNCHANGED msgs
  BY <1>1, SameQueue DEF IInv, Rest, ConnectingIface, Awaits, OneSubscription, GiveUp,
                         InitReturns
<1>2. CASE GiveUp /\ UNCHANGED <<att, seen>> /\ msgs' = Append(msgs, Message("DISCONNECTED", 0))
  <2>1. /\ \A k : Has(msgs, k)' <=> Has(msgs, k) \/ "DISCONNECTED" = k
        /\ Single(msgs, CCCD) => Single(msgs, CCCD)'
        /\ "DISCONNECTED" # CCCD
    BY <1>2, PostQueue DEF IInv, CCCD
  <2> QED
    BY <1>2, <2>1 DEF IInv, Rest, ConnectingIface, Awaits, OneSubscription, GiveUp,
                      InitReturns
<1>3. CASE Subscribe(iface) /\ ui' = "idle" /\ UNCHANGED <<lib, connecting, iface, state, msgs, link>>
  <2>1. att \in Seq(Writes) /\ Write(iface, "subscribe", <<>>) \in Writes
    BY TypeDef, WriteType DEF IInv
  <2>2. /\ Len(att') = Len(att) + 1 /\ Len(att) \in Nat
        /\ att'[Len(att) + 1] = Write(iface, "subscribe", <<>>)
    BY <1>3, <2>1, AppendProperties, LenProperties DEF Subscribe
  <2>3. Write(iface, "subscribe", <<>>).iface = iface
    BY DEF Write
  <2>4. Awaits'
    BY <1>3, <2>2, <2>3 DEF Awaits
  <2>5. att = <<>> => Len(att') = 1 /\ att'[1].iface = iface
    BY <2>2, <2>3
  <2>6. OneSubscription'
    BY <1>3, <2>5, SameQueue DEF IInv, OneSubscription, Subscribe, InitReturns
  <2> QED
    BY <1>3, <2>4, <2>6 DEF IInv, Rest, ConnectingIface, Subscribe
<1>4. CASE SubscribeNothing /\ ui' = "idle" /\ UNCHANGED <<lib, connecting, iface, state, msgs, link>>
  <2>1. /\ seen'.torn = seen.torn /\ seen'.stale = seen.stale /\ seen'.silent
        /\ seen'.subscribed = seen.subscribed
    BY <1>4, TypeDef DEF IInv, Seen, SubscribeNothing
  <2> QED
    BY <1>4, <2>1, SameQueue
       DEF IInv, Rest, ConnectingIface, Awaits, OneSubscription, SubscribeNothing
<1> QED
  BY <1>1, <1>2, <1>3, <1>4 DEF InitReturns

LEMMA PutCompleteStep ==
    ASSUME IInv, OnMeshDeviceCCCDPutComplete PROVE Rest'
<1>1. /\ \A k : Has(msgs, k) <=> CCCD = k \/ Has(msgs, k)'
      /\ Single(msgs, CCCD) => Single(msgs, CCCD)' /\ ~Has(msgs, CCCD)'
  BY TakeQueue DEF IInv, OnMeshDeviceCCCDPutComplete, Takes, CCCD
<1>2. Has(msgs, CCCD)
  BY <1>1
<1>3. UNCHANGED <<iface, ui, att, seen>> /\ ui = "idle"
  BY DEF OnMeshDeviceCCCDPutComplete, Takes
<1>4. CASE connecting /\ iface # 0
  <2>1. connecting' = FALSE
    BY <1>4 DEF OnMeshDeviceCCCDPutComplete
  <2> QED
    BY <1>1, <1>2, <1>3, <2>1 DEF IInv, Rest, ConnectingIface, Awaits, OneSubscription
<1>5. CASE ~(connecting /\ iface # 0)
  <2>1. connecting' = connecting
    BY <1>5 DEF OnMeshDeviceCCCDPutComplete
  <2> QED
    BY <1>1, <1>2, <1>3, <1>5, <2>1
       DEF IInv, Rest, ConnectingIface, Awaits, OneSubscription
<1> QED
  BY <1>4, <1>5

LEMMA TearDownStep ==
    ASSUME IInv, OnMeshDeviceDisconnect \/ OnMeshDeviceDisconnected PROVE Rest'
<1>1. /\ \A k : Has(msgs, k)' => Has(msgs, k)
      /\ Single(msgs, CCCD) => Single(msgs, CCCD)'
  BY TakeQueue DEF IInv, OnMeshDeviceDisconnect, OnMeshDeviceDisconnected, Takes
<1>2. UNCHANGED <<connecting, ui, att>> /\ ui = "idle" /\ TearDown
  BY DEF OnMeshDeviceDisconnect, OnMeshDeviceDisconnected, Takes
<1>3. /\ seen'.stale = seen.stale /\ seen'.silent = seen.silent
      /\ seen'.subscribed = seen.subscribed
      /\ seen'.torn = (seen.torn \/ connecting)
  BY <1>2, TypeDef DEF IInv, Seen, TearDown
<1>4. CASE connecting
  BY <1>2, <1>3, <1>4 DEF Rest, ConnectingIface, Awaits, OneSubscription
<1>5. CASE ~connecting
  BY <1>1, <1>2, <1>3, <1>5
     DEF IInv, Rest, ConnectingIface, Awaits, OneSubscription
<1> QED
  BY <1>4, <1>5

LEMMA LinkStep ==
    ASSUME IInv, LinkUp \/ LinkDown \/ DeviceTakes \/ UNCHANGED linkVars PROVE Rest'
<1>1. CASE LinkUp \/ UNCHANGED linkVars
  BY <1>1, SameQueue
     DEF IInv, Rest, ConnectingIface, Awaits, OneSubscription, LinkUp, linkVars
<1>2. CASE LinkDown
  <2>1. /\ UNCHANGED <<connecting, iface, ui, att>>
        /\ seen'.torn = seen.torn /\ seen'.stale = seen.stale
        /\ seen'.silent = seen.silent /\ seen'.subscribed = seen.subscribed
    BY <1>2, MissedType DEF LinkDown, IInv
  <2>2. CASE UNCHANGED msgs
    BY <2>1, <2>2, SameQueue
       DEF IInv, Rest, ConnectingIface, Awaits, OneSubscription
  <2>3. CASE msgs' = Append(msgs, Message("DISCONNECTED", 0))
    <3>1. /\ \A k : Has(msgs, k)' <=> Has(msgs, k) \/ "DISCONNECTED" = k
          /\ Single(msgs, CCCD) => Single(msgs, CCCD)'
          /\ "DISCONNECTED" # CCCD
      BY <2>3, PostQueue DEF IInv, CCCD
    <3> QED
      BY <2>1, <3>1 DEF IInv, Rest, ConnectingIface, Awaits, OneSubscription
  <2> QED
    BY <1>2, <2>2, <2>3 DEF LinkDown, Post
<1>3. CASE DeviceTakes
  <2>1. att # <<>> /\ att \in Seq(Writes) /\ att' = [att EXCEPT ![1].done = TRUE]
    BY <1>3, TypeDef DEF IInv, DeviceTakes
  <2>2. /\ Len(att') = Len(att)
        /\ \A i \in 1 .. Len(att) : att'[i].iface = att[i].iface
    BY <2>1, AttDone
  <2>3. UNCHANGED <<connecting, iface, ui, msgs, seen>>
    BY <1>3 DEF DeviceTakes
  <2>4. Awaits'
    BY <2>2, <2>3, SameQueue DEF IInv, Awaits
  <2>5. OneSubscription'
    BY <2>1, <2>2, <2>3, SameQueue DEF IInv, OneSubscription
  <2> QED
    BY <2>3, <2>4, <2>5 DEF IInv, Rest, ConnectingIface
<1> QED
  BY <1>1, <1>2, <1>3
LEMMA CompleteStep ==
    ASSUME IInv, SubscribeCompletes PROVE Rest'
<1>1. PICK ok \in BOOLEAN :
         /\ seen' = [seen EXCEPT !.subscribed = IF ok THEN Head(att).iface ELSE @,
                                 !.stale = @ \/ Head(att).iface # iface]
         /\ InObject(Head(att).iface, Reply(ok), UNCHANGED msgs)
  BY DEF SubscribeCompletes, InObject
<1>2. /\ att # <<>> /\ att' = Tail(att) /\ UNCHANGED <<connecting, iface>>
      /\ att \in Seq(Writes)
  BY TypeDef DEF IInv, SubscribeCompletes
<1>3. /\ Len(att) \in Nat \ {0} /\ Len(att') = Len(att) - 1 /\ Head(att) = att[1]
      /\ \A k \in 1 .. Len(att) - 1 : att'[k] = att[k + 1]
  BY <1>2, HeadTailProperties, LenProperties, EmptySeq
<1>4. /\ seen'.torn = seen.torn /\ seen'.silent = seen.silent
      /\ Head(att).iface # iface => seen'.stale
      /\ Head(att).iface = iface => /\ seen'.stale = seen.stale
                                    /\ ok => seen'.subscribed = iface
  BY <1>1, TypeDef DEF IInv, Seen
<1>5. CASE Head(att).iface = iface
  <2>1. ui' = ui /\ Reply(ok)
    BY <1>1, <1>5 DEF InObject
  <2>2. PICK m \in {CCCD, "DISCONNECTED"} : /\ msgs' = Append(msgs, Message(m, 0))
                                            /\ m = CCCD => ok
    BY <2>1 DEF Reply, Post, CCCD
  <2>3. /\ \A k : Has(msgs, k)' <=> Has(msgs, k) \/ m = k
        /\ Single(msgs, CCCD) /\ ~(Has(msgs, CCCD) /\ m = CCCD) => Single(msgs, CCCD)'
    BY <2>2, PostQueue DEF IInv
  <2>4. Awaits'
    BY <2>3 DEF Awaits
  <2>5. ASSUME ~seen'.torn, ~seen'.stale
        PROVE  /\ Len(att) = 1 /\ connecting /\ ~Has(msgs, CCCD) /\ Single(msgs, CCCD)
               /\ ui # "init"
    BY <1>2, <1>4, <1>5, <2>5 DEF IInv, OneSubscription
  <2>6. ASSUME ~seen'.torn, ~seen'.stale
        PROVE  att' = <<>>
    BY <1>2, <1>3, <2>5, <2>6, HeadTailProperties, EmptySeq
  <2>7. OneSubscription'
    <3> SUFFICES ASSUME ~seen'.torn, ~seen'.stale
                 PROVE  /\ ui' = "init" => connecting' /\ att' = <<>> /\ ~Has(msgs, CCCD)'
                        /\ att' # <<>> => Len(att') = 1 /\ att'[1].iface = iface'
                                          /\ connecting' /\ ~Has(msgs, CCCD)'
                        /\ Has(msgs, CCCD)' => connecting' /\ seen'.subscribed = iface'
                        /\ Single(msgs, CCCD)'
      BY DEF OneSubscription
    <3> QED
      BY <1>2, <1>4, <1>5, <2>1, <2>2, <2>3, <2>5, <2>6
  <2> QED
    BY <1>2, <1>4, <2>4, <2>7 DEF IInv, Rest, ConnectingIface
<1>6. CASE Head(att).iface # iface
  <2>1. \/ ui' = ui /\ Reply(ok)
        \/ ui' = "crashed" /\ UNCHANGED msgs
    BY <1>1 DEF InObject
  <2>2. \A k : Has(msgs, k) => Has(msgs, k)'
    <3>1. CASE UNCHANGED msgs
      BY <3>1, SameQueue
    <3>2. CASE msgs' = Append(msgs, Message(CCCD, 0))
      BY <3>2, PostQueue DEF IInv
    <3>3. CASE msgs' = Append(msgs, Message("DISCONNECTED", 0))
      BY <3>3, PostQueue DEF IInv
    <3> QED
      BY <2>1, <3>1, <3>2, <3>3 DEF Reply, Post, CCCD
  <2>3. (\E k \in 1 .. Len(att) : att[k].iface = iface)
           => \E k \in 1 .. Len(att') : att'[k].iface = iface'
    <3> SUFFICES ASSUME NEW k \in 1 .. Len(att), att[k].iface = iface
                 PROVE  \E j \in 1 .. Len(att') : att'[j].iface = iface'
      OBVIOUS
    <3>1. k # 1
      BY <1>3, <1>6
    <3>2. k - 1 \in 1 .. Len(att') /\ att'[k - 1] = att[k]
      BY <1>3, <3>1
    <3> QED
      BY <1>2, <3>2
  <2>4. Awaits'
    BY <1>2, <1>4, <2>1, <2>2, <2>3 DEF IInv, Awaits
  <2>5. OneSubscription'
    BY <1>4, <1>6 DEF OneSubscription
  <2> QED
    BY <1>2, <1>4, <2>4, <2>5 DEF IInv, Rest, ConnectingIface
<1> QED
  BY <1>5, <1>6

THEOREM IInvCorrect == Spec => []IInv
<1>1. IInv /\ [Next]_linkVars => IInv'
  <2> SUFFICES ASSUME IInv, [Next]_linkVars PROVE TypeOK' /\ Rest'
    BY DEF IInv, Rest
  <2>1. TypeOK'
    BY TypeStep DEF IInv
  <2>2. Rest'
    BY LibraryStep, ConnectStep, InitStep, PutCompleteStep, TearDownStep, LinkStep,
       CompleteStep DEF Next, Library, Handlers
  <2> QED
    BY <2>1, <2>2
<1> QED
  BY <1>1, IInvInit, PTL DEF Spec

\* Something is always on its way that ends a connection in progress, or the
\* flag that refuses all others is stuck for one of the two known reasons.
THEOREM ConnectingCorrect == Spec => []ConnectingAwaits
<1>1. IInv => ConnectingAwaits
  <2> SUFFICES ASSUME IInv, connecting PROVE ConnectingAwaits
    BY DEF ConnectingAwaits
  <2>1. ASSUME NEW k \in 1 .. Len(att), att[k].iface = iface PROVE Writing(iface)
    <3>1. att \in Seq(Writes)
      BY TypeDef DEF IInv
    <3>2. att[k] \in Writes
      BY <3>1, ElementOfSeq
    <3>3. att[k].op = "subscribe"
      BY <3>2 DEF Writes
    <3> QED
      BY <2>1, <3>3 DEF Writing
  <2>2. \A m : Has(msgs, m) => Queued(m)
    BY DEF Has, Queued
  <2> QED
    BY <2>1, <2>2 DEF IInv, Awaits, ConnectingAwaits, CCCD
<1> QED
  BY <1>1, IInvCorrect, PTL

\* The library is told that it is connected only when the descriptor of its own
\* interface has been written, however often it connects.
THEOREM ConnectedCorrect == Spec => ConnectedMeansSubscribed
<1> DEFINE Good == lib' = "connected" /\ lib # "connected"
                      => seen.subscribed = iface \/ seen.stale \/ seen.torn
<1>1. IInv /\ [Next]_linkVars => [Good]_linkVars
  <2> SUFFICES ASSUME IInv, [Next]_linkVars, lib' = "connected", lib # "connected"
               PROVE  seen.subscribed = iface \/ seen.stale \/ seen.torn
    OBVIOUS
  <2>1. OnMeshDeviceCCCDPutComplete
    BY DEF Next, Library, Handlers, linkVars, GattConnect, GattDisconnect,
           OnMeshDeviceConnect, GiveUp, InitReturns, OnMeshDeviceDisconnect,
           OnMeshDeviceDisconnected, TearDown, LinkUp, LinkDown, DeviceTakes,
           SubscribeCompletes
  <2>2. \A k : Has(msgs, k) <=> CCCD = k \/ Has(msgs, k)'
    BY <2>1, TakeQueue DEF IInv, OnMeshDeviceCCCDPutComplete, Takes, CCCD
  <2> QED
    BY <2>2 DEF IInv, OneSubscription
<1> QED
  BY <1>1, IInvCorrect, PTL DEF Spec, ConnectedMeansSubscribed
=============================================================================
