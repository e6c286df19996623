----------------------- MODULE WsOtaDownloaderProofs -----------------------
(***************************************************************************)
(* What holds of the firmware download of the Windows client for every     *)
(* image, however often the user starts it and the mesh library connects:  *)
(* an upgrade that was started with nothing of another one under way has   *)
(* one worker, one verdict, and no success without the image.              *)
(*                                                                         *)
(* What carries all three is that no answer of the device is taken for     *)
(* that of another command (OneToken): in the states that wait for one,    *)
(* one command or the answer to it is under way at most.                   *)
(***************************************************************************)
EXTENDS WsOtaDownloader, SequenceTheorems, TLAPS

-----------------------------------------------------------------------------
(* Types                                                                   *)

MessageType == [m : Texts, n : Nat]
WriteType == [iface : Nat, op : Writes, x : Seq(Nat), done : BOOLEAN]
SeenType == [asked : Nat, ifaces : Nat, subscribed : Nat, missed : Nat,
             torn : BOOLEAN, silent : BOOLEAN, stale : BOOLEAN]
DownloaderType ==
    [state : {"NONE", "IDLE", "WAIT", "DATA", "VERIFICATION", "VERIFIED", "ABORTED"},
     offset : Nat, crc : Seq(Nat), conn : BOOLEAN, iface : Nat, thread : Nat]
Places == {"new", "loop", "wait", "end", "done"}
DeviceType == [sub : BOOLEAN, mode : {"idle", "ready", "download", "verified"}, got : Seq(Nat)]
HistoryType == [starts : 0 .. MaxStarts, clean : BOOLEAN, hurt : BOOLEAN,
                reports : Seq({"verified", "aborted"})]

LinkTyped ==
    /\ lib \in {"idle", "connecting", "connected", "disconnecting"}
    /\ connecting \in BOOLEAN /\ iface \in Nat
    /\ state \in {"connecting", "connected", "unconnected"}
    /\ link \in {"down", "up"}
    /\ seen \in SeenType
UiTyped == ui \in {"idle", "init", "join", "crashed"}
QueuesTyped == msgs \in Seq(MessageType) /\ att \in Seq(WriteType)
OtaTyped ==
    /\ dl \in DownloaderType /\ dl.thread =< Len(workers)
    /\ workers \in Seq(Places)
    /\ total \in Nat
    /\ dev \in DeviceType
    /\ hist \in HistoryType

LEMMA TypeDef == TypeOK <=> LinkTyped /\ UiTyped /\ QueuesTyped /\ OtaTyped
  BY DEF TypeOK, LinkTyped, UiTyped, QueuesTyped, OtaTyped, MessageType, WriteType,
         SeenType, DownloaderType, Places, DeviceType, HistoryType

LEMMA MessageTypes == \A m \in Texts : \A n \in Nat : L!Message(m, n) \in MessageType
  BY DEF L!Message, MessageType

LEMMA WriteTypes ==
    \A i \in Nat : \A op \in Writes : \A x \in Seq(Nat) : L!Write(i, op, x) \in WriteType
  BY DEF L!Write, WriteType

\* The queues that a post, a write or the taking of an entry makes.
LEMMA QueueTypes ==
    ASSUME LinkTyped, QueuesTyped
    PROVE  /\ \A m \in Texts : \A n \in Nat : Append(msgs, L!Message(m, n)) \in Seq(MessageType)
           /\ \A m \in Texts : \A n \in Nat :
                 msgs # <<>> => Append(Tail(msgs), L!Message(m, n)) \in Seq(MessageType)
           /\ msgs # <<>> => Tail(msgs) \in Seq(MessageType) /\ Head(msgs) \in MessageType
           /\ \A op \in Writes : \A x \in Seq(Nat) :
                 Append(att, L!Write(iface, op, x)) \in Seq(WriteType)
           /\ att # <<>> => Tail(att) \in Seq(WriteType) /\ Head(att) \in WriteType
  BY MessageTypes, WriteTypes, AppendProperties, HeadTailProperties DEF LinkTyped, QueuesTyped

LEMMA SendTypes ==
    ASSUME LinkTyped, UiTyped, QueuesTyped, NEW op \in Writes, NEW x \in Seq(Nat), Send(op, x)
    PROVE  UiTyped' /\ att' \in Seq(WriteType)
  BY QueueTypes DEF Send, UiTyped, QueuesTyped

LEMMA NumberSeqs == <<>> \in Seq(Nat) /\ NoCrc \in Seq(Nat) /\ \A n \in Nat : <<n>> \in Seq(Nat)
  BY EmptySeq DEF NoCrc

\* What the reports of an upgrade and its history are.
LEMMA HistoryTypes ==
    ASSUME hist \in HistoryType
    PROVE  /\ Hurt(hist) \in HistoryType
           /\ Report(hist, "verified") \in HistoryType
           /\ Report(hist, "aborted") \in HistoryType
<1>1. \A r \in {"verified", "aborted"} :
         Append(hist.reports, r) \in Seq({"verified", "aborted"})
  BY AppendProperties DEF HistoryType
<1> QED
  BY <1>1 DEF HistoryType, Hurt, Report

LEMMA TearDownTypes ==
    ASSUME LinkTyped, L!TearDown, UNCHANGED <<connecting, link>> PROVE LinkTyped'
<1> DEFINE b == seen.torn \/ connecting
<1>1. b \in BOOLEAN
  OBVIOUS
<1>2. seen' = [seen EXCEPT !.torn = b]
  BY DEF L!TearDown
<1> HIDE DEF b
<1>3. seen' \in SeenType
  BY <1>1, <1>2 DEF SeenType, LinkTyped
<1> QED
  BY <1>3 DEF LinkTyped, L!TearDown

\* The worker and the queues: a message that was posted, a write that was sent.
LEMMA ThreadTypes ==
    ASSUME OtaTyped, NEW w \in 1 .. Len(workers), NEW pc \in Places, Step(w, pc)
    PROVE  workers' \in Seq(Places) /\ Len(workers') = Len(workers)
<1>1. workers \in Seq(Places)
  BY DEF OtaTyped
<1>2. [workers EXCEPT ![w] = pc] \in Seq(Places) /\ Len([workers EXCEPT ![w] = pc]) = Len(workers)
  BY <1>1, ExceptSeq
<1> QED
  BY <1>2 DEF Step

LEMMA DeviceTypes ==
    ASSUME dev \in DeviceType, NEW w \in WriteType PROVE DeviceAfter(w) \in DeviceType
<1>1. dev.got \o w.x \in Seq(Nat) /\ <<>> \in Seq(Nat)
  BY ConcatProperties, EmptySeq DEF DeviceType, WriteType
<1>2. w.op \in Writes
  BY DEF WriteType
<1> QED
  BY <1>1, <1>2 DEF DeviceAfter, DeviceType, Writes

LEMMA TypeInit == Init => TypeOK
<1> SUFFICES ASSUME Init PROVE TypeOK
  OBVIOUS
<1>1. /\ LinkTyped /\ UiTyped
  BY DEF Init, L!Init, LinkTyped, UiTyped, SeenType
<1>2. QueuesTyped
  BY EmptySeq DEF Init, L!Init, QueuesTyped
<1>3. <<>> \in Seq(Places) /\ Len(<<>>) = 0 /\ <<>> \in Seq({"verified", "aborted"})
  BY EmptySeq
<1>4. OtaTyped
  BY <1>3, NumberSeqs, DownloadAssumption
     DEF Init, OtaTyped, NoDownloader, DownloaderType, NoImage, DeviceType, HistoryType
<1> QED
  BY <1>1, <1>2, <1>4, TypeDef

\* StartOta and StopOta
LEMMA UserTypes ==
    ASSUME LinkTyped, UiTyped, QueuesTyped, OtaTyped, StartOta \/ StopOta
    PROVE  LinkTyped' /\ UiTyped' /\ QueuesTyped' /\ OtaTyped'
<1>1. CASE StartOta
  <2>1. LinkTyped'
    BY <1>1 DEF StartOta, linkRest, LinkTyped
  <2>2. UiTyped'
    BY <1>1 DEF StartOta, UiTyped
  <2>3. Chunks \in Nat
    BY DownloadAssumption
  <2>4. msgs' \in Seq(MessageType)
    BY <1>1, <2>3, QueueTypes DEF StartOta, Outbox, Texts
  <2>5. /\ L!Write(iface, "indicate", <<>>) \in WriteType
        /\ L!Write(iface, "prepare", <<>>) \in WriteType
    BY WriteTypes, NumberSeqs DEF LinkTyped, Writes
  <2>6. <<L!Write(iface, "indicate", <<>>), L!Write(iface, "indicate", <<>>),
          L!Write(iface, "prepare", <<>>)>> \in Seq(WriteType)
    BY <2>5
  <2>7. att' \in Seq(WriteType)
    BY <1>1, <2>6, ConcatProperties DEF StartOta, QueuesTyped
  <2>8. workers' \in Seq(Places) /\ Len(workers') \in Nat
    BY <1>1, EmptySeq, LenProperties DEF StartOta, OtaTyped
  <2>9. dl' \in DownloaderType /\ dl'.thread =< Len(workers')
    <3>1. dl' = [state |-> "WAIT", offset |-> 0, crc |-> NoCrc, conn |-> TRUE,
                 iface |-> iface, thread |-> 0]
      BY <1>1 DEF StartOta, NewDownloader, NoDownloader
    <3> QED
      BY <2>8, <3>1, NumberSeqs DEF DownloaderType, LinkTyped
  <2>10. hist' \in HistoryType
    <3>1. hist.starts + 1 \in 0 .. MaxStarts /\ Quiet \in BOOLEAN
      BY <1>1, DownloadAssumption DEF StartOta, OtaTyped, HistoryType, Quiet, AnyWorker
    <3>2. <<>> \in Seq({"verified", "aborted"})
      BY EmptySeq
    <3>3. hist' = [starts |-> hist.starts + 1, clean |-> Quiet, hurt |-> FALSE, reports |-> <<>>]
      BY <1>1 DEF StartOta
    <3> QED
      BY <3>1, <3>2, <3>3 DEF HistoryType
  <2> QED
    BY <1>1, <2>1, <2>2, <2>4, <2>7, <2>8, <2>9, <2>10 DEF StartOta, QueuesTyped, OtaTyped
<1>2. CASE StopOta
  <2>1. LinkTyped' /\ UiTyped' /\ QueuesTyped'
    BY <1>2 DEF StopOta, linkVars, LinkTyped, UiTyped, QueuesTyped
  <2>2. dl' \in DownloaderType /\ dl'.thread = dl.thread
    BY <1>2 DEF StopOta, OtaTyped, DownloaderType
  <2> QED
    BY <1>2, <2>1, <2>2, HistoryTypes DEF StopOta, OtaTyped
<1> QED
  BY <1>1, <1>2

LEMMA ControlPointTypes ==
    ASSUME LinkTyped, UiTyped, QueuesTyped, OtaTyped, OnWsUpgradeCtrlPoint
    PROVE  LinkTyped' /\ UiTyped' /\ QueuesTyped' /\ OtaTyped'
<1> USE DEF OnWsUpgradeCtrlPoint
<1>1. LinkTyped' /\ UNCHANGED <<total, dev>> /\ msgs # <<>>
  BY DEF linkRest, LinkTyped, L!Takes
<1>2. Chunks \in Nat
  BY DownloadAssumption
<1>3. CASE ResponseOk
  <2>1. CASE dl.state = "WAIT"
    <3>1. dl' \in DownloaderType /\ dl'.thread = dl.thread
      <4>1. dl' = [dl EXCEPT !.offset = 0, !.state = "DATA"]
        BY <1>3, <2>1 DEF ResponseOk
      <4> QED
        BY <4>1 DEF OtaTyped, DownloaderType
    <3>2. UiTyped' /\ att' \in Seq(WriteType)
      BY <1>3, <2>1, SendTypes, NumberSeqs DEF ResponseOk, Writes
    <3>3. msgs' \in Seq(MessageType)
      BY <1>1, <1>3, <2>1, QueueTypes DEF ResponseOk
    <3> QED
      BY <1>1, <1>3, <2>1, <3>1, <3>2, <3>3 DEF ResponseOk, OtaTyped, QueuesTyped
  <2>2. CASE dl.state = "DATA"
    <3>1. workers' \in Seq(Places) /\ Len(workers') = Len(workers) + 1 /\ Len(workers) \in Nat
      BY <1>3, <2>2, AppendProperties, LenProperties DEF ResponseOk, OtaTyped, Places
    <3>2. dl' \in DownloaderType /\ dl'.thread = Len(workers')
      <4>1. dl' = [dl EXCEPT !.thread = Len(workers) + 1]
        BY <1>3, <2>2 DEF ResponseOk
      <4> QED
        BY <3>1, <4>1 DEF OtaTyped, DownloaderType
    <3>3. msgs' \in Seq(MessageType)
      BY <1>1, <1>3, <2>2, QueueTypes DEF ResponseOk
    <3> QED
      BY <1>1, <1>3, <2>2, <3>1, <3>2, <3>3 DEF ResponseOk, OtaTyped, QueuesTyped, UiTyped
  <2>3. CASE dl.state = "VERIFICATION"
    <3>1. dl' \in DownloaderType /\ dl'.thread = dl.thread
      BY <1>3, <2>3 DEF ResponseOk, OtaTyped, DownloaderType
    <3>2. msgs' \in Seq(MessageType)
      BY <1>1, <1>2, <1>3, <2>3, QueueTypes DEF ResponseOk, Texts
    <3> QED
      BY <1>1, <1>3, <2>3, <3>1, <3>2, HistoryTypes DEF ResponseOk, OtaTyped, QueuesTyped, UiTyped
  <2>4. CASE dl.state \notin {"WAIT", "DATA", "VERIFICATION"}
    BY <1>1, <1>3, <2>4, QueueTypes DEF ResponseOk, OtaTyped, QueuesTyped, UiTyped
  <2> QED
    BY <2>1, <2>2, <2>3, <2>4
<1>4. CASE ResponseFailed
  <2>1. msgs' \in Seq(MessageType)
    BY <1>1, <1>2, <1>4, QueueTypes DEF ResponseFailed, Texts
  <2>2. dl' \in DownloaderType /\ dl'.thread = dl.thread
    BY <1>4 DEF ResponseFailed, OtaTyped, DownloaderType
  <2>3. hist' \in HistoryType
    BY <1>4, HistoryTypes DEF ResponseFailed, OtaTyped
  <2> QED
    BY <1>1, <1>4, <2>1, <2>2, <2>3 DEF ResponseFailed, OtaTyped, QueuesTyped, UiTyped
<1> QED
  BY <1>3, <1>4

LEMMA ProgressTypes ==
    ASSUME LinkTyped, UiTyped, QueuesTyped, OtaTyped, OnProgress
    PROVE  LinkTyped' /\ UiTyped' /\ QueuesTyped' /\ OtaTyped'
<1>1. LinkTyped' /\ UNCHANGED <<workers, dev, hist>>
  BY DEF OnProgress, linkRest, LinkTyped
<1>2. msgs' \in Seq(MessageType) /\ Head(msgs).n \in Nat
  BY QueueTypes DEF OnProgress, MessageType
<1>3. total' \in Nat
  BY <1>2 DEF OnProgress, OtaTyped
<1>4. dl' \in DownloaderType /\ dl'.thread = dl.thread
  BY DEF OnProgress, OtaTyped, DownloaderType
<1>5. UiTyped' /\ att' \in Seq(WriteType)
  <2>1. dl.crc \in Seq(Nat)
    BY DEF OtaTyped, DownloaderType
  <2>2. CASE Send("verify", dl.crc)
    BY <2>1, <2>2, SendTypes DEF Writes
  <2>3. CASE UNCHANGED <<ui, att>>
    BY <2>3 DEF UiTyped, QueuesTyped
  <2> QED
    BY <2>2, <2>3 DEF OnProgress
<1> QED
  BY <1>1, <1>2, <1>3, <1>4, <1>5 DEF OtaTyped, QueuesTyped

LEMMA DisconnectTypes ==
    ASSUME LinkTyped, UiTyped, QueuesTyped, OtaTyped,
           OnMeshDeviceDisconnected \/ JoinReturns \/ OnMeshDeviceDisconnect
    PROVE  LinkTyped' /\ UiTyped' /\ QueuesTyped' /\ OtaTyped'
<1>1. CASE OnMeshDeviceDisconnected
  <2>1. dl' \in DownloaderType /\ dl'.thread = dl.thread
    BY <1>1 DEF OnMeshDeviceDisconnected, OtaTyped, DownloaderType
  <2>2. msgs' \in Seq(MessageType)
    BY <1>1, QueueTypes DEF OnMeshDeviceDisconnected, L!Takes
  <2>3. LinkTyped' /\ UiTyped'
    BY <1>1, TearDownTypes DEF OnMeshDeviceDisconnected, linkRest, LinkTyped, UiTyped
  <2> QED
    BY <1>1, <2>1, <2>2, <2>3, HistoryTypes DEF OnMeshDeviceDisconnected, OtaTyped, QueuesTyped
<1>2. CASE JoinReturns
  BY <1>2, TearDownTypes DEF JoinReturns, otaVars, UiTyped, QueuesTyped, OtaTyped
<1>3. CASE OnMeshDeviceDisconnect
  <2>1. msgs' \in Seq(MessageType) /\ LinkTyped'
    BY <1>3, QueueTypes, TearDownTypes DEF OnMeshDeviceDisconnect, L!OnMeshDeviceDisconnect, L!Takes
  <2> QED
    BY <1>3, <2>1, HistoryTypes
       DEF OnMeshDeviceDisconnect, L!OnMeshDeviceDisconnect, UiTyped, OtaTyped, QueuesTyped
<1> QED
  BY <1>1, <1>2, <1>3

LEMMA WorkerTypes ==
    ASSUME LinkTyped, UiTyped, QueuesTyped, OtaTyped, NEW w \in 1 .. Len(workers), Worker(w)
    PROVE  LinkTyped' /\ UiTyped' /\ QueuesTyped' /\ OtaTyped'
<1>1. LinkTyped' /\ UNCHANGED <<total, dev>>
  BY DEF Worker, linkRest, LinkTyped
<1>2. workers' \in Seq(Places) /\ Len(workers') = Len(workers)
  <2>1. PICK pc \in Places : Step(w, pc)
    BY DEF Worker, Begins, Loops, Sent, Ends, Places
  <2> QED
    BY <2>1, ThreadTypes
<1>3. dl.offset + 1 \in Nat /\ Append(dl.crc, dl.offset + 1) \in Seq(Nat)
  BY AppendProperties DEF OtaTyped, DownloaderType
<1>4. dl' \in DownloaderType /\ dl'.thread = dl.thread
  <2>1. \/ dl' = [dl EXCEPT !.offset = 0, !.crc = <<>>]
        \/ dl' = [dl EXCEPT !.crc = Append(dl.crc, dl.offset + 1)]
        \/ dl' = [dl EXCEPT !.offset = dl.offset + 1]
        \/ dl' = dl
    BY DEF Worker, Begins, Loops, Sent, Ends
  <2>2. CASE dl' = [dl EXCEPT !.offset = 0, !.crc = <<>>]
    BY <2>2, NumberSeqs DEF OtaTyped, DownloaderType
  <2>3. CASE dl' = [dl EXCEPT !.crc = Append(dl.crc, dl.offset + 1)]
    BY <1>3, <2>3 DEF OtaTyped, DownloaderType
  <2>4. CASE dl' = [dl EXCEPT !.offset = dl.offset + 1]
    BY <1>3, <2>4 DEF OtaTyped, DownloaderType
  <2> QED
    BY <2>1, <2>2, <2>3, <2>4 DEF OtaTyped
<1>5. hist' \in HistoryType
  BY HistoryTypes DEF Worker, Begins, Loops, Sent, Ends, OtaTyped
<1>6. msgs' \in Seq(MessageType)
  <2>1. \/ UNCHANGED msgs
        \/ Outbox("PROGRESS_ABORTED", 1)
        \/ Outbox("PROGRESS_DATA", dl.offset + 1)
    BY DEF Worker, Begins, Loops, Sent, Ends
  <2> QED
    BY <1>3, <2>1, QueueTypes DEF Outbox, Texts, QueuesTyped
<1>7. UiTyped' /\ att' \in Seq(WriteType)
  <2>1. \/ UNCHANGED att /\ ui' \in {ui, "crashed"}
        \/ Send("data", <<dl.offset + 1>>)
        \/ Send("abort", <<>>)
    BY DEF Worker, Begins, Loops, Sent, Ends
  <2>2. <<dl.offset + 1>> \in Seq(Nat) /\ <<>> \in Seq(Nat) /\ {"data", "abort"} \subseteq Writes
    BY <1>3, NumberSeqs DEF Writes
  <2> QED
    BY <2>1, <2>2, SendTypes DEF UiTyped, QueuesTyped
<1> QED
  BY <1>1, <1>2, <1>4, <1>5, <1>6, <1>7 DEF OtaTyped, QueuesTyped

\* What a completion leaves behind, whatever follows from it.
LEMMA CompletionTypes ==
    ASSUME LinkTyped, QueuesTyped, OtaTyped, att # <<>>, NEW w \in WriteType,
           seen' = [seen EXCEPT !.stale = @ \/ w.iface # iface],
           UNCHANGED <<lib, connecting, iface, state, link, dl, workers, total>>,
           att' = Tail(att)
    PROVE  LinkTyped' /\ att' \in Seq(WriteType)
<1> DEFINE b == seen.stale \/ w.iface # iface
<1>1. b \in BOOLEAN
  OBVIOUS
<1>2. seen' = [seen EXCEPT !.stale = b]
  OBVIOUS
<1> HIDE DEF b
<1>3. seen' \in SeenType
  BY <1>1, <1>2 DEF SeenType, LinkTyped
<1> QED
  BY <1>3, QueueTypes DEF LinkTyped

LEMMA InObjectTypes ==
    ASSUME QueuesTyped, LinkTyped, UiTyped, NEW i, NEW m \in Texts,
           \/ L!InObject(i, Outbox(m, 0), UNCHANGED msgs)
           \/ L!InObject(i, UNCHANGED msgs, UNCHANGED msgs)
    PROVE  UiTyped' /\ msgs' \in Seq(MessageType)
  BY QueueTypes DEF L!InObject, Outbox, UiTyped, QueuesTyped

LEMMA MarkDone ==
    ASSUME NEW s \in Seq(WriteType), s # <<>>
    PROVE  /\ [s EXCEPT ![1].done = TRUE] \in Seq(WriteType)
           /\ Len([s EXCEPT ![1].done = TRUE]) = Len(s)
           /\ \A i \in 1 .. Len(s) : /\ [s EXCEPT ![1].done = TRUE][i].op = s[i].op
                                     /\ [s EXCEPT ![1].done = TRUE][i].x = s[i].x
<1>1. Len(s) \in Nat \ {0} /\ 1 \in 1 .. Len(s)
  BY LenProperties, EmptySeq
<1>2. \A i \in 1 .. Len(s) : s[i] \in WriteType
  BY ElementOfSeq
<1> DEFINE w == [s[1] EXCEPT !.done = TRUE]
<1>3. w \in WriteType /\ w.op = s[1].op /\ w.x = s[1].x
  BY <1>1, <1>2 DEF WriteType
<1>4. [s EXCEPT ![1].done = TRUE] = [s EXCEPT ![1] = w]
  OBVIOUS
<1> HIDE DEF w
<1>5. /\ [s EXCEPT ![1] = w] \in Seq(WriteType)
      /\ Len([s EXCEPT ![1] = w]) = Len(s)
      /\ \A i \in 1 .. Len(s) : [s EXCEPT ![1] = w][i] = IF i = 1 THEN w ELSE s[i]
  BY <1>1, <1>3, ExceptSeq
<1> QED
  BY <1>1, <1>3, <1>4, <1>5

LEMMA WindowsTypes ==
    ASSUME LinkTyped, UiTyped, QueuesTyped, OtaTyped, Windows
    PROVE  LinkTyped' /\ UiTyped' /\ QueuesTyped' /\ OtaTyped'
<1>1. CASE DeviceTakesDescriptor
  <2>1. /\ att # <<>> /\ att' = [att EXCEPT ![1].done = TRUE]
        /\ UNCHANGED <<lib, connecting, iface, state, ui, msgs, link, seen>>
    BY <1>1 DEF DeviceTakesDescriptor, L!DeviceTakes
  <2>2. att' \in Seq(WriteType)
    BY <2>1, MarkDone DEF QueuesTyped
  <2>3. dev' \in DeviceType
    BY <1>1, <2>1, QueueTypes, DeviceTypes DEF DeviceTakesDescriptor, OtaTyped
  <2> QED
    BY <1>1, <2>1, <2>2, <2>3
       DEF DeviceTakesDescriptor, LinkTyped, UiTyped, QueuesTyped, OtaTyped
<1>2. CASE IndicateCompletes
  <2>1. Head(att) \in WriteType
    BY <1>2, QueueTypes DEF IndicateCompletes
  <2>2. PICK ok \in BOOLEAN : Completes(Head(att), L!Reply(ok))
    BY <1>2, <2>1 DEF IndicateCompletes, WriteType
  <2>3. LinkTyped' /\ att' \in Seq(WriteType)
    BY <1>2, <2>1, <2>2, CompletionTypes DEF IndicateCompletes, Completes
  <2>4. UiTyped' /\ msgs' \in Seq(MessageType)
    <3>1. PICK m \in Texts : L!InObject(Head(att).iface, Outbox(m, 0), UNCHANGED msgs)
      BY <2>2 DEF Completes, L!Reply, L!Post, Outbox, L!InObject, Texts
    <3> QED
      BY <3>1, InObjectTypes
  <2>5. hist' \in HistoryType
    BY <1>2, HistoryTypes DEF IndicateCompletes, OtaTyped
  <2> QED
    BY <1>2, <2>2, <2>3, <2>4, <2>5 DEF IndicateCompletes, Completes, OtaTyped, QueuesTyped
<1>3. CASE DeviceTakes
  <2>1. Head(att) \in WriteType
    BY <1>3, QueueTypes DEF DeviceTakes
  <2>2. PICK m \in {"CTRL_OK", "CTRL_FAILED"} :
           Completes(Head(att), Outbox(m, 0)) \/ Completes(Head(att), UNCHANGED msgs)
    BY <1>3 DEF DeviceTakes, Completes, L!InObject, Notify, Status
  <2>3. LinkTyped' /\ att' \in Seq(WriteType)
    BY <1>3, <2>1, <2>2, CompletionTypes DEF DeviceTakes, Completes
  <2>4. UiTyped' /\ msgs' \in Seq(MessageType)
    BY <2>2, InObjectTypes DEF Completes, Texts
  <2>5. hist' \in HistoryType /\ dev' \in DeviceType
    BY <1>3, <2>1, HistoryTypes, DeviceTypes DEF DeviceTakes, OtaTyped
  <2> QED
    BY <1>3, <2>2, <2>3, <2>4, <2>5 DEF Completes, OtaTyped, QueuesTyped
<1>4. CASE LinkDown
  <2> DEFINE n == IF L!Connecting /\ ui # "init" THEN iface ELSE seen.missed
  <2>0. seen \in SeenType /\ n \in Nat
    BY DEF LinkTyped, SeenType
  <2>s. seen' = [seen EXCEPT !.missed = n]
    BY <1>4 DEF LinkDown, L!LinkDown
  <2>t. seen' \in SeenType
    <3> HIDE DEF n
    <3> QED
      BY <2>0, <2>s DEF SeenType
  <2>1. msgs' \in Seq(MessageType) /\ LinkTyped'
    BY <1>4, <2>t, QueueTypes DEF LinkDown, L!LinkDown, L!Post, Texts, LinkTyped, QueuesTyped
  <2>2. dev' \in DeviceType
    BY <1>4, EmptySeq DEF LinkDown, OtaTyped, NoImage, DeviceType
  <2> QED
    BY <1>4, <2>1, <2>2, HistoryTypes DEF LinkDown, L!LinkDown, OtaTyped, QueuesTyped, UiTyped
<1> QED
  BY <1>1, <1>2, <1>3, <1>4 DEF Windows

LEMMA ConnectionTypes ==
    ASSUME LinkTyped, UiTyped, QueuesTyped, OtaTyped, Connection
    PROVE  LinkTyped' /\ UiTyped' /\ QueuesTyped' /\ OtaTyped'
<1>0. OtaTyped'
  BY DEF Connection, otaVars, OtaTyped
<1>m. /\ \A m \in {"CONNECT", "DISCONNECT", "DISCONNECTED", "CCCD_PUT_COMPLETE"} :
            Append(msgs, L!Message(m, 0)) \in Seq(MessageType)
      /\ msgs # <<>> => Tail(msgs) \in Seq(MessageType)
      /\ Append(att, L!Write(iface, "subscribe", <<>>)) \in Seq(WriteType)
      /\ att # <<>> => Tail(att) \in Seq(WriteType) /\ Head(att) \in WriteType
  <2>1. {"CONNECT", "DISCONNECT", "DISCONNECTED", "CCCD_PUT_COMPLETE"} \subseteq Texts
        /\ "subscribe" \in Writes /\ 0 \in Nat
    BY DEF Texts, Writes
  <2>2. \A m \in Texts : Append(msgs, L!Message(m, 0)) \in Seq(MessageType)
    BY <2>1, QueueTypes
  <2>3. Append(att, L!Write(iface, "subscribe", <<>>)) \in Seq(WriteType)
    BY <2>1, QueueTypes, NumberSeqs
  <2>4. /\ msgs # <<>> => Tail(msgs) \in Seq(MessageType)
        /\ att # <<>> => Tail(att) \in Seq(WriteType) /\ Head(att) \in WriteType
    BY QueueTypes
  <2> QED
    BY <2>1, <2>2, <2>3, <2>4
<1>1. CASE L!Library
  <2>1. seen' \in SeenType /\ lib' \in {"connecting", "disconnecting"}
    BY <1>1 DEF L!Library, L!GattConnect, L!GattDisconnect, LinkTyped, SeenType
  <2>2. msgs' \in Seq(MessageType) /\ UNCHANGED <<connecting, iface, state, ui, link, att>>
    BY <1>1, <1>m DEF L!Library, L!GattConnect, L!GattDisconnect, L!Post
  <2> QED
    BY <1>0, <2>1, <2>2 DEF LinkTyped, UiTyped, QueuesTyped
<1>2. CASE L!OnMeshDeviceConnect
  <2>1. seen.ifaces + 1 \in Nat
    BY DEF LinkTyped, SeenType
  <2>2. \/ seen' = seen
        \/ seen' = [seen EXCEPT !.ifaces = seen.ifaces + 1]
        \/ seen' = [seen EXCEPT !.ifaces = seen.ifaces + 1, !.silent = TRUE]
    BY <1>2 DEF L!OnMeshDeviceConnect
  <2>3. seen' \in SeenType
    BY <2>1, <2>2 DEF LinkTyped, SeenType
  <2> QED
    BY <1>0, <1>2, <1>m, <2>1, <2>3
       DEF L!OnMeshDeviceConnect, L!Takes, L!GiveUp, LinkTyped, UiTyped, QueuesTyped
<1>3. CASE L!InitReturns
  <2>1. CASE L!GiveUp /\ UNCHANGED <<link, att, seen>>
    BY <1>0, <1>3, <1>m, <2>1 DEF L!InitReturns, L!GiveUp, LinkTyped, UiTyped, QueuesTyped
  <2>2. CASE /\ L!Subscribe(iface) /\ ui' = "idle"
             /\ UNCHANGED <<lib, connecting, iface, state, msgs, link>>
    BY <1>0, <1>m, <2>2 DEF L!Subscribe, LinkTyped, UiTyped, QueuesTyped
  <2>3. CASE /\ L!SubscribeNothing /\ ui' = "idle"
             /\ UNCHANGED <<lib, connecting, iface, state, msgs, link>>
    BY <1>0, <2>3 DEF L!SubscribeNothing, LinkTyped, UiTyped, QueuesTyped, SeenType
  <2> QED
    BY <1>3, <2>1, <2>2, <2>3 DEF L!InitReturns
<1>4. CASE L!OnMeshDeviceCCCDPutComplete
  BY <1>0, <1>4, <1>m
     DEF L!OnMeshDeviceCCCDPutComplete, L!Takes, LinkTyped, UiTyped, QueuesTyped
<1>5. CASE L!LinkUp
  BY <1>0, <1>5 DEF L!LinkUp, LinkTyped, UiTyped, QueuesTyped
<1>6. CASE L!SubscribeCompletes
  <2>1. PICK ok \in BOOLEAN :
           /\ seen' = [seen EXCEPT !.subscribed = IF ok THEN Head(att).iface ELSE @,
                                   !.stale = @ \/ Head(att).iface # iface]
           /\ L!InObject(Head(att).iface, L!Reply(ok), UNCHANGED msgs)
    BY <1>6, <1>m DEF L!SubscribeCompletes, WriteType, L!InObject
  <2>2. seen' \in SeenType
    <3> DEFINE b == seen.stale \/ Head(att).iface # iface
               n == IF ok THEN Head(att).iface ELSE seen.subscribed
    <3>1. b \in BOOLEAN
      OBVIOUS
    <3>2. n \in Nat
      BY <1>6, <1>m DEF LinkTyped, SeenType, WriteType, L!SubscribeCompletes
    <3>3. seen' = [seen EXCEPT !.subscribed = n, !.stale = b]
      BY <2>1
    <3> HIDE DEF b, n
    <3> QED
      BY <3>1, <3>2, <3>3 DEF LinkTyped, SeenType
  <2>3. msgs' \in Seq(MessageType) /\ UiTyped'
    BY <1>m, <2>1 DEF L!InObject, L!Reply, L!Post, UiTyped, QueuesTyped
  <2> QED
    BY <1>0, <1>6, <1>m, <2>2, <2>3 DEF L!SubscribeCompletes, LinkTyped, QueuesTyped
<1> QED
  BY <1>1, <1>2, <1>3, <1>4, <1>5, <1>6 DEF Connection

LEMMA TypeStep == TypeOK /\ [Next]_vars => TypeOK'
<1> SUFFICES ASSUME TypeOK, [Next]_vars PROVE LinkTyped' /\ UiTyped' /\ QueuesTyped' /\ OtaTyped'
  BY TypeDef DEF TypeOK, LinkTyped, UiTyped, QueuesTyped, OtaTyped, MessageType, WriteType,
         SeenType, DownloaderType, Places, DeviceType, HistoryType
<1>0. LinkTyped /\ UiTyped /\ QueuesTyped /\ OtaTyped
  BY TypeDef
<1>1. CASE StartOta \/ StopOta
  BY <1>0, <1>1, UserTypes
<1>2. CASE Messages
  BY <1>0, <1>2, ControlPointTypes, ProgressTypes, DisconnectTypes DEF Messages
<1>3. CASE Threads
  BY <1>0, <1>3, WorkerTypes DEF Threads
<1>4. CASE Windows
  BY <1>0, <1>4, WindowsTypes
<1>5. CASE Connection
  BY <1>0, <1>5, ConnectionTypes
<1>6. CASE UNCHANGED vars
  BY <1>0, <1>6 DEF vars, linkVars, otaVars, LinkTyped, UiTyped, QueuesTyped, OtaTyped
<1> QED
  BY <1>1, <1>2, <1>3, <1>4, <1>5, <1>6 DEF Next

\* Every variable of the download and of its connection keeps its type, and
\* the handle of the worker is that of a thread there is.  (The offset is a
\* natural number: that it stays within the image is not a matter of types.)
THEOREM TypeCorrect == Spec => []TypeOK
  BY TypeInit, TypeStep, PTL DEF Spec

-----------------------------------------------------------------------------
(* Queues                                                                  *)

\* does the queue s hold an element of E, and at most one of them
Some(s, E) == \E i \in 1 .. Len(s) : s[i] \in E
Once(s, E) == \A i, j \in 1 .. Len(s) : s[i] \in E /\ s[j] \in E => i = j

LEMMA SomeAppend ==
    ASSUME NEW S, NEW s \in Seq(S), NEW e \in S, NEW E
    PROVE  /\ Some(Append(s, e), E) <=> Some(s, E) \/ e \in E
           /\ Once(s, E) /\ ~(Some(s, E) /\ e \in E) => Once(Append(s, e), E)
<1>1. /\ Len(s) \in Nat /\ Len(Append(s, e)) = Len(s) + 1
      /\ \A i \in 1 .. Len(s) : Append(s, e)[i] = s[i]
      /\ Append(s, e)[Len(s) + 1] = e
  BY AppendProperties, LenProperties
<1> QED
  BY <1>1 DEF Some, Once

LEMMA SomeTail ==
    ASSUME NEW S, NEW s \in Seq(S), s # <<>>, NEW E
    PROVE  /\ Some(s, E) <=> Head(s) \in E \/ Some(Tail(s), E)
           /\ Once(s, E) => Once(Tail(s), E)
           /\ Once(s, E) /\ Head(s) \in E => ~Some(Tail(s), E)
<1>1. /\ Len(s) \in Nat \ {0} /\ Len(Tail(s)) = Len(s) - 1
      /\ \A i \in 1 .. Len(s) - 1 : Tail(s)[i] = s[i + 1]
      /\ Head(s) = s[1]
  BY HeadTailProperties, LenProperties, EmptySeq
<1>2. ASSUME Some(s, E) PROVE Head(s) \in E \/ Some(Tail(s), E)
  <2> PICK i \in 1 .. Len(s) : s[i] \in E
    BY <1>2 DEF Some
  <2>1. i # 1 => i - 1 \in 1 .. Len(Tail(s)) /\ Tail(s)[i - 1] \in E
    BY <1>1
  <2> QED
    BY <1>1, <2>1 DEF Some
<1>3. ASSUME Head(s) \in E \/ Some(Tail(s), E) PROVE Some(s, E)
  BY <1>1, <1>3 DEF Some
<1> QED
  BY <1>1, <1>2, <1>3 DEF Some, Once

LEMMA SomeEmpty == \A E : ~Some(<<>>, E) /\ Once(<<>>, E)
  BY DEF Some, Once

LEMMA Singleton ==
    ASSUME NEW S, NEW s \in Seq(S), Len(s) = 1 PROVE s = <<s[1]>> /\ s[1] \in S
<1>1. s[1] \in S /\ s = [i \in 1 .. 1 |-> s[i]]
  BY LenProperties
<1>2. <<s[1]>> \in Seq(S) /\ Len(<<s[1]>>) = 1 /\ <<s[1]>>[1] = s[1]
  BY <1>1
<1>3. \A i \in 1 .. 1 : s[i] = <<s[1]>>[i]
  BY <1>2
<1> QED
  BY <1>1, <1>2, <1>3, SeqEqual

\* no thread, or one
LEMMA OnePlace ==
    ASSUME NEW S, NEW s \in Seq(S), Len(s) =< 1
    PROVE  /\ s = <<>> \/ (s = <<s[1]>> /\ Len(s) = 1 /\ s[1] \in S)
           /\ \A e \in S : s = <<>> => Append(s, e) = <<e>>
           /\ \A e \in S : \A w \in 1 .. Len(s) : w = 1 /\ [s EXCEPT ![w] = e] = <<e>>
<1>0. Len(s) = 0 \/ Len(s) = 1
  <2>1. \A n \in Nat : n =< 1 => n = 0 \/ n = 1
    OBVIOUS
  <2>2. Len(s) \in Nat
    BY LenProperties
  <2> QED
    BY <2>1, <2>2, Zenon
<1>1. (Len(s) = 0 => s = <<>>) /\ (s = <<>> => Len(s) = 0)
  BY LenProperties, EmptySeq
<1>2. s = <<>> \/ (s = <<s[1]>> /\ Len(s) = 1 /\ s[1] \in S)
  BY <1>0, <1>1, Singleton
<1>3. ASSUME NEW e \in S, s = <<>> PROVE Append(s, e) = <<e>>
  <2>1. Append(s, e) \in Seq(S) /\ Len(Append(s, e)) = 1 /\ Append(s, e)[1] = e
    BY <1>1, <1>3, AppendProperties
  <2> QED
    BY <2>1, Singleton
<1>4. ASSUME NEW e \in S, NEW w \in 1 .. Len(s) PROVE w = 1 /\ [s EXCEPT ![w] = e] = <<e>>
  <2>1. w = 1 /\ Len(s) = 1
    BY <1>0
  <2>2. /\ [s EXCEPT ![w] = e] \in Seq(S) /\ Len([s EXCEPT ![w] = e]) = 1
        /\ [s EXCEPT ![w] = e][1] = e
    BY <2>1, ExceptSeq
  <2> QED
    BY <2>1, <2>2, Singleton
<1> QED
  BY <1>2, <1>3, <1>4

\* one report more
LEMMA AppendOne ==
    ASSUME NEW r
    PROVE  Append(<<>>, r) = <<r>> /\ Append(<<r>>, r) = <<r, r>>
<1>1. <<>> \in Seq({r}) /\ Len(<<>>) =< 1 /\ <<r>> \in Seq({r}) /\ Len(<<r>>) = 1 /\ r \in {r}
  BY EmptySeq
<1>2. Append(<<>>, r) = <<r>>
  BY <1>1, OnePlace
<1>3. /\ Append(<<r>>, r) \in Seq({r}) /\ Len(Append(<<r>>, r)) = 2
      /\ \A i \in 1 .. 2 : Append(<<r>>, r)[i] \in {r}
  BY <1>1, AppendProperties, ElementOfSeq
<1>4. <<r, r>> \in Seq({r}) /\ Len(<<r, r>>) = 2 /\ \A i \in 1 .. 2 : <<r, r>>[i] = r
  OBVIOUS
<1>5. \A i \in 1 .. 2 : Append(<<r>>, r)[i] = <<r, r>>[i]
  BY <1>3, <1>4
<1> QED
  BY <1>2, <1>3, <1>4, <1>5, SeqEqual

-----------------------------------------------------------------------------
(* The invariant of an upgrade                                             *)

Replies == {p \in MessageType : p.m \in {"CTRL_OK", "CTRL_FAILED"}}
Successes == {p \in MessageType : p.m = "CTRL_OK"}
DataReports == {p \in MessageType : p.m = "PROGRESS_DATA"}
\* reports of chunks that the worker has not come to
FalseReports(offset) == {p \in DataReports : p.n \notin 1 .. offset}
\* first reports of another length than the image's
WrongTotals == {p \in MessageType : p.m = "PROGRESS_WAIT" /\ p.n # Chunks}

Commands == {w \in WriteType : Command(w)}
\* writes that change what the device has of the image
ImageWrites == {w \in WriteType : w.op \notin {"subscribe", "indicate"}}

\* nothing comes between a command to verify the image and its execution
VerifyLast(s) ==
    \A i \in 1 .. Len(s) :
       s[i] \in Commands => /\ s[i].op = "verify" /\ s[i].x = Image
                            /\ \A j \in i + 1 .. Len(s) : s[j] \notin ImageWrites

\* the CRC of the first k chunks
UpTo(k) == [i \in 1 .. k |-> i]

\* the length of the image is reported truly
Totals == total \in {0, Chunks} /\ ~Some(msgs, WrongTotals)

\* While the state machine waits for an answer, one command or the answer to
\* it is on its way at most, and none while the image is being sent: an
\* answer is never taken for that of another command.
OneToken ==
    dl.state \in {"WAIT", "DATA", "VERIFICATION"} =>
       /\ Once(att, Commands) /\ Once(msgs, Replies)
       /\ ~(Some(att, Commands) /\ Some(msgs, Replies))
       /\ dl.state = "DATA" /\ workers # <<>> =>
             ~Some(att, Commands) /\ ~Some(msgs, Replies)

Unstarted == workers \in {<<>>, <<"new">>}

\* there is one worker, and what only a worker brings about needs it
OneThread ==
    /\ Len(workers) =< 1
    /\ dl.state \in {"NONE", "WAIT"} => workers = <<>>
    /\ Unstarted => dl.state \notin {"VERIFICATION", "VERIFIED"} /\ ~Some(msgs, DataReports)

\* what is reported was sent, and nothing is verified before all of it
Offsets ==
    /\ ~Some(msgs, FalseReports(dl.offset))
    /\ dl.state \in {"VERIFICATION", "VERIFIED"} => dl.offset >= Chunks

\* each state has its reports
Verdict ==
    /\ ~dl.conn => dl.state \in {"NONE", "IDLE"}
    /\ dl.state \in {"NONE", "WAIT", "DATA", "VERIFICATION"} => hist.reports = <<>>
    /\ dl.state = "VERIFIED" => hist.reports = <<"verified">>
    /\ \/ hist.reports = <<>>
       \/ hist.reports = <<"aborted">>
       \/ hist.reports = <<"aborted", "aborted">> /\ workers = <<"done">>
       \/ hist.reports = <<"verified">> /\ dl.offset >= Chunks /\ dl.state # "ABORTED"
                                       /\ ~Unstarted

\* the CRC is that of the chunks so far
Sending ==
    /\ ~Unstarted /\ workers # <<"wait">> => dl.crc = UpTo(dl.offset) /\ dl.offset =< Chunks
    /\ workers = <<"wait">> => dl.crc = UpTo(dl.offset + 1) /\ dl.offset < Chunks

\* a success is the device's verdict on the whole image, which stands
Verifying ==
    dl.state = "VERIFICATION" =>
       /\ VerifyLast(att)
       /\ Some(msgs, Successes) => /\ dev.mode = "verified" /\ dev.got = Image
                                   /\ ~Some(att, ImageWrites)

Upgrade == OneToken /\ OneThread /\ Offsets /\ Verdict /\ Sending /\ Verifying

\* The inductive invariant: OneWorker and OneVerdict need that an answer is not
\* taken for another one's, SuccessImpliesImage that the device has
\* executed nothing since it verified the image.
Sound == Totals /\ (hist.clean => Upgrade)
IInv == TypeOK /\ Sound

LEMMA ImageNumbers == Chunks \in Nat \ {0} /\ Image = UpTo(Chunks)
  BY DownloadAssumption DEF Image, UpTo

LEMMA UpToSeq ==
    ASSUME NEW k \in Nat
    PROVE  UpTo(k) \in Seq(Nat) /\ Append(UpTo(k), k + 1) = UpTo(k + 1)
<1>1. UpTo(k) \in Seq(Nat) /\ Len(UpTo(k)) = k /\ UpTo(k + 1) \in Seq(Nat) /\ Len(UpTo(k + 1)) = k + 1
  BY DEF UpTo
<1>2. /\ Append(UpTo(k), k + 1) \in Seq(Nat) /\ Len(Append(UpTo(k), k + 1)) = k + 1
      /\ \A i \in 1 .. k : Append(UpTo(k), k + 1)[i] = UpTo(k)[i]
      /\ Append(UpTo(k), k + 1)[k + 1] = k + 1
  BY <1>1, AppendProperties
<1>3. \A i \in 1 .. k + 1 : Append(UpTo(k), k + 1)[i] = UpTo(k + 1)[i]
  BY <1>2 DEF UpTo
<1> QED
  BY <1>1, <1>2, <1>3, SeqEqual

\* The messages after a post and after a message was taken.
LEMMA PostMessage ==
    ASSUME QueuesTyped, NEW m \in Texts, NEW n \in Nat, msgs' = Append(msgs, L!Message(m, n)), NEW E
    PROVE  /\ Some(msgs', E) <=> Some(msgs, E) \/ L!Message(m, n) \in E
           /\ Once(msgs, E) /\ ~(Some(msgs, E) /\ L!Message(m, n) \in E) => Once(msgs', E)
  BY SomeAppend, MessageTypes DEF QueuesTyped

LEMMA TakeMessage ==
    ASSUME QueuesTyped, msgs # <<>>, msgs' = Tail(msgs), NEW E
    PROVE  /\ Some(msgs, E) <=> Head(msgs) \in E \/ Some(msgs', E)
           /\ Once(msgs, E) => Once(msgs', E)
           /\ Once(msgs, E) /\ Head(msgs) \in E => ~Some(msgs', E)
  BY SomeTail DEF QueuesTyped

LEMMA MessageKinds ==
    ASSUME NEW m \in Texts, NEW n \in Nat
    PROVE  /\ L!Message(m, n) \in Replies <=> m \in {"CTRL_OK", "CTRL_FAILED"}
           /\ L!Message(m, n) \in Successes <=> m = "CTRL_OK"
           /\ L!Message(m, n) \in DataReports <=> m = "PROGRESS_DATA"
           /\ \A k : L!Message(m, n) \in FalseReports(k) <=> m = "PROGRESS_DATA" /\ n \notin 1 .. k
           /\ L!Message(m, n) \in WrongTotals <=> m = "PROGRESS_WAIT" /\ n # Chunks
<1>1. L!Message(m, n) \in MessageType /\ L!Message(m, n).m = m /\ L!Message(m, n).n = n
  BY DEF L!Message, MessageType
<1> QED
  BY <1>1 DEF Replies, Successes, DataReports, FalseReports, WrongTotals

LEMMA HeadKinds ==
    ASSUME QueuesTyped, msgs # <<>>
    PROVE  /\ Head(msgs) \in Replies <=> Head(msgs).m \in {"CTRL_OK", "CTRL_FAILED"}
           /\ Head(msgs) \in Successes <=> Head(msgs).m = "CTRL_OK"
           /\ Head(msgs) \in DataReports <=> Head(msgs).m = "PROGRESS_DATA"
           /\ \A k : Head(msgs) \in FalseReports(k)
                        <=> Head(msgs).m = "PROGRESS_DATA" /\ Head(msgs).n \notin 1 .. k
           /\ Head(msgs) \in WrongTotals <=> Head(msgs).m = "PROGRESS_WAIT" /\ Head(msgs).n # Chunks
<1>1. Head(msgs) \in MessageType
  BY HeadTailProperties DEF QueuesTyped
<1> QED
  BY <1>1 DEF Replies, Successes, DataReports, FalseReports, WrongTotals

\* A message is taken and one posted that no upgrade answers to.
LEMMA TakeAndPost ==
    ASSUME QueuesTyped, msgs # <<>>, NEW n \in Nat,
           NEW m \in Texts \ {"CTRL_OK", "CTRL_FAILED", "PROGRESS_DATA", "PROGRESS_WAIT"},
           msgs' = Append(Tail(msgs), L!Message(m, n))
    PROVE  /\ Some(msgs', WrongTotals) => Some(msgs, WrongTotals)
           /\ Some(msgs', DataReports) => Some(msgs, DataReports)
           /\ \A k : Some(msgs', FalseReports(k)) => Some(msgs, FalseReports(k))
<1>1. Tail(msgs) \in Seq(MessageType) /\ L!Message(m, n) \in MessageType
  BY HeadTailProperties, MessageTypes DEF QueuesTyped
<1>2. \A E : Some(msgs', E) <=> Some(Tail(msgs), E) \/ L!Message(m, n) \in E
  BY <1>1, SomeAppend
<1>3. \A E : Some(Tail(msgs), E) => Some(msgs, E)
  BY SomeTail DEF QueuesTyped
<1>4. /\ L!Message(m, n) \notin WrongTotals /\ L!Message(m, n) \notin DataReports
      /\ \A k : L!Message(m, n) \notin FalseReports(k)
  BY MessageKinds
<1> QED
  BY <1>2, <1>3, <1>4

\* A queue of messages that loses one, or gets one that no upgrade answers to.
GentleMsgs ==
    \/ msgs' = msgs
    \/ msgs # <<>> /\ msgs' = Tail(msgs)
    \/ \E m \in Texts \ {"CTRL_OK", "CTRL_FAILED", "PROGRESS_DATA", "PROGRESS_WAIT"} :
          \E n \in Nat : msgs' = Append(msgs, L!Message(m, n))

LEMMA GentleMsgsKeep ==
    ASSUME QueuesTyped, GentleMsgs
    PROVE  /\ Some(msgs', Replies) => Some(msgs, Replies)
           /\ Some(msgs', Successes) => Some(msgs, Successes)
           /\ Some(msgs', DataReports) => Some(msgs, DataReports)
           /\ \A k : Some(msgs', FalseReports(k)) => Some(msgs, FalseReports(k))
           /\ Some(msgs', WrongTotals) => Some(msgs, WrongTotals)
           /\ Once(msgs, Replies) => Once(msgs', Replies)
<1>1. CASE msgs' = msgs
  BY <1>1
<1>2. CASE msgs # <<>> /\ msgs' = Tail(msgs)
  BY <1>2, TakeMessage
<1>3. ASSUME NEW m \in Texts \ {"CTRL_OK", "CTRL_FAILED", "PROGRESS_DATA", "PROGRESS_WAIT"},
             NEW n \in Nat, msgs' = Append(msgs, L!Message(m, n))
      PROVE  /\ \A E \in {Replies, Successes, DataReports, WrongTotals} : Some(msgs', E) => Some(msgs, E)
             /\ \A k : Some(msgs', FalseReports(k)) => Some(msgs, FalseReports(k))
             /\ Once(msgs, Replies) => Once(msgs', Replies)
  <2>1. /\ L!Message(m, n) \notin Replies /\ L!Message(m, n) \notin Successes
        /\ L!Message(m, n) \notin DataReports /\ L!Message(m, n) \notin WrongTotals
        /\ \A k : L!Message(m, n) \notin FalseReports(k)
    BY MessageKinds
  <2>2. \A E : Some(msgs', E) <=> Some(msgs, E) \/ L!Message(m, n) \in E
    BY <1>3, PostMessage
  <2>3. Once(msgs, Replies) => Once(msgs', Replies)
    BY <1>3, <2>1, PostMessage
  <2> QED
    BY <2>1, <2>2, <2>3
<1> QED
  BY <1>1, <1>2, <1>3 DEF GentleMsgs

\* A queue of writes that loses one, has one executed, or gets one that changes
\* nothing of the image.
GentleAtt ==
    \/ att' = att
    \/ att # <<>> /\ att' = Tail(att)
    \/ att # <<>> /\ att' = [att EXCEPT ![1].done = TRUE]
    \/ \E i \in Nat : att' = Append(att, L!Write(i, "subscribe", <<>>))

\* Writes that change what the device has, among those of their kinds.
LEMMA WriteKinds ==
    /\ \A w \in WriteType : /\ w \in Commands <=> w.op \in {"prepare", "download", "verify", "abort"}
                            /\ w \in ImageWrites <=> w.op \notin {"subscribe", "indicate"}
    /\ Commands \subseteq ImageWrites
  BY DEF Commands, ImageWrites, Command, WriteType, Writes

\* The last command stays the last write of the image.
LEMMA VerifyLastTail ==
    ASSUME NEW s \in Seq(WriteType), s # <<>>, VerifyLast(s)
    PROVE  /\ VerifyLast(Tail(s))
           /\ Head(s) \in Commands => ~Some(Tail(s), ImageWrites) /\ Head(s).op = "verify"
                                      /\ Head(s).x = Image
<1>1. /\ Len(s) \in Nat \ {0} /\ Len(Tail(s)) = Len(s) - 1
      /\ \A i \in 1 .. Len(s) - 1 : Tail(s)[i] = s[i + 1]
      /\ Head(s) = s[1]
  BY HeadTailProperties, LenProperties, EmptySeq
<1>2. VerifyLast(Tail(s))
  <2> SUFFICES ASSUME NEW i \in 1 .. Len(Tail(s)), Tail(s)[i] \in Commands
               PROVE  /\ Tail(s)[i].op = "verify" /\ Tail(s)[i].x = Image
                      /\ \A j \in i + 1 .. Len(Tail(s)) : Tail(s)[j] \notin ImageWrites
    BY DEF VerifyLast
  <2>1. i + 1 \in 1 .. Len(s) /\ s[i + 1] = Tail(s)[i]
    BY <1>1
  <2>2. /\ s[i + 1].op = "verify" /\ s[i + 1].x = Image
        /\ \A j \in (i + 1) + 1 .. Len(s) : s[j] \notin ImageWrites
    BY <2>1 DEF VerifyLast
  <2>3. \A j \in i + 1 .. Len(Tail(s)) : j + 1 \in (i + 1) + 1 .. Len(s) /\ Tail(s)[j] = s[j + 1]
    BY <1>1
  <2> QED
    BY <2>1, <2>2, <2>3
<1>3. ASSUME Head(s) \in Commands
      PROVE  ~Some(Tail(s), ImageWrites) /\ Head(s).op = "verify" /\ Head(s).x = Image
  <2>1. /\ s[1].op = "verify" /\ s[1].x = Image
        /\ \A j \in 1 + 1 .. Len(s) : s[j] \notin ImageWrites
    BY <1>1, <1>3 DEF VerifyLast
  <2>2. \A j \in 1 .. Len(Tail(s)) : j + 1 \in 1 + 1 .. Len(s) /\ Tail(s)[j] = s[j + 1]
    BY <1>1
  <2> QED
    BY <1>1, <2>1, <2>2 DEF Some
<1> QED
  BY <1>2, <1>3

LEMMA VerifyLastAppend ==
    ASSUME NEW s \in Seq(WriteType), NEW w \in WriteType,
           \/ VerifyLast(s) /\ w \notin ImageWrites
           \/ ~Some(s, Commands) /\ w.op = "verify" /\ w.x = Image
    PROVE  VerifyLast(Append(s, w))
<1>1. /\ Len(s) \in Nat /\ Len(Append(s, w)) = Len(s) + 1
      /\ \A i \in 1 .. Len(s) : Append(s, w)[i] = s[i]
      /\ Append(s, w)[Len(s) + 1] = w
  BY AppendProperties, LenProperties
<1>2. CASE VerifyLast(s) /\ w \notin ImageWrites
  <2>1. w \notin Commands
    BY <1>2, WriteKinds
  <2> QED
    BY <1>1, <1>2, <2>1 DEF VerifyLast
<1>3. CASE ~Some(s, Commands) /\ w.op = "verify" /\ w.x = Image
  BY <1>1, <1>3 DEF VerifyLast, Some
<1> QED
  BY <1>2, <1>3

LEMMA SameWrites ==
    ASSUME NEW s \in Seq(WriteType), NEW t \in Seq(WriteType), Len(t) = Len(s),
           \A i \in 1 .. Len(s) : t[i].op = s[i].op /\ t[i].x = s[i].x
    PROVE  /\ Some(t, Commands) <=> Some(s, Commands)
           /\ Some(t, ImageWrites) <=> Some(s, ImageWrites)
           /\ Once(s, Commands) => Once(t, Commands)
           /\ VerifyLast(s) => VerifyLast(t)
<1>1. \A i \in 1 .. Len(s) : s[i] \in WriteType /\ t[i] \in WriteType
  BY ElementOfSeq
<1>2. \A i \in 1 .. Len(s) : /\ t[i] \in Commands <=> s[i] \in Commands
                             /\ t[i] \in ImageWrites <=> s[i] \in ImageWrites
  BY <1>1, WriteKinds
<1>3. ASSUME VerifyLast(s) PROVE VerifyLast(t)
  <2> SUFFICES ASSUME NEW i \in 1 .. Len(s), t[i] \in Commands
               PROVE  /\ t[i].op = "verify" /\ t[i].x = Image
                      /\ \A j \in i + 1 .. Len(s) : t[j] \notin ImageWrites
    BY DEF VerifyLast
  <2>1. /\ s[i].op = "verify" /\ s[i].x = Image
        /\ \A j \in i + 1 .. Len(s) : s[j] \notin ImageWrites
    BY <1>2, <1>3 DEF VerifyLast
  <2>2. \A j \in i + 1 .. Len(s) : j \in 1 .. Len(s)
    BY LenProperties
  <2> QED
    BY <1>2, <2>1, <2>2
<1> QED
  BY <1>2, <1>3 DEF Some, Once

LEMMA MarkKeeps ==
    ASSUME QueuesTyped, att # <<>>, att' = [att EXCEPT ![1].done = TRUE]
    PROVE  /\ Some(att', Commands) <=> Some(att, Commands)
           /\ Some(att', ImageWrites) <=> Some(att, ImageWrites)
           /\ Once(att, Commands) => Once(att', Commands)
           /\ VerifyLast(att) => VerifyLast(att')
<1>1. /\ att \in Seq(WriteType) /\ att' \in Seq(WriteType) /\ Len(att') = Len(att)
      /\ \A i \in 1 .. Len(att) : att'[i].op = att[i].op /\ att'[i].x = att[i].x
  BY MarkDone DEF QueuesTyped
<1> QED
  BY <1>1, SameWrites

LEMMA GentleAttKeeps ==
    ASSUME QueuesTyped, GentleAtt
    PROVE  /\ Some(att', Commands) => Some(att, Commands)
           /\ Some(att', ImageWrites) => Some(att, ImageWrites)
           /\ Once(att, Commands) => Once(att', Commands)
           /\ VerifyLast(att) => VerifyLast(att')
<1>1. CASE att' = att
  BY <1>1
<1>2. CASE att # <<>> /\ att' = Tail(att)
  <2>1. \A E : /\ Some(att', E) => Some(att, E)
               /\ Once(att, E) => Once(att', E)
    BY <1>2, SomeTail DEF QueuesTyped
  <2>2. VerifyLast(att) => VerifyLast(att')
    BY <1>2, VerifyLastTail DEF QueuesTyped
  <2> QED
    BY <2>1, <2>2
<1>3. CASE att # <<>> /\ att' = [att EXCEPT ![1].done = TRUE]
  BY <1>3, MarkKeeps
<1>4. ASSUME NEW i \in Nat, att' = Append(att, L!Write(i, "subscribe", <<>>))
      PROVE  /\ Some(att', Commands) => Some(att, Commands)
             /\ Some(att', ImageWrites) => Some(att, ImageWrites)
             /\ Once(att, Commands) => Once(att', Commands)
             /\ VerifyLast(att) => VerifyLast(att')
  <2> DEFINE w == L!Write(i, "subscribe", <<>>)
  <2>1. w \in WriteType
    BY WriteTypes, NumberSeqs DEF Writes
  <2>2. w.op = "subscribe"
    BY DEF L!Write
  <2>3. w \notin Commands /\ w \notin ImageWrites
    BY <2>1, <2>2, WriteKinds
  <2> HIDE DEF w
  <2>4. att \in Seq(WriteType) /\ att' = Append(att, w)
    BY <1>4 DEF QueuesTyped, w
  <2> QED
    BY <2>1, <2>3, <2>4, SomeAppend, VerifyLastAppend
<1> QED
  BY <1>1, <1>2, <1>3, <1>4 DEF GentleAtt

\* A step that disturbs the queues no more than that, and neither the
\* downloader nor an image that was verified.
Gentle ==
    /\ GentleMsgs /\ GentleAtt
    /\ UNCHANGED <<dl, workers>>
    /\ hist'.clean = hist.clean /\ hist'.reports = hist.reports
    /\ dev.mode = "verified" => dev'.mode = dev.mode /\ dev'.got = dev.got

LEMMA GentleStep ==
    ASSUME QueuesTyped, Gentle, Upgrade PROVE Upgrade'
<1>1. /\ Some(msgs', Replies) => Some(msgs, Replies)
      /\ Some(msgs', Successes) => Some(msgs, Successes)
      /\ Some(msgs', DataReports) => Some(msgs, DataReports)
      /\ \A k : Some(msgs', FalseReports(k)) => Some(msgs, FalseReports(k))
      /\ Once(msgs, Replies) => Once(msgs', Replies)
  BY GentleMsgsKeep DEF Gentle
<1>2. /\ Some(att', Commands) => Some(att, Commands)
      /\ Some(att', ImageWrites) => Some(att, ImageWrites)
      /\ Once(att, Commands) => Once(att', Commands)
      /\ VerifyLast(att) => VerifyLast(att')
  BY GentleAttKeeps DEF Gentle
<1>3. dl' = dl /\ workers' = workers /\ hist'.reports = hist.reports
  BY DEF Gentle
<1>4. OneToken'
  BY <1>1, <1>2, <1>3 DEF Upgrade, OneToken
<1>5. OneThread' /\ Offsets'
  BY <1>1, <1>3 DEF Upgrade, OneThread, Offsets, Unstarted
<1>6. Verdict' /\ Sending'
  BY <1>3 DEF Upgrade, Verdict, Sending, Unstarted
<1>7. Verifying'
  BY <1>1, <1>2, <1>3 DEF Gentle, Upgrade, Verifying
<1> QED
  BY <1>4, <1>5, <1>6, <1>7 DEF Upgrade

LEMMA GentleSound ==
    ASSUME QueuesTyped, Gentle, UNCHANGED total, Sound PROVE Sound'
<1>1. Totals'
  BY GentleMsgsKeep DEF Gentle, Sound, Totals
<1>2. hist'.clean => Upgrade'
  BY GentleStep DEF Gentle, Sound
<1> QED
  BY <1>1, <1>2 DEF Sound

\* what a mark on the history leaves alone
LEMMA HurtKeeps ==
    ASSUME hist \in HistoryType, hist' \in {hist, Hurt(hist)}
    PROVE  hist'.clean = hist.clean /\ hist'.reports = hist.reports
  BY DEF HistoryType, Hurt

\* The steps of the connection.
LEMMA ConnectionSound ==
    ASSUME IInv, Connection PROVE Sound'
<1>1. LinkTyped /\ QueuesTyped /\ Sound
  BY TypeDef DEF IInv
<1>2. UNCHANGED <<dl, workers, total, dev, hist>>
  BY DEF Connection, otaVars
<1>3. \A m \in {"CONNECT", "DISCONNECT", "DISCONNECTED", "CCCD_PUT_COMPLETE"} :
         msgs' = Append(msgs, L!Message(m, 0)) => GentleMsgs
  BY DEF GentleMsgs, Texts
<1>4. GentleMsgs
  <2>1. CASE L!Library
    BY <1>3, <2>1 DEF L!Library, L!GattConnect, L!GattDisconnect, L!Post
  <2>2. CASE L!OnMeshDeviceConnect \/ L!OnMeshDeviceCCCDPutComplete
    BY <2>2 DEF L!OnMeshDeviceConnect, L!OnMeshDeviceCCCDPutComplete, L!Takes, GentleMsgs
  <2>3. CASE L!InitReturns
    BY <1>3, <2>3 DEF L!InitReturns, GentleMsgs
  <2>4. CASE L!LinkUp
    BY <2>4 DEF L!LinkUp, GentleMsgs
  <2>5. CASE L!SubscribeCompletes
    <3>1. \/ UNCHANGED msgs
          \/ \E m \in {"CCCD_PUT_COMPLETE", "DISCONNECTED"} : msgs' = Append(msgs, L!Message(m, 0))
      BY <2>5 DEF L!SubscribeCompletes, L!InObject, L!Reply, L!Post
    <3> QED
      BY <1>3, <3>1 DEF GentleMsgs
  <2> QED
    BY <2>1, <2>2, <2>3, <2>4, <2>5 DEF Connection
<1>5. GentleAtt
  <2>1. CASE L!Library \/ L!OnMeshDeviceConnect \/ L!OnMeshDeviceCCCDPutComplete \/ L!LinkUp
    BY <2>1 DEF L!Library, L!GattConnect, L!GattDisconnect, L!OnMeshDeviceConnect,
                L!OnMeshDeviceCCCDPutComplete, L!LinkUp, GentleAtt
  <2>2. CASE L!InitReturns
    BY <1>1, <2>2 DEF L!InitReturns, L!Subscribe, L!SubscribeNothing, GentleAtt, LinkTyped
  <2>3. CASE L!SubscribeCompletes
    BY <2>3 DEF L!SubscribeCompletes, GentleAtt
  <2> QED
    BY <2>1, <2>2, <2>3 DEF Connection
<1> QED
  BY <1>1, <1>2, <1>4, <1>5, GentleSound DEF Gentle

\* A step that takes a message which is not that of a device's answer.
LEMMA TakesSound ==
    ASSUME IInv, msgs # <<>>, msgs' = Tail(msgs), UNCHANGED <<att, dl, workers, dev, total>>,
           hist' \in {hist, Hurt(hist)}
    PROVE  Sound'
<1>1. QueuesTyped /\ Sound /\ hist \in HistoryType
  BY TypeDef DEF IInv, OtaTyped
<1> QED
  BY <1>1, HurtKeeps, GentleSound DEF Gentle, GentleMsgs, GentleAtt

LEMMA UserSound ==
    ASSUME IInv, StartOta \/ StopOta PROVE Sound'
<1>0. LinkTyped /\ QueuesTyped /\ OtaTyped /\ Sound /\ Chunks \in Nat \ {0}
  BY TypeDef, ImageNumbers DEF IInv
<1>1. CASE StartOta
  <2>1. /\ dl'.state = "WAIT" /\ dl'.conn = TRUE /\ dl'.offset = 0
        /\ hist'.reports = <<>> /\ hist'.clean = Quiet
    BY <1>1 DEF StartOta, NewDownloader, NoDownloader
  <2>2. msgs' = Append(msgs, L!Message("PROGRESS_WAIT", Chunks))
    BY <1>1 DEF StartOta, Outbox
  <2>3. \A E : Some(msgs', E) <=> Some(msgs, E) \/ L!Message("PROGRESS_WAIT", Chunks) \in E
    BY <1>0, <2>2, PostMessage DEF Texts
  <2>4. /\ L!Message("PROGRESS_WAIT", Chunks) \notin WrongTotals
        /\ L!Message("PROGRESS_WAIT", Chunks) \notin Replies
        /\ L!Message("PROGRESS_WAIT", Chunks) \notin DataReports
    BY <1>0, MessageKinds DEF Texts
  <2>5. Totals'
    BY <1>0, <1>1, <2>3, <2>4 DEF Sound, Totals, StartOta
  <2>6. ASSUME Quiet PROVE Upgrade'
    <3>1. workers' = <<>> /\ msgs = <<>> /\ att = <<>>
      BY <1>1, <2>6 DEF StartOta, Quiet
    <3>2. ~Some(msgs', Replies) /\ ~Some(msgs', DataReports)
      BY <2>3, <2>4, <3>1, SomeEmpty
    <3>3. ~Some(msgs', FalseReports(0))
      BY <3>2 DEF Some, FalseReports
    <3>4. Once(msgs', Replies)
      BY <3>2 DEF Some, Once
    <3>5. Once(att', Commands)
      <4> DEFINE a == L!Write(iface, "indicate", <<>>)
                 b == L!Write(iface, "prepare", <<>>)
      <4>1. a \in WriteType /\ b \in WriteType /\ a.op = "indicate"
        BY <1>0, WriteTypes, NumberSeqs DEF LinkTyped, Writes, L!Write
      <4>2. a \notin Commands
        BY <4>1, WriteKinds
      <4>3. att' = <<a, a, b>>
        BY <1>1, <3>1, <4>1 DEF StartOta
      <4> HIDE DEF a, b
      <4>4. Len(att') = 3 /\ att'[1] = a /\ att'[2] = a
        BY <4>3
      <4> QED
        BY <4>2, <4>4 DEF Once
    <3>6. OneToken'
      BY <2>1, <3>2, <3>4, <3>5 DEF OneToken
    <3>7. OneThread' /\ Offsets' /\ Verdict' /\ Sending' /\ Verifying'
      BY <2>1, <3>1, <3>2, <3>3
         DEF OneThread, Offsets, Verdict, Sending, Verifying, Unstarted
    <3> QED
      BY <3>6, <3>7 DEF Upgrade
  <2> QED
    BY <2>1, <2>5, <2>6 DEF Sound
<1>2. CASE StopOta
  <2>1. /\ dl.state = "DATA" /\ dl'.state = "ABORTED" /\ dl'.conn = dl.conn
        /\ dl'.offset = dl.offset /\ dl'.crc = dl.crc
        /\ UNCHANGED <<msgs, att, workers, total, dev>>
    BY <1>0, <1>2 DEF StopOta, linkVars, OtaTyped, DownloaderType
  <2>2. hist'.clean = hist.clean /\ hist'.reports = hist.reports
    BY <1>0, <1>2, HurtKeeps DEF StopOta, OtaTyped
  <2>3. ASSUME Upgrade PROVE Upgrade'
    BY <2>1, <2>2, <2>3
       DEF Upgrade, OneToken, OneThread, Offsets, Verdict, Sending, Verifying, Unstarted
  <2> QED
    BY <1>0, <2>1, <2>2, <2>3 DEF Sound, Totals
<1> QED
  BY <1>1, <1>2

\* A write through the interface, or one that was deleted.
LEMMA SendWrites ==
    ASSUME LinkTyped, QueuesTyped, NEW op \in Writes \ {"subscribe", "indicate"},
           NEW x \in Seq(Nat), Send(op, x)
    PROVE  /\ Once(att, Commands) /\ (Some(att, Commands) => op = "data") => Once(att', Commands)
           /\ Some(att', Commands) => Some(att, Commands) \/ op # "data"
           /\ ~Some(att, Commands) /\ op = "verify" /\ x = Image => VerifyLast(att')
<1>1. CASE att' = att
  BY <1>1 DEF VerifyLast, Some
<1>2. CASE att' = Append(att, L!Write(iface, op, x))
  <2> DEFINE w == L!Write(iface, op, x)
  <2>1. w \in WriteType /\ w.op = op /\ w.x = x
    BY WriteTypes DEF LinkTyped, L!Write
  <2>2. w \in Commands <=> op # "data"
    BY <2>1, WriteKinds DEF Writes
  <2> HIDE DEF w
  <2>3. att \in Seq(WriteType) /\ att' = Append(att, w)
    BY <1>2 DEF QueuesTyped, w
  <2>4. /\ Some(att', Commands) <=> Some(att, Commands) \/ w \in Commands
        /\ Once(att, Commands) /\ ~(Some(att, Commands) /\ w \in Commands) => Once(att', Commands)
    BY <2>1, <2>3, SomeAppend
  <2>5. ~Some(att, Commands) /\ op = "verify" /\ x = Image => VerifyLast(att')
    BY <2>1, <2>3, VerifyLastAppend
  <2> QED
    BY <2>2, <2>4, <2>5
<1> QED
  BY <1>1, <1>2 DEF Send

\* Every answer is taken for what it is.
LEMMA ResponseOkSound ==
    ASSUME IInv, L!Takes("CTRL_OK"), ResponseOk, UNCHANGED <<total, dev>> PROVE Sound'
<1>0. /\ LinkTyped /\ QueuesTyped /\ OtaTyped /\ Sound /\ Chunks \in Nat \ {0}
      /\ msgs # <<>> /\ Head(msgs).m = "CTRL_OK" /\ hist \in HistoryType /\ dl \in DownloaderType
  BY TypeDef, ImageNumbers DEF IInv, L!Takes, OtaTyped
<1>1. Head(msgs) \in Replies /\ Head(msgs) \in Successes
  BY <1>0, HeadKinds
<1>2. Some(msgs, Replies) /\ Some(msgs, Successes)
  BY <1>0, <1>1, SomeTail DEF QueuesTyped
<1>3. CASE dl.state = "WAIT"
  <2>1. /\ dl' = [dl EXCEPT !.offset = 0, !.state = "DATA"] /\ Send("download", <<>>)
        /\ msgs' = Tail(msgs) /\ UNCHANGED <<workers, hist>>
    BY <1>3 DEF ResponseOk
  <2>2. dl'.state = "DATA" /\ dl'.offset = 0 /\ dl'.conn = dl.conn
    BY <1>0, <2>1 DEF DownloaderType
  <2>3. \A E : Some(msgs', E) => Some(msgs, E)
    BY <1>0, <2>1, TakeMessage
  <2>4. Totals'
    BY <1>0, <2>3 DEF Sound, Totals
  <2>5. ASSUME Upgrade PROVE Upgrade'
    <3>1. /\ workers = <<>> /\ Once(msgs, Replies) /\ ~Some(att, Commands)
          /\ hist.reports = <<>> /\ dl.conn /\ ~Some(msgs, DataReports)
      BY <1>0, <1>2, <1>3, <2>5
         DEF Upgrade, OneToken, OneThread, Verdict, Unstarted, DownloaderType
    <3>2. ~Some(msgs', Replies) /\ Once(msgs', Replies)
      BY <1>0, <1>1, <2>1, <3>1, TakeMessage
    <3>3. Once(att', Commands)
      <4>1. Once(att, Commands)
        BY <3>1 DEF Some, Once
      <4> QED
        BY <1>0, <2>1, <3>1, <4>1, SendWrites, NumberSeqs DEF Writes
    <3>4. ~Some(msgs', DataReports)
      BY <2>3, <3>1
    <3>5. ~Some(msgs', FalseReports(0))
      BY <3>4 DEF Some, FalseReports
    <3>6. OneToken'
      BY <2>1, <2>2, <3>1, <3>2, <3>3 DEF OneToken
    <3>7. OneThread' /\ Offsets' /\ Verdict' /\ Sending' /\ Verifying'
      BY <2>1, <2>2, <2>5, <3>1, <3>4, <3>5
         DEF Upgrade, OneThread, Offsets, Verdict, Sending, Verifying, Unstarted
    <3> QED
      BY <3>6, <3>7 DEF Upgrade
  <2> QED
    BY <1>0, <2>1, <2>4, <2>5 DEF Sound
<1>4. CASE dl.state = "DATA"
  <2>1. /\ workers' = Append(workers, "new") /\ dl' = [dl EXCEPT !.thread = Len(workers) + 1]
        /\ msgs' = Tail(msgs) /\ UNCHANGED <<ui, att, hist>>
    BY <1>4 DEF ResponseOk
  <2>2. dl'.state = "DATA" /\ dl'.offset = dl.offset /\ dl'.conn = dl.conn /\ dl'.crc = dl.crc
    BY <1>0, <1>4, <2>1 DEF DownloaderType
  <2>3. \A E : Some(msgs', E) => Some(msgs, E)
    BY <1>0, <2>1, TakeMessage
  <2>4. Totals'
    BY <1>0, <2>3 DEF Sound, Totals
  <2>5. ASSUME Upgrade PROVE Upgrade'
    <3>1. workers = <<>> /\ Once(msgs, Replies) /\ ~Some(att, Commands) /\ Once(att, Commands)
      BY <1>2, <1>4, <2>5 DEF Upgrade, OneToken
    <3>2. workers' = <<"new">> /\ Len(workers') = 1
      <4>1. workers \in Seq(Places) /\ Len(workers) =< 1
        BY <1>0, <2>5 DEF OtaTyped, Upgrade, OneThread
      <4> QED
        BY <2>1, <3>1, <4>1, OnePlace DEF Places
    <3>3. ~Some(msgs', Replies) /\ Once(msgs', Replies)
      BY <1>0, <1>1, <2>1, <3>1, TakeMessage
    <3>4. OneToken'
      BY <2>1, <2>2, <3>1, <3>3 DEF OneToken
    <3>5. OneThread' /\ Offsets'
      BY <1>4, <2>2, <2>3, <2>5, <3>1, <3>2 DEF Upgrade, OneThread, Offsets, Unstarted
    <3>6. Verdict' /\ Sending' /\ Verifying'
      BY <1>4, <2>1, <2>2, <2>5, <3>1, <3>2 DEF Upgrade, Verdict, Sending, Verifying, Unstarted
    <3> QED
      BY <3>4, <3>5, <3>6 DEF Upgrade
  <2> QED
    BY <1>0, <2>1, <2>4, <2>5 DEF Sound
<1>5. CASE dl.state = "VERIFICATION"
  <2>1. /\ dl' = [dl EXCEPT !.state = "VERIFIED"]
        /\ msgs' = Append(Tail(msgs), L!Message("PROGRESS_VERIFIED", Chunks))
        /\ hist' = Report(hist, "verified") /\ UNCHANGED <<ui, att, workers>>
    BY <1>5 DEF ResponseOk
  <2>2. /\ dl'.state = "VERIFIED" /\ dl'.offset = dl.offset /\ dl'.conn = dl.conn /\ dl'.crc = dl.crc
        /\ hist'.clean = hist.clean /\ hist'.reports = Append(hist.reports, "verified")
    BY <1>0, <2>1 DEF DownloaderType, HistoryType, Report
  <2>3. \A E \in {WrongTotals, DataReports, FalseReports(dl.offset)} : Some(msgs', E) => Some(msgs, E)
    <3>1. /\ "PROGRESS_VERIFIED" \in Texts \ {"CTRL_OK", "CTRL_FAILED", "PROGRESS_DATA", "PROGRESS_WAIT"}
          /\ Chunks \in Nat
      BY <1>0 DEF Texts
    <3> QED
      BY <1>0, <2>1, <3>1, TakeAndPost
  <2>4. Totals'
    BY <1>0, <2>3 DEF Sound, Totals
  <2>5. ASSUME Upgrade PROVE Upgrade'
    <3>0. hist.reports = <<>> /\ dl.offset >= Chunks /\ ~Unstarted
      BY <1>5, <2>5 DEF Upgrade, Verdict, Offsets, OneThread
    <3>1. hist'.reports = <<"verified">> /\ dl.conn
      <4>1. dl.conn
        BY <1>0, <1>5, <2>5 DEF Upgrade, Verdict, DownloaderType
      <4> QED
        BY <2>2, <3>0, <4>1, AppendOne
    <3>2. OneToken' /\ Verifying'
      BY <2>2 DEF OneToken, Verifying
    <3>3. OneThread' /\ Offsets'
      BY <2>1, <2>2, <2>3, <2>5, <3>0 DEF Upgrade, OneThread, Offsets, Unstarted
    <3>4. Verdict' /\ Sending'
      BY <2>1, <2>2, <2>5, <3>0, <3>1 DEF Upgrade, Verdict, Sending, Unstarted
    <3> QED
      BY <3>2, <3>3, <3>4 DEF Upgrade
  <2> QED
    BY <1>0, <2>2, <2>4, <2>5 DEF Sound
<1>6. CASE dl.state \notin {"WAIT", "DATA", "VERIFICATION"}
  BY <1>0, <1>6, TakesSound DEF ResponseOk
<1> QED
  BY <1>3, <1>4, <1>5, <1>6

LEMMA ResponseFailedSound ==
    ASSUME IInv, L!Takes("CTRL_FAILED"), ResponseFailed, UNCHANGED <<total, dev>> PROVE Sound'
<1>0. /\ LinkTyped /\ QueuesTyped /\ OtaTyped /\ Sound /\ Chunks \in Nat \ {0}
      /\ msgs # <<>> /\ hist \in HistoryType /\ dl \in DownloaderType
  BY TypeDef, ImageNumbers DEF IInv, L!Takes, OtaTyped
<1>1. CASE dl.state = "VERIFICATION"
  <2>1. /\ dl' = [dl EXCEPT !.state = "ABORTED"]
        /\ msgs' = Append(Tail(msgs), L!Message("PROGRESS_ABORTED", Chunks))
        /\ hist' = Report(hist, "aborted") /\ UNCHANGED <<att, workers>>
    BY <1>1 DEF ResponseFailed
  <2>2. /\ dl'.state = "ABORTED" /\ dl'.offset = dl.offset /\ dl'.conn = dl.conn /\ dl'.crc = dl.crc
        /\ hist'.clean = hist.clean /\ hist'.reports = Append(hist.reports, "aborted")
    BY <1>0, <2>1 DEF DownloaderType, HistoryType, Report
  <2>3. \A E \in {WrongTotals, DataReports, FalseReports(dl.offset)} : Some(msgs', E) => Some(msgs, E)
    <3>1. /\ "PROGRESS_ABORTED" \in Texts \ {"CTRL_OK", "CTRL_FAILED", "PROGRESS_DATA", "PROGRESS_WAIT"}
          /\ Chunks \in Nat
      BY <1>0 DEF Texts
    <3> QED
      BY <1>0, <2>1, <3>1, TakeAndPost
  <2>4. Totals'
    BY <1>0, <2>3 DEF Sound, Totals
  <2>5. ASSUME Upgrade PROVE Upgrade'
    <3>1. hist.reports = <<>> /\ ~Unstarted
      BY <1>1, <2>5 DEF Upgrade, Verdict, OneThread
    <3>2. hist'.reports = <<"aborted">>
      BY <2>2, <3>1, AppendOne
    <3>3. dl.conn
      BY <1>0, <1>1, <2>5 DEF Upgrade, Verdict, DownloaderType
    <3>4. OneToken' /\ Verifying'
      BY <2>2 DEF OneToken, Verifying
    <3>5. OneThread' /\ Offsets'
      BY <2>1, <2>2, <2>3, <2>5, <3>1 DEF Upgrade, OneThread, Offsets, Unstarted
    <3>6. Verdict' /\ Sending'
      BY <2>1, <2>2, <2>5, <3>2, <3>3 DEF Upgrade, Verdict, Sending, Unstarted
    <3> QED
      BY <3>4, <3>5, <3>6 DEF Upgrade
  <2> QED
    BY <1>0, <2>2, <2>4, <2>5 DEF Sound
<1>2. CASE dl.state # "VERIFICATION"
  BY <1>0, <1>2, TakesSound DEF ResponseFailed
<1> QED
  BY <1>1, <1>2

LEMMA ControlPointSound ==
    ASSUME IInv, OnWsUpgradeCtrlPoint PROVE Sound'
  BY ResponseOkSound, ResponseFailedSound DEF OnWsUpgradeCtrlPoint

LEMMA ProgressSound ==
    ASSUME IInv, OnProgress PROVE Sound'
<1>0. /\ LinkTyped /\ QueuesTyped /\ OtaTyped /\ Sound /\ Chunks \in Nat \ {0}
      /\ msgs # <<>> /\ msgs' = Tail(msgs) /\ UNCHANGED <<workers, dev, hist>>
      /\ dl \in DownloaderType /\ Head(msgs) \in MessageType
  BY TypeDef, QueueTypes, ImageNumbers DEF IInv, OnProgress, OtaTyped
<1>1. CASE Head(msgs).m = "PROGRESS_WAIT"
  <2>1. total' = Head(msgs).n /\ UNCHANGED <<att, dl>>
    BY <1>1 DEF OnProgress
  <2>2. Head(msgs).n = Chunks
    <3>1. Head(msgs) \notin WrongTotals
      BY <1>0, TakeMessage DEF Sound, Totals
    <3> QED
      BY <1>0, <1>1, <3>1, HeadKinds
  <2>3. GentleMsgs /\ GentleAtt
    BY <1>0, <2>1 DEF GentleMsgs, GentleAtt
  <2>4. hist.clean => Upgrade'
    BY <1>0, <2>1, <2>3, GentleStep DEF Gentle, Sound
  <2>5. Totals'
    BY <1>0, <2>1, <2>2, <2>3, GentleMsgsKeep DEF Sound, Totals
  <2> QED
    BY <1>0, <2>4, <2>5 DEF Sound
<1>2. CASE Head(msgs).m # "PROGRESS_WAIT" /\ UNCHANGED <<att, dl, total>>
  BY <1>0, <1>2, TakesSound
<1>3. CASE Head(msgs).m = "PROGRESS_DATA" /\ Complete(Head(msgs))
  <2>1. /\ dl' = [dl EXCEPT !.state = "VERIFICATION"] /\ Send("verify", dl.crc) /\ total' = total
        /\ dl.state = "DATA" /\ Head(msgs).n = total
    BY <1>3 DEF OnProgress, Complete
  <2>2. /\ dl'.state = "VERIFICATION" /\ dl'.offset = dl.offset /\ dl'.conn = dl.conn
        /\ dl'.crc = dl.crc /\ dl.crc \in Seq(Nat) /\ dl.offset \in Nat
    BY <1>0, <2>1 DEF DownloaderType
  <2>3. \A E : Some(msgs', E) => Some(msgs, E)
    BY <1>0, TakeMessage
  <2>4. Totals'
    BY <1>0, <2>1, <2>3 DEF Sound, Totals
  <2>5. ASSUME Upgrade PROVE Upgrade'
    <3>1. Head(msgs) \in DataReports /\ Some(msgs, DataReports)
      <4>1. Head(msgs) \in DataReports
        BY <1>0, <1>3, HeadKinds
      <4> QED
        BY <1>0, <4>1, TakeMessage
    <3>2. Head(msgs).n \in 1 .. dl.offset
      <4>1. Head(msgs) \notin FalseReports(dl.offset)
        BY <1>0, <2>5, TakeMessage DEF Upgrade, Offsets
      <4> QED
        BY <1>0, <1>3, <4>1, HeadKinds
    <3>3. dl.offset >= Chunks
      BY <1>0, <2>1, <2>2, <3>2 DEF Sound, Totals
    <3>4. ~Unstarted /\ workers # <<>>
      BY <2>5, <3>1 DEF Upgrade, OneThread, Unstarted
    <3>5. dl.crc = Image
      <4>1. workers # <<"wait">> /\ dl.offset = Chunks
        BY <1>0, <2>2, <2>5, <3>3, <3>4 DEF Upgrade, Sending
      <4> QED
        BY <2>5, <3>4, <4>1, ImageNumbers DEF Upgrade, Sending
    <3>6. ~Some(att, Commands) /\ ~Some(msgs, Replies) /\ Once(att, Commands) /\ Once(msgs, Replies)
      BY <2>1, <2>5, <3>4 DEF Upgrade, OneToken
    <3>7. Once(att', Commands) /\ VerifyLast(att')
      BY <1>0, <2>1, <2>2, <3>5, <3>6, SendWrites DEF Writes
    <3>8. ~Some(msgs', Replies) /\ Once(msgs', Replies)
      BY <1>0, <2>3, <3>6, TakeMessage
    <3>9. ~Some(msgs', Successes)
      BY <3>8 DEF Some, Successes, Replies
    <3>10. OneToken' /\ Verifying'
      BY <2>2, <3>7, <3>8, <3>9 DEF OneToken, Verifying
    <3>11. OneThread' /\ Offsets' /\ Verdict' /\ Sending'
      BY <1>0, <2>1, <2>2, <2>3, <2>5, <3>3, <3>4
         DEF Upgrade, OneThread, Offsets, Verdict, Sending, Unstarted
    <3> QED
      BY <3>10, <3>11 DEF Upgrade
  <2> QED
    BY <1>0, <2>4, <2>5 DEF Sound
<1> QED
  BY <1>1, <1>2, <1>3 DEF OnProgress

LEMMA DisconnectSound ==
    ASSUME IInv, OnMeshDeviceDisconnected \/ JoinReturns \/ OnMeshDeviceDisconnect PROVE Sound'
<1>0. LinkTyped /\ QueuesTyped /\ OtaTyped /\ Sound /\ dl \in DownloaderType /\ hist \in HistoryType
  BY TypeDef DEF IInv, OtaTyped
<1>1. CASE OnMeshDeviceDisconnected
  <2>1. /\ msgs # <<>> /\ msgs' = Tail(msgs) /\ UNCHANGED <<att, workers, total, dev>>
        /\ hist' = Hurt(hist)
    BY <1>1 DEF OnMeshDeviceDisconnected, L!Takes
  <2>2. CASE dl.state = "NONE"
    BY <1>1, <2>1, <2>2, TakesSound DEF OnMeshDeviceDisconnected
  <2>3. CASE dl.state # "NONE"
    <3>1. /\ dl'.state = "IDLE" /\ dl'.offset = dl.offset /\ dl'.crc = dl.crc
      BY <1>0, <1>1, <2>3 DEF OnMeshDeviceDisconnected, DownloaderType
    <3>2. \A E : Some(msgs', E) => Some(msgs, E)
      BY <1>0, <2>1, TakeMessage
    <3>3. hist'.clean = hist.clean /\ hist'.reports = hist.reports
      BY <1>0, <2>1, HurtKeeps
    <3>4. ASSUME Upgrade PROVE Upgrade'
      <4>1. OneToken' /\ Verifying' /\ OneThread' /\ Offsets'
        BY <2>1, <3>1, <3>2, <3>4
           DEF Upgrade, OneToken, OneThread, Offsets, Verifying, Unstarted
      <4>2. Verdict' /\ Sending'
        BY <2>1, <3>1, <3>3, <3>4 DEF Upgrade, Verdict, Sending, Unstarted
      <4> QED
        BY <4>1, <4>2 DEF Upgrade
    <3> QED
      BY <1>0, <2>1, <3>2, <3>3, <3>4 DEF Sound, Totals
  <2> QED
    BY <2>2, <2>3
<1>2. CASE JoinReturns
  BY <1>0, <1>2, GentleSound DEF JoinReturns, otaVars, Gentle, GentleMsgs, GentleAtt
<1>3. CASE OnMeshDeviceDisconnect
  BY <1>3, TakesSound DEF OnMeshDeviceDisconnect, L!OnMeshDeviceDisconnect, L!Takes
<1> QED
  BY <1>1, <1>2, <1>3

\* The worker of an upgrade is the only one, and a step of it moves it.
LEMMA TheWorker ==
    ASSUME OtaTyped, Upgrade, NEW w \in 1 .. Len(workers)
    PROVE  /\ w = 1 /\ workers = <<workers[1]>> /\ workers[1] \in Places
           /\ \A pc \in Places : Step(w, pc) => workers' = <<pc>>
<1>1. workers \in Seq(Places) /\ Len(workers) =< 1
  BY DEF OtaTyped, Upgrade, OneThread
<1>2. workers # <<>>
  BY EmptySeq
<1> QED
  BY <1>1, <1>2, OnePlace DEF Step

\* What another list of threads changes of the invariant, when both have an
\* entry.
LEMMA Places1 ==
    /\ \A p, q : <<p>> = <<q>> <=> p = q
    /\ \A p : <<p>> # <<>> /\ Len(<<p>>) = 1
  OBVIOUS

LEMMA BeginsSound ==
    ASSUME IInv, NEW w \in 1 .. Len(workers), Begins(w), UNCHANGED <<total, dev>> PROVE Sound'
<1>0. LinkTyped /\ QueuesTyped /\ OtaTyped /\ Sound /\ dl \in DownloaderType
  BY TypeDef DEF IInv, OtaTyped
<1>1. /\ workers[w] = "new" /\ Step(w, "loop") /\ dl' = [dl EXCEPT !.offset = 0, !.crc = <<>>]
      /\ UNCHANGED <<msgs, att, hist>>
  BY DEF Begins
<1>2. dl'.state = dl.state /\ dl'.conn = dl.conn /\ dl'.offset = 0 /\ dl'.crc = <<>>
  BY <1>0, <1>1 DEF DownloaderType
<1>3. ASSUME Upgrade PROVE Upgrade'
  <2>1. workers = <<"new">> /\ workers' = <<"loop">>
    BY <1>0, <1>1, <1>3, TheWorker DEF Places
  <2>2. ~Some(msgs, DataReports) /\ dl.state \notin {"NONE", "WAIT", "VERIFICATION", "VERIFIED"}
        /\ Unstarted /\ ~Unstarted'
    BY <1>3, <2>1, Places1 DEF Upgrade, OneThread, Unstarted
  <2>3. ~Some(msgs', FalseReports(0))
    BY <1>1, <2>2 DEF Some, FalseReports
  <2>4. OneToken' /\ OneThread' /\ Verifying'
    BY <1>1, <1>2, <1>3, <2>1, <2>2, Places1 DEF Upgrade, OneToken, OneThread, Verifying
  <2>5. Offsets'
    BY <1>2, <2>2, <2>3 DEF Offsets
  <2>6. Sending'
    <3>1. UpTo(0) = <<>>
      BY DEF UpTo
    <3> QED
      BY <1>2, <2>1, <3>1, ImageNumbers, Places1 DEF Sending
  <2>7. Verdict'
    BY <1>1, <1>2, <1>3, <2>1, <2>2, Places1 DEF Upgrade, Verdict
  <2> QED
    BY <2>4, <2>5, <2>6, <2>7 DEF Upgrade
<1> QED
  BY <1>0, <1>1, <1>3 DEF Sound, Totals

LEMMA LoopsSound ==
    ASSUME IInv, NEW w \in 1 .. Len(workers), Loops(w), UNCHANGED <<total, dev>> PROVE Sound'
<1>0. /\ LinkTyped /\ QueuesTyped /\ OtaTyped /\ Sound /\ dl \in DownloaderType
      /\ hist \in HistoryType /\ Chunks \in Nat \ {0} /\ workers[w] = "loop"
  BY TypeDef, ImageNumbers DEF IInv, OtaTyped, Loops
<1>1. CASE /\ dl.offset < Chunks /\ dl.state # "ABORTED" /\ dl.conn /\ Step(w, "wait")
           /\ dl' = [dl EXCEPT !.crc = Append(@, dl.offset + 1)]
           /\ Send("data", <<dl.offset + 1>>) /\ UNCHANGED <<msgs, hist>>
  <2>1. /\ dl'.state = dl.state /\ dl'.conn = dl.conn /\ dl'.offset = dl.offset
        /\ dl'.crc = Append(dl.crc, dl.offset + 1) /\ dl.offset \in Nat
    BY <1>0, <1>1 DEF DownloaderType
  <2>2. ASSUME Upgrade PROVE Upgrade'
    <3>1. workers = <<"loop">> /\ workers' = <<"wait">>
      BY <1>0, <1>1, <2>2, TheWorker DEF Places
    <3>2. ~Unstarted /\ ~Unstarted'
      BY <3>1, Places1 DEF Unstarted
    <3>3. dl.state \notin {"NONE", "WAIT", "VERIFICATION", "VERIFIED"}
      BY <1>0, <1>1, <2>1, <2>2, <3>1, Places1 DEF Upgrade, OneThread, Offsets
    <3>4. /\ Once(att, Commands) => Once(att', Commands)
          /\ Some(att', Commands) => Some(att, Commands)
      <4>1. <<dl.offset + 1>> \in Seq(Nat)
        BY <2>1, NumberSeqs
      <4> QED
        BY <1>0, <1>1, <4>1, SendWrites DEF Writes
    <3>5. OneToken'
      BY <1>1, <2>1, <2>2, <3>1, <3>4, Places1 DEF Upgrade, OneToken
    <3>6. OneThread' /\ Offsets' /\ Verifying'
      BY <1>1, <2>1, <2>2, <3>1, <3>2, <3>3, Places1 DEF Upgrade, OneThread, Offsets, Verifying
    <3>7. Sending'
      <4>1. dl'.crc = UpTo(dl.offset + 1)
        BY <2>1, <2>2, <3>1, <3>2, Places1, UpToSeq DEF Upgrade, Sending
      <4> QED
        BY <1>1, <2>1, <3>1, <4>1 DEF Sending
    <3>8. Verdict'
      BY <1>1, <2>1, <2>2, <3>1, <3>2, Places1 DEF Upgrade, Verdict
    <3> QED
      BY <3>5, <3>6, <3>7, <3>8 DEF Upgrade
  <2> QED
    BY <1>0, <1>1, <2>2 DEF Sound, Totals
<1>2. CASE /\ dl.offset < Chunks /\ dl.state # "ABORTED" /\ ~dl.conn /\ Step(w, "done")
           /\ Outbox("PROGRESS_ABORTED", 1) /\ hist' = Report(hist, "aborted")
           /\ UNCHANGED <<ui, att, dl>>
  <2>1. GentleMsgs
    BY <1>2 DEF Outbox, GentleMsgs, Texts
  <2>2. hist'.clean = hist.clean /\ hist'.reports = Append(hist.reports, "aborted")
    BY <1>0, <1>2 DEF Report, HistoryType
  <2>3. ASSUME Upgrade PROVE Upgrade'
    <3>1. workers = <<"loop">> /\ workers' = <<"done">>
      BY <1>0, <1>2, <2>3, TheWorker DEF Places
    <3>2. ~Unstarted /\ ~Unstarted'
      BY <3>1, Places1 DEF Unstarted
    <3>3. dl.state = "IDLE"
      BY <1>2, <2>3, <3>1, Places1 DEF Upgrade, Verdict, OneThread
    <3>4. hist.reports \in {<<>>, <<"aborted">>}
      BY <1>0, <1>2, <2>3, <3>1, Places1 DEF Upgrade, Verdict, DownloaderType
    <3>5. hist'.reports \in {<<"aborted">>, <<"aborted", "aborted">>}
      BY <2>2, <3>4, AppendOne
    <3>6. OneToken' /\ Verifying'
      BY <1>2, <3>3 DEF OneToken, Verifying
    <3>7. OneThread' /\ Offsets'
      BY <1>0, <1>2, <2>1, <2>3, <3>1, <3>2, <3>3, Places1, GentleMsgsKeep
         DEF Upgrade, OneThread, Offsets
    <3>8. Sending'
      BY <1>2, <2>3, <3>1, <3>2, Places1 DEF Upgrade, Sending
    <3>9. Verdict'
      BY <1>2, <3>1, <3>3, <3>5 DEF Verdict
    <3> QED
      BY <3>6, <3>7, <3>8, <3>9 DEF Upgrade
  <2> QED
    BY <1>0, <2>1, <2>2, <2>3, GentleMsgsKeep DEF Sound, Totals
<1>3. CASE /\ dl.offset >= Chunks \/ dl.state = "ABORTED"
           /\ Step(w, "end")
           /\ UNCHANGED <<ui, msgs, att, dl, hist>>
  <2>1. ASSUME Upgrade PROVE Upgrade'
    <3>1. workers = <<"loop">> /\ workers' = <<"end">>
      BY <1>0, <1>3, <2>1, TheWorker DEF Places, Loops
    <3>2. ~Unstarted /\ ~Unstarted'
      BY <3>1, Places1 DEF Unstarted
    <3>3. OneToken' /\ OneThread' /\ Offsets' /\ Verifying'
      BY <1>3, <2>1, <3>1, <3>2, Places1 DEF Upgrade, OneToken, OneThread, Offsets, Verifying
    <3>4. Sending' /\ Verdict'
      BY <1>3, <2>1, <3>1, <3>2, Places1 DEF Upgrade, Sending, Verdict
    <3> QED
      BY <3>3, <3>4 DEF Upgrade
  <2> QED
    BY <1>0, <1>3, <2>1 DEF Sound, Totals
<1> QED
  BY <1>1, <1>2, <1>3 DEF Loops

LEMMA SentSound ==
    ASSUME IInv, NEW w \in 1 .. Len(workers), Sent(w), UNCHANGED <<total, dev>> PROVE Sound'
<1>0. LinkTyped /\ QueuesTyped /\ OtaTyped /\ Sound /\ dl \in DownloaderType /\ Chunks \in Nat \ {0}
  BY TypeDef, ImageNumbers DEF IInv, OtaTyped
<1>1. /\ workers[w] = "wait" /\ Step(w, "loop") /\ dl' = [dl EXCEPT !.offset = @ + 1]
      /\ msgs' = Append(msgs, L!Message("PROGRESS_DATA", dl.offset + 1))
      /\ UNCHANGED <<att, hist>>
  BY DEF Sent, Outbox
<1>2. /\ dl'.state = dl.state /\ dl'.conn = dl.conn /\ dl'.offset = dl.offset + 1
      /\ dl'.crc = dl.crc /\ dl.offset \in Nat
  BY <1>0, <1>1 DEF DownloaderType
<1>3. "PROGRESS_DATA" \in Texts /\ dl.offset + 1 \in Nat
  BY <1>2 DEF Texts
<1>4. /\ \A E : Some(msgs', E) <=> Some(msgs, E) \/ L!Message("PROGRESS_DATA", dl.offset + 1) \in E
      /\ \A E : Once(msgs, E) /\ L!Message("PROGRESS_DATA", dl.offset + 1) \notin E => Once(msgs', E)
  BY <1>0, <1>1, <1>3, PostMessage
<1>5. /\ L!Message("PROGRESS_DATA", dl.offset + 1) \notin Replies
      /\ L!Message("PROGRESS_DATA", dl.offset + 1) \notin WrongTotals
      /\ L!Message("PROGRESS_DATA", dl.offset + 1) \notin FalseReports(dl.offset + 1)
  <2>1. dl.offset + 1 \in 1 .. dl.offset + 1
    BY <1>2
  <2>2. \A k : L!Message("PROGRESS_DATA", dl.offset + 1) \in FalseReports(k)
                 <=> dl.offset + 1 \notin 1 .. k
    BY <1>3, MessageKinds
  <2> QED
    BY <1>3, <2>1, <2>2, MessageKinds
<1>6. ASSUME Upgrade PROVE Upgrade'
  <2>1. workers = <<"wait">> /\ workers' = <<"loop">>
    BY <1>0, <1>1, <1>6, TheWorker DEF Places
  <2>2. ~Unstarted /\ ~Unstarted'
    BY <2>1, Places1 DEF Unstarted
  <2>3. dl.offset < Chunks /\ dl.crc = UpTo(dl.offset + 1)
    BY <1>6, <2>1 DEF Upgrade, Sending
  <2>4. dl.state \notin {"NONE", "WAIT", "VERIFICATION", "VERIFIED"}
    BY <1>0, <1>2, <1>6, <2>1, <2>3, Places1 DEF Upgrade, OneThread, Offsets
  <2>5. FalseReports(dl.offset + 1) \subseteq FalseReports(dl.offset)
    BY <1>2 DEF FalseReports
  <2>6. ~Some(msgs', FalseReports(dl.offset + 1))
    BY <1>4, <1>5, <1>6, <2>5 DEF Upgrade, Offsets, Some
  <2>7. OneToken'
    BY <1>1, <1>2, <1>4, <1>5, <1>6, <2>1, Places1 DEF Upgrade, OneToken
  <2>8. OneThread' /\ Offsets' /\ Verifying'
    BY <1>2, <2>1, <2>2, <2>4, <2>6, Places1 DEF OneThread, Offsets, Verifying
  <2>9. Sending'
    BY <1>0, <1>2, <2>1, <2>3, Places1 DEF Sending
  <2>10. Verdict'
    BY <1>0, <1>1, <1>2, <1>6, <2>1, <2>2, <2>3, Places1 DEF Upgrade, Verdict
  <2> QED
    BY <2>7, <2>8, <2>9, <2>10 DEF Upgrade
<1>7. Totals'
  BY <1>0, <1>4, <1>5 DEF Sound, Totals
<1> QED
  BY <1>0, <1>1, <1>6, <1>7 DEF Sound

LEMMA EndsSound ==
    ASSUME IInv, NEW w \in 1 .. Len(workers), Ends(w), UNCHANGED <<total, dev>> PROVE Sound'
<1>0. /\ LinkTyped /\ QueuesTyped /\ OtaTyped /\ Sound /\ dl \in DownloaderType
      /\ hist \in HistoryType /\ workers[w] = "end" /\ Step(w, "done") /\ dl' = dl
  BY TypeDef DEF IInv, OtaTyped, Ends
<1>1. ASSUME Upgrade
      PROVE  /\ workers = <<"end">> /\ workers' = <<"done">> /\ ~Unstarted /\ ~Unstarted'
  <2>1. workers = <<"end">> /\ workers' = <<"done">>
    BY <1>0, <1>1, TheWorker DEF Places
  <2> QED
    BY <2>1, Places1 DEF Unstarted
<1>2. CASE dl.state = "ABORTED"
  <2>1. /\ msgs' = Append(msgs, L!Message("PROGRESS_ABORTED", 1)) /\ hist' = Report(hist, "aborted")
    BY <1>2 DEF Ends, Outbox
  <2>2. GentleMsgs
    BY <2>1 DEF GentleMsgs, Texts
  <2>3. hist'.clean = hist.clean /\ hist'.reports = Append(hist.reports, "aborted")
    BY <1>0, <2>1 DEF Report, HistoryType
  <2>4. ASSUME Upgrade PROVE Upgrade'
    <3>1. hist.reports \in {<<>>, <<"aborted">>}
      BY <1>1, <1>2, <2>4, Places1 DEF Upgrade, Verdict
    <3>2. hist'.reports \in {<<"aborted">>, <<"aborted", "aborted">>}
      BY <2>3, <3>1, AppendOne
    <3>3. OneToken' /\ Verifying'
      BY <1>0, <1>2 DEF OneToken, Verifying
    <3>4. OneThread' /\ Offsets'
      BY <1>0, <1>1, <1>2, <2>2, <2>4, Places1, GentleMsgsKeep DEF Upgrade, OneThread, Offsets
    <3>5. Sending'
      BY <1>0, <1>1, <2>4, Places1 DEF Upgrade, Sending
    <3>6. Verdict'
      BY <1>0, <1>1, <1>2, <2>4, <3>2, Places1 DEF Upgrade, Verdict
    <3> QED
      BY <3>3, <3>4, <3>5, <3>6 DEF Upgrade
  <2> QED
    BY <1>0, <2>2, <2>3, <2>4, GentleMsgsKeep DEF Sound, Totals
<1>3. CASE dl.state # "ABORTED"
  <2>1. UNCHANGED <<msgs, att, hist>>
    BY <1>3 DEF Ends
  <2>2. ASSUME Upgrade PROVE Upgrade'
    <3>1. OneToken' /\ OneThread' /\ Offsets' /\ Verifying'
      BY <1>0, <1>1, <2>1, <2>2, Places1 DEF Upgrade, OneToken, OneThread, Offsets, Verifying
    <3>2. Sending' /\ Verdict'
      BY <1>0, <1>1, <2>1, <2>2, Places1 DEF Upgrade, Sending, Verdict
    <3> QED
      BY <3>1, <3>2 DEF Upgrade
  <2> QED
    BY <1>0, <2>1, <2>2 DEF Sound, Totals
<1> QED
  BY <1>2, <1>3

LEMMA WorkerSound ==
    ASSUME IInv, NEW w \in 1 .. Len(workers), Worker(w) PROVE Sound'
  BY BeginsSound, LoopsSound, SentSound, EndsSound DEF Worker

\* The device executes a write: its answer is the only one there is, and a
\* success that of the image.
LEMMA DeviceTakesSound ==
    ASSUME IInv, DeviceTakes PROVE Sound'
<1> DEFINE w == Head(att)
<1>0. /\ LinkTyped /\ QueuesTyped /\ OtaTyped /\ Sound /\ hist \in HistoryType
      /\ att # <<>> /\ w \in WriteType /\ w.op \notin {"subscribe", "indicate"}
  BY TypeDef, QueueTypes DEF IInv, OtaTyped, DeviceTakes
<1>1. att' = Tail(att) /\ UNCHANGED <<dl, workers, total>>
  BY DEF DeviceTakes, Completes
<1>2. hist'.clean = hist.clean /\ hist'.reports = hist.reports
  BY <1>0, HurtKeeps DEF DeviceTakes
<1>3. /\ w \in ImageWrites /\ (w \in Commands <=> Command(w))
  BY <1>0, WriteKinds DEF Command
<1>4. \/ msgs' = msgs
      \/ msgs' = Append(msgs, L!Message("CTRL_FAILED", 0)) /\ Command(w)
      \/ msgs' = Append(msgs, L!Message("CTRL_OK", 0)) /\ Command(w) /\ Status(w) = "CTRL_OK"
                                                       /\ dev' = DeviceAfter(w)
  BY DEF DeviceTakes, Completes, L!InObject, Notify, Outbox, Status
<1>5. dev' = dev \/ dev' = DeviceAfter(w)
  BY DEF DeviceTakes
<1> HIDE DEF w
<1>6. \A E : /\ Some(att, E) <=> w \in E \/ Some(att', E)
             /\ Once(att, E) => Once(att', E)
             /\ Once(att, E) /\ w \in E => ~Some(att', E)
  BY <1>0, <1>1, SomeTail DEF QueuesTyped, w
<1>7. Some(att, ImageWrites)
  BY <1>3, <1>6
<1>8. ASSUME VerifyLast(att)
      PROVE  /\ VerifyLast(att')
             /\ w \in Commands => ~Some(att', ImageWrites) /\ w.op = "verify" /\ w.x = Image
  BY <1>0, <1>1, <1>8, VerifyLastTail DEF QueuesTyped, w
<1>9. CASE msgs' = msgs
  <2>1. ASSUME Upgrade PROVE Upgrade'
    <3>1. OneToken' /\ OneThread' /\ Offsets'
      BY <1>1, <1>6, <1>9, <2>1 DEF Upgrade, OneToken, OneThread, Offsets, Unstarted
    <3>2. Verdict' /\ Sending'
      BY <1>1, <1>2, <2>1 DEF Upgrade, Verdict, Sending, Unstarted
    <3>3. Verifying'
      BY <1>1, <1>7, <1>8, <1>9, <2>1 DEF Upgrade, Verifying
    <3> QED
      BY <3>1, <3>2, <3>3 DEF Upgrade
  <2> QED
    BY <1>0, <1>1, <1>2, <1>9, <2>1 DEF Sound, Totals
<1>10. ASSUME NEW m \in {"CTRL_OK", "CTRL_FAILED"}, msgs' = Append(msgs, L!Message(m, 0)), Command(w),
              m = "CTRL_OK" => Status(w) = "CTRL_OK" /\ dev' = DeviceAfter(w)
       PROVE  Sound'
  <2>1. m \in Texts /\ 0 \in Nat
    BY DEF Texts
  <2>2. /\ \A E : Some(msgs', E) <=> Some(msgs, E) \/ L!Message(m, 0) \in E
        /\ \A E : Once(msgs, E) /\ ~Some(msgs, E) => Once(msgs', E)
    BY <1>0, <1>10, <2>1, PostMessage
  <2>3. /\ L!Message(m, 0) \in Successes <=> m = "CTRL_OK"
        /\ L!Message(m, 0) \notin WrongTotals /\ L!Message(m, 0) \notin DataReports
        /\ \A k : L!Message(m, 0) \notin FalseReports(k)
    BY <1>10, <2>1, MessageKinds
  <2>4. w \in Commands /\ Some(att, Commands)
    BY <1>3, <1>6, <1>10
  <2>5. ASSUME Upgrade PROVE Upgrade'
    <3>1. OneToken'
      <4> SUFFICES ASSUME dl.state \in {"WAIT", "DATA", "VERIFICATION"}
                   PROVE  /\ Once(att', Commands) /\ Once(msgs', Replies) /\ ~Some(att', Commands)
                          /\ ~(dl.state = "DATA" /\ workers # <<>>)
        BY <1>1 DEF OneToken
      <4>1. Once(att, Commands) /\ Once(msgs, Replies) /\ ~Some(msgs, Replies)
            /\ ~(dl.state = "DATA" /\ workers # <<>>)
        BY <2>4, <2>5 DEF Upgrade, OneToken
      <4> QED
        BY <1>6, <2>2, <2>4, <4>1
    <3>2. OneThread' /\ Offsets'
      BY <1>1, <2>2, <2>3, <2>5 DEF Upgrade, OneThread, Offsets, Unstarted
    <3>3. Verdict' /\ Sending'
      BY <1>1, <1>2, <2>5 DEF Upgrade, Verdict, Sending, Unstarted
    <3>4. ASSUME dl.state = "VERIFICATION"
          PROVE  /\ VerifyLast(att') /\ ~Some(att', ImageWrites)
                 /\ w.op = "verify" /\ w.x = Image /\ ~Some(msgs, Successes)
      <4>1. VerifyLast(att) /\ ~Some(msgs, Successes)
        BY <1>7, <2>5, <3>4 DEF Upgrade, Verifying
      <4> QED
        BY <1>8, <2>4, <4>1
    <3>5. ASSUME dl.state = "VERIFICATION", m = "CTRL_OK"
          PROVE  dev'.mode = "verified" /\ dev'.got = Image
      <4>1. w.op = "verify" /\ w.x = Image /\ Status(w) = "CTRL_OK" /\ dev' = DeviceAfter(w)
        BY <1>10, <3>4, <3>5
      <4>2. dev \in DeviceType
        BY <1>0 DEF OtaTyped
      <4>3. DeviceAfter(w) = [dev EXCEPT !.mode = IF dev.mode = "download" /\ dev.got = w.x
                                                  THEN "verified" ELSE "idle"]
        BY <4>1 DEF DeviceAfter
      <4>4. DeviceAfter(w).mode = "verified"
        BY <4>1 DEF Status
      <4>5. /\ DeviceAfter(w).got = dev.got
            /\ DeviceAfter(w).mode = IF dev.mode = "download" /\ dev.got = w.x
                                     THEN "verified" ELSE "idle"
        BY <4>2, <4>3 DEF DeviceType
      <4> QED
        BY <4>1, <4>4, <4>5
    <3>6. Verifying'
      BY <1>1, <2>2, <2>3, <3>4, <3>5 DEF Verifying
    <3> QED
      BY <3>1, <3>2, <3>3, <3>6 DEF Upgrade
  <2>6. Totals'
    BY <1>0, <1>1, <2>2, <2>3 DEF Sound, Totals
  <2> QED
    BY <1>0, <1>2, <2>5, <2>6 DEF Sound
<1> QED
  BY <1>4, <1>9, <1>10

LEMMA WindowsSound ==
    ASSUME IInv, Windows PROVE Sound'
<1>0. /\ LinkTyped /\ QueuesTyped /\ OtaTyped /\ Sound /\ hist \in HistoryType /\ dev \in DeviceType
  BY TypeDef DEF IInv, OtaTyped
<1>1. CASE DeviceTakesDescriptor
  <2>1. /\ att # <<>> /\ att' = [att EXCEPT ![1].done = TRUE]
        /\ UNCHANGED <<msgs, dl, workers, total, hist>>
    BY <1>1 DEF DeviceTakesDescriptor, L!DeviceTakes
  <2>2. dev'.mode = dev.mode /\ dev'.got = dev.got
    <3>1. dev' = dev \/ dev' = [dev EXCEPT !.sub = TRUE]
      BY <1>1 DEF DeviceTakesDescriptor, DeviceAfter
    <3> QED
      BY <1>0, <3>1 DEF DeviceType
  <2> QED
    BY <1>0, <2>1, <2>2, GentleSound DEF Gentle, GentleMsgs, GentleAtt
<1>2. CASE IndicateCompletes
  <2>1. /\ att # <<>> /\ att' = Tail(att) /\ UNCHANGED <<dl, workers, total, dev>>
        /\ hist' \in {hist, Hurt(hist)}
    BY <1>2 DEF IndicateCompletes, Completes
  <2>2. \/ UNCHANGED msgs
        \/ \E m \in {"CCCD_PUT_COMPLETE", "DISCONNECTED"} : msgs' = Append(msgs, L!Message(m, 0))
    BY <1>2 DEF IndicateCompletes, Completes, L!InObject, L!Reply, L!Post
  <2>3. GentleMsgs
    BY <2>2 DEF GentleMsgs, Texts
  <2> QED
    BY <1>0, <2>1, <2>3, HurtKeeps, GentleSound DEF Gentle, GentleAtt
<1>3. CASE DeviceTakes
  BY <1>3, DeviceTakesSound
<1>4. CASE LinkDown
  <2>1. /\ UNCHANGED <<att, dl, workers, total>> /\ hist' = Hurt(hist)
        /\ dev.mode = "verified" => dev' = dev
    BY <1>4 DEF LinkDown, L!LinkDown
  <2>2. GentleMsgs
    BY <1>4 DEF LinkDown, L!LinkDown, L!Post, GentleMsgs, Texts
  <2> QED
    BY <1>0, <2>1, <2>2, HurtKeeps, GentleSound DEF Gentle, GentleAtt
<1> QED
  BY <1>1, <1>2, <1>3, <1>4 DEF Windows

-----------------------------------------------------------------------------
(* Theorems                                                                *)

LEMMA IInvInit == Init => IInv
<1> SUFFICES ASSUME Init PROVE IInv
  OBVIOUS
<1>1. /\ msgs = <<>> /\ att = <<>> /\ workers = <<>> /\ total = 0
      /\ dl.state = "NONE" /\ hist.reports = <<>>
  BY DEF Init, L!Init, NoDownloader
<1>2. Sound
  BY <1>1, SomeEmpty
     DEF Sound, Totals, Upgrade, OneToken, OneThread, Offsets, Verdict, Sending, Verifying, Unstarted
<1> QED
  BY <1>2, TypeInit DEF IInv

LEMMA IInvStep == IInv /\ [Next]_vars => IInv'
<1> SUFFICES ASSUME IInv, [Next]_vars PROVE IInv'
  OBVIOUS
<1>1. TypeOK'
  BY TypeStep DEF IInv
<1>2. CASE StartOta \/ StopOta
  BY <1>1, <1>2, UserSound DEF IInv
<1>3. CASE Messages
  BY <1>1, <1>3, ControlPointSound, ProgressSound, DisconnectSound DEF Messages, IInv
<1>4. CASE Threads
  BY <1>1, <1>4, WorkerSound DEF Threads, IInv
<1>5. CASE Windows
  BY <1>1, <1>5, WindowsSound DEF IInv
<1>6. CASE Connection
  BY <1>1, <1>6, ConnectionSound DEF IInv
<1>7. CASE UNCHANGED vars
  <2>1. Sound'
    BY <1>7 DEF IInv, vars, linkVars, otaVars, Sound, Totals, Upgrade, OneToken, OneThread,
                Offsets, Verdict, Sending, Verifying, Unstarted
  <2> QED
    BY <1>1, <2>1 DEF IInv
<1> QED
  BY <1>2, <1>3, <1>4, <1>5, <1>6, <1>7 DEF Next

LEMMA Invariant == Spec => []IInv
  BY IInvInit, IInvStep, PTL DEF Spec

\* An upgrade that was started with nothing of another one under way has one
\* worker, in whatever order statuses, stops, losses of the link and messages
\* come.  (A start that meets a running worker is excepted.)
THEOREM OneWorkerAlways == Spec => []OneWorker
<1>1. IInv => OneWorker
  BY DEF IInv, Sound, Upgrade, OneThread, OneWorker
<1> QED
  BY <1>1, Invariant, PTL

\* Such an upgrade that reports a success reports nothing else; without one, it
\* may report two failures and no more.
THEOREM OneVerdictAlways == Spec => []OneVerdict
<1>1. IInv => OneVerdict
  <2> SUFFICES ASSUME IInv, hist.clean PROVE OneVerdict
    BY DEF OneVerdict
  <2>1. hist.reports \in {<<>>, <<"aborted">>, <<"aborted", "aborted">>, <<"verified">>}
    BY DEF IInv, Sound, Upgrade, Verdict
  <2>2. CASE hist.reports = <<>>
    BY <2>2 DEF OneVerdict
  <2>3. CASE hist.reports = <<"aborted">>
    BY <2>3 DEF OneVerdict
  <2>4. CASE hist.reports = <<"aborted", "aborted">>
    <3>1. Len(hist.reports) = 2 /\ hist.reports[1] = "aborted" /\ hist.reports[2] = "aborted"
      BY <2>4
    <3> QED
      BY <3>1 DEF OneVerdict
  <2>5. CASE hist.reports = <<"verified">>
    BY <2>5 DEF OneVerdict
  <2> QED
    BY <2>1, <2>2, <2>3, <2>4, <2>5
<1> QED
  BY <1>1, Invariant, PTL

\* where a report comes from
LEMMA ReportStep ==
    ASSUME IInv, [Next]_vars
    PROVE  \/ hist'.reports = hist.reports \/ hist'.reports = <<>>
           \/ hist'.reports = Append(hist.reports, "aborted")
           \/ dl.state = "VERIFICATION" /\ L!Takes("CTRL_OK")
<1>0. hist \in HistoryType
  BY TypeDef DEF IInv, OtaTyped
<1>1. hist' \in {hist, Hurt(hist)} => hist'.reports = hist.reports
  BY <1>0, HurtKeeps
<1>2. hist' = Report(hist, "aborted") => hist'.reports = Append(hist.reports, "aborted")
  BY <1>0 DEF Report, HistoryType
<1>3. CASE StartOta \/ StopOta
  BY <1>1, <1>3 DEF StartOta, StopOta
<1>4. CASE Messages
  BY <1>1, <1>2, <1>4
     DEF Messages, OnWsUpgradeCtrlPoint, ResponseOk, ResponseFailed, OnProgress,
         OnMeshDeviceDisconnected, JoinReturns, OnMeshDeviceDisconnect, otaVars
<1>5. CASE Threads
  BY <1>1, <1>2, <1>5 DEF Threads, Worker, Begins, Loops, Sent, Ends
<1>6. CASE Windows
  BY <1>1, <1>6 DEF Windows, DeviceTakesDescriptor, IndicateCompletes, DeviceTakes, LinkDown
<1>7. CASE Connection \/ UNCHANGED vars
  BY <1>7 DEF Connection, otaVars, vars
<1> QED
  BY <1>3, <1>4, <1>5, <1>6, <1>7 DEF Next

\* It reports a success only when the device has verified the whole image.
THEOREM SuccessIsTheImage == Spec => SuccessImpliesImage
<1> DEFINE A == hist.clean /\ Len(hist'.reports) > Len(hist.reports)
                /\ hist'.reports[Len(hist'.reports)] = "verified"
                   => dev.mode = "verified" /\ dev.got = Image
<1>1. IInv /\ [Next]_vars => A
  <2> SUFFICES ASSUME IInv, [Next]_vars, hist.clean, Len(hist'.reports) > Len(hist.reports),
                      hist'.reports[Len(hist'.reports)] = "verified"
               PROVE  dev.mode = "verified" /\ dev.got = Image
    OBVIOUS
  <2>1. QueuesTyped /\ Upgrade /\ hist.reports \in Seq({"verified", "aborted"})
    BY TypeDef DEF IInv, Sound, OtaTyped, HistoryType
  <2>2. Len(hist.reports) \in Nat /\ ~(Len(hist.reports) > Len(hist.reports))
        /\ ~(0 > Len(hist.reports))
    BY <2>1, LenProperties
  <2>3. hist'.reports # hist.reports
    BY <2>2
  <2>4. hist'.reports # <<>>
    BY <2>2
  <2>5. hist'.reports # Append(hist.reports, "aborted")
    <3>1. /\ Len(Append(hist.reports, "aborted")) = Len(hist.reports) + 1
          /\ Append(hist.reports, "aborted")[Len(hist.reports) + 1] = "aborted"
      BY <2>1, AppendProperties
    <3> QED
      BY <3>1
  <2>6. dl.state = "VERIFICATION" /\ L!Takes("CTRL_OK")
    BY <2>3, <2>4, <2>5, ReportStep
  <2>7. Some(msgs, Successes)
    BY <2>1, <2>6, HeadKinds, SomeTail DEF L!Takes, QueuesTyped
  <2> QED
    BY <2>1, <2>6, <2>7 DEF Upgrade, Verifying
<1> HIDE DEF A
<1>2. IInv /\ [Next]_vars => [A]_vars
  BY <1>1
<1>3. Spec => [][A]_vars
  BY <1>2, Invariant, PTL DEF Spec
<1> QED
  BY <1>3 DEF A, SuccessImpliesImage
=============================================================================
