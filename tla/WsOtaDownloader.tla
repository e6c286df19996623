-------------------------- MODULE WsOtaDownloader --------------------------
(***************************************************************************)
(* The firmware download of the Windows client: WSDownloader               *)
(* (WsOtaDownloader.cpp) and the handlers of CMeshClientDlg that drive it, *)
(* composed with the connection they use (WinLink).                        *)
(*                                                                         *)
(* The UI thread starts, stops and is told of the progress; a worker       *)
(* thread sends the image and reads, without a lock, what the UI thread    *)
(* writes.  The UI thread joins the worker when the link is lost.  Neither *)
(* the downloader nor the interface it uses is protected from being        *)
(* deleted while the worker runs.                                          *)
(***************************************************************************)
EXTENDS Integers, SequencesExt

CONSTANTS
    Chunks,        \* the image, in writes of 256 bytes
    MaxConnects,   \* bound on the connections the mesh library asks for
    MaxStarts,     \* bound on the upgrades the user starts
    Overlap        \* does the user start one while another is under way

ASSUME DownloadAssumption ==
    Chunks \in Nat \ {0} /\ MaxStarts \in Nat /\ Overlap \in BOOLEAN

VARIABLES
    lib, connecting, iface, state, ui, msgs, link, att, seen,   \* see WinLink
    dl,        \* the WSDownloader at m_pDownloader
    workers,   \* where each thread in DownloadWorker is
    total,     \* the static variable of OnProgress
    dev,       \* the OTA service of the device
    hist       \* history of the upgrade: what was reported, was it started
               \* with nothing of another under way, has anything failed

L == INSTANCE WinLink

linkVars == <<lib, connecting, iface, state, ui, msgs, link, att, seen>>
otaVars  == <<dl, workers, total, dev, hist>>
vars     == <<linkVars, otaVars>>

\* the variables of the connection that a step of the downloader may change
\* are ui, msgs and att
linkRest == <<lib, connecting, iface, state, link, seen>>

\* updating the CRC, one element for each chunk; never what a member that was
\* not initialised holds
NoCrc == <<0>>

\* the image as the device receives it
Image == [i \in 1 .. Chunks |-> i]

Outbox(m, n) == msgs' = Append(msgs, L!Message(m, n))
Hurt(h) == [h EXCEPT !.hurt = TRUE]
Report(h, r) == [h EXCEPT !.reports = Append(@, r)]

\* SendWsUpgradeCommand, SendWsUpgradeData: through an interface that was
\* deleted the process ends or nothing is written
Send(op, x) ==
    IF dl.iface = iface
    THEN att' = Append(att, L!Write(iface, op, x)) /\ UNCHANGED ui
    ELSE ui' \in {ui, "crashed"} /\ UNCHANGED att

Running(w) == w \in 1 .. Len(workers) /\ workers[w] # "done"
AnyWorker == \E w \in 1 .. Len(workers) : Running(w)

NoDownloader == [state |-> "NONE", offset |-> 0, crc |-> NoCrc, conn |-> FALSE,
                 iface |-> 0, thread |-> 0]
-----------------------------------------------------------------------------
(* The UI thread: the user                                                 *)

\* nothing of an earlier upgrade is under way
Quiet == ~AnyWorker /\ att = <<>> /\ msgs = <<>>

\* (mutant of NewDownloader: m_hThread is not initialised)
NewDownloaderSameThread ==
    [NoDownloader EXCEPT !.state = "WAIT", !.conn = TRUE, !.iface = iface,
                         !.thread = dl.thread]

\* the constructor and ProcessEvent(WS_UPGRADE_CONNECTED)
NewDownloader == [NoDownloader EXCEPT !.state = "WAIT", !.conn = TRUE, !.iface = iface]

\* OnNodeConnected once the mesh library has found the node, StartOta and
\* ProcessEvent(WS_UPGRADE_CONNECTED): the downloader is replaced, its worker
\* is not asked.  A worker of the old one ends the process, or goes on in the
\* new one, which has taken its memory.
StartOta ==
    /\ ui = "idle" /\ lib = "connected" /\ iface # 0
    /\ hist.starts < MaxStarts /\ (Overlap \/ Quiet)
    /\ dl' = NewDownloader
    /\ workers' = IF AnyWorker THEN workers ELSE <<>>
    /\ att' = att \o <<L!Write(iface, "indicate", <<>>), L!Write(iface, "indicate", <<>>),
                       L!Write(iface, "prepare", <<>>)>>
    /\ Outbox("PROGRESS_WAIT", Chunks)
    /\ hist' = [starts |-> hist.starts + 1, clean |-> Quiet, hurt |-> FALSE, reports |-> <<>>]
    /\ ui' \in IF AnyWorker THEN {ui, "crashed"} ELSE {ui}
    /\ UNCHANGED <<linkRest, total, dev>>

\* (mutant of StopOta: it stops in any state)
StopOtaAlways ==
    /\ ui = "idle" /\ dl.state # "NONE"
    /\ dl' = [dl EXCEPT !.state = "ABORTED"]
    /\ hist' = Hurt(hist)
    /\ UNCHANGED <<linkVars, workers, total, dev>>

\* OnBnClickedOtaUpgradeStop
StopOta ==
    /\ ui = "idle" /\ dl.state = "DATA"
    /\ dl' = [dl EXCEPT !.state = "ABORTED"]
    /\ hist' = Hurt(hist)
    /\ UNCHANGED <<linkVars, workers, total, dev>>

-----------------------------------------------------------------------------
(* The UI thread: messages                                                 *)

\* ProcessEvent(WS_UPGRADE_RESPONSE_OK)
ResponseOk ==
    \/ /\ dl.state = "WAIT"
       /\ dl' = [dl EXCEPT !.offset = 0, !.state = "DATA"]
       /\ Send("download", <<>>)
       /\ msgs' = Tail(msgs)
       /\ UNCHANGED <<workers, hist>>
    \/ /\ dl.state = "DATA"
       /\ workers' = Append(workers, "new")
       /\ dl' = [dl EXCEPT !.thread = Len(workers) + 1]
       /\ msgs' = Tail(msgs)
       /\ UNCHANGED <<ui, att, hist>>
    \/ /\ dl.state = "VERIFICATION"
       /\ dl' = [dl EXCEPT !.state = "VERIFIED"]
       /\ msgs' = Append(Tail(msgs), L!Message("PROGRESS_VERIFIED", Chunks))
       /\ hist' = Report(hist, "verified")
       /\ UNCHANGED <<ui, att, workers>>
    \/ /\ dl.state \notin {"WAIT", "DATA", "VERIFICATION"}
       /\ msgs' = Tail(msgs)
       /\ UNCHANGED <<ui, att, dl, workers, hist>>

\* ProcessEvent(WS_UPGRADE_RESPONSE_FAILED)
ResponseFailed ==
    /\ IF dl.state = "VERIFICATION"
       THEN /\ dl' = [dl EXCEPT !.state = "ABORTED"]
            /\ msgs' = Append(Tail(msgs), L!Message("PROGRESS_ABORTED", Chunks))
            /\ hist' = Report(hist, "aborted")
       ELSE /\ msgs' = Tail(msgs)
            /\ hist' = Hurt(hist)
            /\ UNCHANGED dl
    /\ UNCHANGED <<ui, att, workers>>

\* (mutant of OnWsUpgradeCtrlPoint: any status counts as a success)
OnAnyCtrlPoint ==
    /\ L!Takes("CTRL_OK") \/ L!Takes("CTRL_FAILED")
    /\ ResponseOk
    /\ UNCHANGED <<linkRest, total, dev>>

OnWsUpgradeCtrlPoint ==
    /\ \/ L!Takes("CTRL_OK") /\ ResponseOk
       \/ L!Takes("CTRL_FAILED") /\ ResponseFailed
    /\ UNCHANGED <<linkRest, total, dev>>

\* (mutant of Complete: the report after the last one is waited for)
CompleteLater(p) == p.n > total /\ dl.state = "DATA"

\* is this the report of the last chunk
Complete(p) == p.n = total /\ dl.state = "DATA"

\* OnProgress: the report of the last chunk starts the verification.  The two
\* seconds the UI thread sleeps are not modelled.
OnProgress ==
    /\ ui = "idle" /\ msgs # <<>>
    /\ LET p == Head(msgs)
       IN  \/ /\ p.m = "PROGRESS_WAIT"
              /\ total' = p.n
              /\ UNCHANGED <<ui, att, dl>>
           \/ /\ p.m = "PROGRESS_DATA" /\ Complete(p)
              /\ dl' = [dl EXCEPT !.state = "VERIFICATION"]
              /\ Send("verify", dl.crc)
              /\ UNCHANGED total
           \/ /\ \/ p.m = "PROGRESS_DATA" /\ ~Complete(p)
                 \/ p.m \in {"PROGRESS_VERIFIED", "PROGRESS_ABORTED"}
              /\ UNCHANGED <<ui, att, dl, total>>
    /\ msgs' = Tail(msgs)
    /\ UNCHANGED <<linkRest, workers, dev, hist>>

\* OnMeshDeviceDisconnected: first ProcessEvent(WS_UPGRADE_DISCONNECTED),
\* which joins the thread
OnMeshDeviceDisconnected ==
    /\ L!Takes("DISCONNECTED")
    /\ msgs' = Tail(msgs)
    /\ dl' = IF dl.state = "NONE" THEN dl ELSE [dl EXCEPT !.conn = FALSE, !.state = "IDLE"]
    /\ hist' = Hurt(hist)
    /\ IF Running(dl.thread)
       THEN ui' = "join" /\ UNCHANGED linkRest
       ELSE L!TearDown /\ UNCHANGED <<ui, connecting, link>>
    /\ UNCHANGED <<att, workers, total, dev>>

JoinReturns ==
    /\ ui = "join" /\ ~Running(dl.thread)
    /\ ui' = "idle"
    /\ L!TearDown
    /\ UNCHANGED <<connecting, link, msgs, att, otaVars>>

\* Disconnect does not tell the downloader
OnMeshDeviceDisconnect ==
    /\ L!OnMeshDeviceDisconnect
    /\ hist' = Hurt(hist)
    /\ UNCHANGED <<dl, workers, total, dev>>

-----------------------------------------------------------------------------
(* TransferData                                                            *)

Step(w, pc) == workers' = [workers EXCEPT ![w] = pc]

Begins(w) ==
    /\ workers[w] = "new"
    /\ Step(w, "loop")
    /\ dl' = [dl EXCEPT !.offset = 0, !.crc = <<>>]
    /\ UNCHANGED <<ui, msgs, att, hist>>

\* the head of the loop, up to the wait for the write
Loops(w) ==
    /\ workers[w] = "loop"
    /\ \/ /\ dl.offset < Chunks /\ dl.state # "ABORTED" /\ dl.conn
          /\ Step(w, "wait")
          /\ dl' = [dl EXCEPT !.crc = Append(@, dl.offset + 1)]
          /\ Send("data", <<dl.offset + 1>>)
          /\ UNCHANGED <<msgs, hist>>
       \/ /\ dl.offset < Chunks /\ dl.state # "ABORTED" /\ ~dl.conn
          /\ Step(w, "done")
          /\ Outbox("PROGRESS_ABORTED", 1)
          /\ hist' = Report(hist, "aborted")
          /\ UNCHANGED <<ui, att, dl>>
       \/ /\ dl.offset >= Chunks \/ dl.state = "ABORTED"
          /\ Step(w, "end")
          /\ UNCHANGED <<ui, msgs, att, dl, hist>>

\* (mutant of Sent: the report waits until it has been handled)
SentAndHandled(w) ==
    /\ workers[w] = "wait" /\ ui # "join"
    /\ Step(w, "loop")
    /\ dl' = [dl EXCEPT !.offset = @ + 1]
    /\ Outbox("PROGRESS_DATA", dl.offset + 1)
    /\ UNCHANGED <<ui, att, hist>>

\* The wait ends when a write has completed, or after three seconds: the
\* worker does not ask which.
Sent(w) ==
    /\ workers[w] = "wait"
    /\ Step(w, "loop")
    /\ dl' = [dl EXCEPT !.offset = @ + 1]
    /\ Outbox("PROGRESS_DATA", dl.offset + 1)
    /\ ui' \in IF dl.iface = iface THEN {ui} ELSE {ui, "crashed"}
    /\ UNCHANGED <<att, hist>>

\* (mutant of Ends: an upgrade that was stopped is not reported)
EndsSilently(w) ==
    /\ workers[w] = "end"
    /\ Step(w, "done")
    /\ IF dl.state = "ABORTED" THEN Send("abort", <<>>) ELSE UNCHANGED <<ui, att>>
    /\ UNCHANGED <<dl, msgs, hist>>

Ends(w) ==
    /\ workers[w] = "end"
    /\ Step(w, "done")
    /\ IF dl.state = "ABORTED"
       THEN /\ Send("abort", <<>>)
            /\ Outbox("PROGRESS_ABORTED", 1)
            /\ hist' = Report(hist, "aborted")
       ELSE UNCHANGED <<ui, att, msgs, hist>>
    /\ UNCHANGED dl

Worker(w) ==
    /\ L!Alive
    /\ Begins(w) \/ Loops(w) \/ Sent(w) \/ Ends(w)
    /\ UNCHANGED <<linkRest, total, dev>>

-----------------------------------------------------------------------------
(* Windows and the device                                                  *)

NoImage == [sub |-> FALSE, mode |-> "idle", got |-> <<>>]

\* the device executes a write
DeviceAfter(w) ==
    CASE w.op = "subscribe" -> dev
      [] w.op = "indicate"  -> [dev EXCEPT !.sub = TRUE]
      [] w.op = "prepare"   -> [dev EXCEPT !.mode = "ready", !.got = <<>>]
      [] w.op = "download"  -> [dev EXCEPT !.mode = IF @ = "ready" THEN "download" ELSE @]
      [] w.op = "data"      -> [dev EXCEPT !.got = IF dev.mode = "download" THEN @ \o w.x ELSE @]
      [] w.op = "verify"    -> [dev EXCEPT !.mode = IF @ = "download" /\ dev.got = w.x
                                                    THEN "verified" ELSE "idle"]
      [] w.op = "abort"     -> [dev EXCEPT !.mode = "idle", !.got = <<>>]

\* the status it notifies of a command
Status(w) == IF \/ w.op = "download" /\ dev.mode # "ready"
                \/ w.op = "verify" /\ DeviceAfter(w).mode # "verified"
             THEN "CTRL_FAILED" ELSE "CTRL_OK"

\* (mutant of Notify: the notification is registered twice)
NotifyTwice(m) ==
    IF dev.sub /\ iface # 0 /\ dl.iface = iface
    THEN msgs' = msgs \o <<L!Message(m, 0), L!Message(m, 0)>> ELSE UNCHANGED msgs

\* PostNotification, if RegisterNotification was called for this interface
Notify(m) == IF dev.sub /\ iface # 0 /\ dl.iface = iface THEN Outbox(m, 0) ELSE UNCHANGED msgs

Command(w) == w.op \in {"prepare", "download", "verify", "abort"}

\* The handler of a completion runs in its interface.  The one of a descriptor
\* posts the result.  The one of a characteristic only ends a wait that ends
\* after three seconds anyway: such a write leaves the queue when the device
\* takes it.
Completes(w, reply) ==
    /\ att' = Tail(att)
    /\ seen' = [seen EXCEPT !.stale = @ \/ w.iface # iface]
    /\ L!InObject(w.iface, reply, UNCHANGED msgs)
    /\ UNCHANGED <<lib, connecting, iface, state, link, dl, workers, total>>

\* the device executes a write to a descriptor; one that it refuses completes
\* with an error, like one that it never receives
DeviceTakesDescriptor ==
    /\ L!DeviceTakes
    /\ Head(att).op \in {"subscribe", "indicate"}
    /\ dev' = DeviceAfter(Head(att))
    /\ UNCHANGED <<dl, workers, total, hist>>
IndicateCompletes ==
    /\ L!Alive /\ att # <<>> /\ Head(att).op = "indicate"
    /\ \E ok \in IF Head(att).done THEN BOOLEAN ELSE {FALSE} :
          /\ Completes(Head(att), L!Reply(ok))
          /\ hist' = IF ok THEN hist ELSE Hurt(hist)
    /\ UNCHANGED dev

\* the device executes, refuses or never receives a write to a characteristic
DeviceTakes ==
    /\ L!Alive /\ att # <<>> /\ Head(att).op \notin {"subscribe", "indicate"}
    /\ LET w == Head(att)
       IN  \/ /\ link = "up"
              /\ dev' = DeviceAfter(w)
              /\ Completes(w, IF Command(w) THEN Notify(Status(w)) ELSE UNCHANGED msgs)
              /\ UNCHANGED hist
           \/ /\ UNCHANGED dev
              /\ Completes(w, \/ UNCHANGED msgs
                              \/ link = "up" /\ Command(w) /\ Notify("CTRL_FAILED"))
              /\ hist' = Hurt(hist)

LinkDown ==
    /\ L!LinkDown
    /\ dev' = IF dev.mode = "verified" THEN dev ELSE NoImage
    /\ hist' = Hurt(hist)
    /\ UNCHANGED <<dl, workers, total>>

-----------------------------------------------------------------------------
Init ==
    /\ L!Init
    /\ dl = NoDownloader /\ workers = <<>> /\ total = 0
    /\ dev = NoImage
    /\ hist = [starts |-> 0, clean |-> TRUE, hurt |-> FALSE, reports |-> <<>>]

Connection ==
    /\ \/ L!Library \/ L!OnMeshDeviceConnect \/ L!InitReturns
       \/ L!OnMeshDeviceCCCDPutComplete \/ L!LinkUp \/ L!SubscribeCompletes
    /\ UNCHANGED otaVars
Messages == \/ OnWsUpgradeCtrlPoint \/ OnProgress
            \/ OnMeshDeviceDisconnected \/ JoinReturns \/ OnMeshDeviceDisconnect
Threads == \E w \in 1 .. Len(workers) : Worker(w)
Windows == DeviceTakesDescriptor \/ IndicateCompletes \/ DeviceTakes \/ LinkDown

Next == StartOta \/ StopOta \/ Messages \/ Threads \/ Windows \/ Connection

Spec == Init /\ [][Next]_vars

\* The UI thread runs; each worker runs, for a wait ends after three seconds;
\* Windows completes what it was asked to do, and the device executes or
\* refuses it.
UiThread == \/ Messages
            \/ /\ L!OnMeshDeviceConnect \/ L!InitReturns \/ L!OnMeshDeviceCCCDPutComplete
               /\ UNCHANGED otaVars
Fairness == /\ WF_vars(UiThread) /\ WF_vars(Threads)
            /\ WF_vars(DeviceTakes)
            /\ WF_vars(IndicateCompletes \/ (L!SubscribeCompletes /\ UNCHANGED otaVars))
FairSpec == Spec /\ Fairness

-----------------------------------------------------------------------------
(* Properties                                                              *)

Texts == {"CONNECT", "DISCONNECT", "DISCONNECTED", "CCCD_PUT_COMPLETE", "CTRL_OK",
          "CTRL_FAILED", "PROGRESS_WAIT", "PROGRESS_DATA", "PROGRESS_VERIFIED",
          "PROGRESS_ABORTED"}
Writes == {"subscribe", "indicate", "prepare", "download", "data", "verify", "abort"}

\* The type invariant.
TypeOK ==
    /\ lib \in {"idle", "connecting", "connected", "disconnecting"}
    /\ connecting \in BOOLEAN /\ iface \in Nat
    /\ state \in {"connecting", "connected", "unconnected"}
    /\ ui \in {"idle", "init", "join", "crashed"}
    /\ msgs \in Seq([m : Texts, n : Nat])
    /\ link \in {"down", "up"}
    /\ att \in Seq([iface : Nat, op : Writes, x : Seq(Nat), done : BOOLEAN])
    /\ seen \in [asked : Nat, ifaces : Nat, subscribed : Nat, missed : Nat,
                 torn : BOOLEAN, silent : BOOLEAN, stale : BOOLEAN]
    /\ dl \in [state : {"NONE", "IDLE", "WAIT", "DATA", "VERIFICATION", "VERIFIED", "ABORTED"},
               offset : Nat, crc : Seq(Nat), conn : BOOLEAN, iface : Nat, thread : Nat]
    /\ dl.thread =< Len(workers)
    /\ workers \in Seq({"new", "loop", "wait", "end", "done"})
    /\ total \in Nat
    /\ dev \in [sub : BOOLEAN, mode : {"idle", "ready", "download", "verified"}, got : Seq(Nat)]
    /\ hist \in [starts : 0 .. MaxStarts, clean : BOOLEAN, hurt : BOOLEAN,
                 reports : Seq({"verified", "aborted"})]

\* The downloader of an upgrade that was started with nothing of another one
\* under way has one worker: no status of the device creates a second thread
\* that would share m_offset and m_crc32.
OneWorker == hist.clean => Len(workers) =< 1

\* A success of such an upgrade is the only result it reports: the worker, the
\* stop button, the loss of the link and the device's answer race, but none of
\* them contradicts it.  (A failure can be reported twice, by the device and by
\* a worker that has not come to its end.)
OneVerdict ==
    hist.clean => /\ Len(hist.reports) =< 2
                  /\ \A i \in 1 .. Len(hist.reports) :
                        hist.reports[i] = "verified" => Len(hist.reports) = 1

\* Success of such an upgrade is reported only if the device has verified the
\* whole image, whatever write was lost, timed out or completed late.
SuccessImpliesImage ==
    [][ hist.clean /\ Len(hist'.reports) > Len(hist.reports)
        /\ hist'.reports[Len(hist'.reports)] = "verified"
           => dev.mode = "verified" /\ dev.got = Image ]_vars

\* The UI thread that waits for the worker, without a time-out, is not left
\* waiting.
JoinEnds == ui = "join" ~> ui # "join"

\* A stop that finds a worker is reported, unless the link is lost.  (One
\* that comes before there is a worker, or after its end, is never reported,
\* and the device is not told: see README.)
StopIsServed ==
    dl.state = "ABORTED" /\ AnyWorker ~> hist.reports # <<>> \/ ~dl.conn \/ ~L!Alive

\* An upgrade that nobody stops, on a link that stays, with a device that
\* refuses nothing and no write that fails, comes to a verdict.
UpgradeConcludes ==
    dl.state \in {"WAIT", "DATA", "VERIFICATION"} /\ hist.clean
       ~> hist.reports # <<>> \/ hist.hurt \/ ~hist.clean
=============================================================================
