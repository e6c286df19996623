---------------------------- MODULE OtaUpgrader ----------------------------
(***************************************************************************)
(* The iOS firmware upgrader: OtaUpgrader.swift, with the parts of         *)
(* OtaManager.swift (routing of CoreBluetooth callbacks), OtaDevice.swift  *)
(* (the BLE device adapter) and MeshGattClient.swift it talks to.          *)
(*                                                                         *)
(* Everything runs on the main thread.  A CoreBluetooth callback is tested *)
(* against isOtaUpgrading / isOtaDeviceConnected when it is delivered and  *)
(* only then posted to the main queue as a block, so the state may change  *)
(* between the test and the block.  The command timer expires at any time  *)
(* it is armed and posts a block of its own.                               *)
(*                                                                         *)
(* The handlers are operators from the state of the phone, the record      *)
(* "u", to the next one; an action delivers one external event or runs one *)
(* block.  A handler that calls stateMachineProcess() is the composition   *)
(* of the operators the call reaches.                                      *)
(***************************************************************************)
EXTENDS Integers, Sequences

CONSTANTS
    ImageSize,    \* bytes of firmware
    MaxPacket,    \* maxOtaPacketSize
    Adapters,     \* is the device an OtaBleDevice or an OtaMeshDevice
    DfuTypes,     \* the dfuType values the user picks from
    AppInfo,      \* does the device have the optional AppInfo characteristic
    MaxStarts,    \* bound on accepted upgrade starts
    MaxStops,     \* bound on calls of otaUpgradeDfuStop by the user
    MaxResets,    \* bound on visits of an upgrade page (status reset)
    MaxRequests   \* bound on the unanswered requests a time-out outside of an
                  \* upgrade adds to (the rediscovery of a reset upgrader)

ASSUME ImageAssumption == ImageSize \in Nat \ {0} /\ MaxPacket \in Nat \ {0}
ASSUME DeviceAssumption == /\ Adapters \subseteq {"ble", "mesh"} /\ AppInfo \in BOOLEAN
                           /\ DfuTypes \subseteq {"app", "dfu"}
ASSUME BoundsAssumption == {MaxStarts, MaxStops, MaxResets, MaxRequests} \subseteq Nat

VARIABLES
    u,      \* OtaUpgrader, its OtaDevice, the main queue, CoreBluetooth
    dev,    \* the OTA service of the remote device
    air,    \* replies and notifications on their way to the phone, in order
    hist    \* history: how often the user started, stopped and reset, and
            \* whether the last start met a quiet upgrader

vars == <<u, dev, air, hist>>

-----------------------------------------------------------------------------
(* Data                                                                    *)

StateNo == [idle |-> 0, connect |-> 1, otaServiceDiscover |-> 2,
            readAppInfo |-> 3, enableNotification |-> 4,
            prepareForDownload |-> 5, startDownload |-> 6,
            dataTransfer |-> 7, verify |-> 8, abort |-> 9, complete |-> 10]
OtaState == DOMAIN StateNo

Commands == {"prepare", "start", "data", "verify", "abort"}

\* what a response carries: a success or failure status, or a GATT error
Results == {"success", "failure", "error"}

Errors == {"none", "connect", "discover", "notification", "write",
           "response", "verification", "aborted", "timeout"}

\* ATT requests: the CRC travels with verify, the offset with data
Request(op, off, crc) == [op |-> op, off |-> off, crc |-> crc, done |-> FALSE]
Requests == [op : Commands \cup {"discover", "subscribe", "readAppInfo"}, off : Int,
             crc : Seq(Int), done : BOOLEAN]

\* blocks on the main queue
Block(ev, r) == [ev |-> ev, r |-> r]
Blocks == [ev : {"start", "stop", "upload", "connection", "service",
                 "notification", "value", "timeout"}, r : Results]

\* the rest of the image, or a full packet (mutant: the rest whatever its size)
RestOfImage(off) == ImageSize - off
ChunkSize(off) == IF ImageSize - off > MaxPacket THEN MaxPacket ELSE ImageSize - off

\* sizes of a packet: what is left may be negative, past the end of the image
Chunks == {n \in Int : n =< MaxPacket}

\* the offsets of the packets that make up the image, in order
ImageChunks == [i \in 1 .. ((ImageSize + MaxPacket - 1) \div MaxPacket)
                    |-> (i - 1) * MaxPacket]

-----------------------------------------------------------------------------
(* Helpers of the handlers                                                 *)

StopTimer(v)  == [v EXCEPT !.timer = FALSE]
StartTimer(v) == [v EXCEPT !.timer = TRUE]
Post(v, ev, r) == [v EXCEPT !.mainQ = Append(@, Block(ev, r))]
PostIf(cond, v, ev, r) == IF cond THEN Post(v, ev, r) ELSE v

\* the guard of a start (mutant: of the mesh DFU alone)
isMeshDfuIdle(v) == v.meshDfuState \in {"INIT", "COMPLETE", "FAILED"}
isUpgradeIdle(v) == isMeshDfuIdle(v) /\ v.state \in {"idle", "complete"}

\* resetOtaDevice, otaUpgradeResetOtaDevice
ResetDevice(v) == [v EXCEPT !.hasConnected = FALSE, !.peripheral = FALSE,
                            !.characteristics = FALSE]

\* the device fields _didUpdateConnectionState clears: not the peripheral
ForgetServices(v) == [v EXCEPT !.hasConnected = FALSE, !.characteristics = FALSE]

\* OtaBleDevice.writeValue fails at once without its CoreBluetooth objects
CanWrite(v) == v.peripheral /\ v.characteristics
Write(v, op) ==
    [v EXCEPT !.completion = op,
              !.att = Append(@, Request(op, IF op = "data" THEN v.fwOffset ELSE 0,
                                        IF op = "verify" THEN v.fwCrc32 ELSE <<>>))]

\* the mesh half of otaUpgradeDfuStop; it needs a connected mesh network
MeshDfuStop(v) ==
    IF v.network THEN [v EXCEPT !.dfuLib = "idle", !.meshDfuState = "INIT"] ELSE v

otaUpgradeDfuStop(v) ==
    IF v.isOtaAbortForDfu THEN v
    ELSE MeshDfuStop(
            IF v.hasConnected /\ StateNo[v.state] \in StateNo.prepareForDownload .. StateNo.verify
            THEN Post(v, "stop", "success") ELSE v)

-----------------------------------------------------------------------------
(* stateMachineProcess, innermost states first                             *)

\* the rest of the .complete case; as a mutant, without its last assignment
ReleaseDevice(v) == [v EXCEPT !.hasConnected = FALSE, !.isDeviceConnected = FALSE]
Release(v) == [v EXCEPT !.hasConnected = FALSE, !.isDeviceConnected = FALSE,
                        !.isOtaUpgradeRunning = FALSE]

\* otaCompleted and the rest of the .complete case.  The upload of a DFU
\* reports its end to the mesh library (meshClientDfuOtaFinish).
Complete(v) ==
    LET a == [StopTimer(v) EXCEPT
                 !.state = "complete",
                 !.posted = Append(@, IF v.completeError = "none" THEN "success" ELSE "failure"),
                 !.dfuLib = IF ~v.isOtaTransferForDfu \/ @ # "uploading" THEN @
                            ELSE IF v.completeError = "none" THEN "uploaded" ELSE "failed",
                 !.isOtaTransferForDfu = FALSE]
        b == IF a.isOtaAbortForDfu \/ a.completeError # "none"
             THEN [otaUpgradeDfuStop(a) EXCEPT !.isOtaAbortForDfu = FALSE] ELSE a
    IN  Release(b)

CompleteWith(v, err) == Complete([v EXCEPT !.completeError = err])

otaAbortResponse(v, r) ==
    CompleteWith(StopTimer(v),
                 IF v.completeError # "none" THEN v.completeError
                 ELSE CASE r = "success" -> "aborted"
                        [] r = "failure" -> "response"
                        [] r = "error"   -> "write")

otaAbort(v) ==
    LET w == StartTimer([v EXCEPT !.state = "abort"])
    IN  IF CanWrite(w) THEN Write(w, "abort") ELSE otaAbortResponse(w, "error")

AbortWith(v, err) == otaAbort([v EXCEPT !.completeError = err])

otaVerifyResponse(v, r) ==
    LET w == StopTimer(v)
    IN  CASE r = "success" -> Complete(w)
          [] r = "failure" -> AbortWith(w, "verification")
          [] r = "error"   -> AbortWith(w, "write")

otaVerify(v) ==
    LET w == StartTimer([v EXCEPT !.state = "verify"])
    IN  IF CanWrite(w) THEN Write(w, "verify") ELSE otaVerifyResponse(w, "error")

\* The packet is added to the CRC before it is written; after the last one,
\* or when there is nothing left, the image is verified.
otaTransferData(v) ==
    LET n == ChunkSize(v.fwOffset)
        w == [v EXCEPT !.state = "dataTransfer", !.transferringSize = n]
    IN  IF n > 0
        THEN LET x == StartTimer([w EXCEPT !.fwCrc32 = Append(@, v.fwOffset)])
             IN  IF CanWrite(x) THEN Write(x, "data")
                 ELSE AbortWith(StopTimer(x), "write")
        ELSE otaVerify([StopTimer(w) EXCEPT !.fwOffset = ImageSize])

otaStartDownloadResponse(v, r) ==
    LET w == StopTimer(v)
    IN  CASE r = "success" -> otaTransferData(w)
          [] r = "failure" -> AbortWith(w, "response")
          [] r = "error"   -> AbortWith(w, "write")

otaStartDownload(v) ==
    LET w == StartTimer([v EXCEPT !.state = "startDownload"])
    IN  IF CanWrite(w) THEN Write(w, "start") ELSE otaStartDownloadResponse(w, "error")

otaPrepareForDownloadResponse(v, r) ==
    LET w == StopTimer(v)
    IN  CASE r = "success" -> otaStartDownload(w)
          [] r = "failure" -> CompleteWith(w, "response")
          [] r = "error"   -> CompleteWith(w, "write")

otaPrepareForDownload(v) ==
    LET w == StartTimer([v EXCEPT !.state = "prepareForDownload"])
    IN  IF CanWrite(w) THEN Write(w, "prepare") ELSE otaPrepareForDownloadResponse(w, "error")

otaEnableNotification(v) ==
    LET w == StartTimer([v EXCEPT !.state = "enableNotification"])
    IN  IF CanWrite(w)
        THEN [w EXCEPT !.att = Append(@, Request("subscribe", 0, <<>>))]
        ELSE Post(w, "notification", "error")

discoverOtaServiceCharacteristics(v) ==
    LET w == StartTimer([v EXCEPT !.state = "otaServiceDiscover", !.isDeviceConnected = TRUE])
    IN  IF w.peripheral
        THEN [w EXCEPT !.att = Append(@, Request("discover", 0, <<>>))]
        ELSE Post(w, "service", "error")

\* OtaBleDevice.connect: an existing link is reported at once
BleConnect(v) ==
    CASE ~v.peripheral                    -> Post(v, "connection", "error")
      [] v.peripheral /\ v.link = "up"    -> Post(v, "connection", "success")
      [] v.peripheral /\ v.link # "up"    -> [v EXCEPT !.link = "connecting"]

\* OtaMeshDevice.connect: the mesh library connects to the node, one at a time
MeshConnect(v) ==
    CASE v.hasConnected                   -> Post(v, "connection", "success")
      [] ~v.hasConnected /\ (v.nodeConnecting \/ ~v.network) ->
            Post([v EXCEPT !.peripheral = FALSE], "connection", "error")
      [] OTHER                            -> [v EXCEPT !.nodeConnecting = TRUE]

otaConnect(v) ==
    LET w == StartTimer([v EXCEPT !.state = "connect"])
    IN  IF v.adapter = "ble" THEN BleConnect(w) ELSE MeshConnect(w)

\* stateMachineProcess; .readAppInfo is never assigned to the state
stateMachineProcess(v) ==
    CASE v.state = "idle"               -> otaConnect([v EXCEPT !.isOtaUpgradeRunning = TRUE])
      [] v.state = "connect"            -> otaConnect(v)
      [] v.state = "otaServiceDiscover" -> discoverOtaServiceCharacteristics(v)
      [] v.state = "readAppInfo"        -> v
      [] v.state = "enableNotification" -> otaEnableNotification(v)
      [] v.state = "prepareForDownload" -> otaPrepareForDownload(v)
      [] v.state = "startDownload"      -> otaStartDownload(v)
      [] v.state = "dataTransfer"       -> otaTransferData(v)
      [] v.state = "verify"             -> otaVerify(v)
      [] v.state = "abort"              -> otaAbort(v)
      [] v.state = "complete"           -> Complete(v)

\* is the packet that was answered the last one (mutant: or the next one)
LastBegun(v) == v.fwOffset + MaxPacket >= ImageSize
LastSent(v) == v.fwOffset >= ImageSize

\* Whatever its status, a response acknowledges the packet on its way.  It is
\* the completion of a write, which runs in the state of that moment, or a
\* notification received while data is transferred.
otaTransferDataResponse(v, r) ==
    LET w == [StopTimer(v) EXCEPT !.fwOffset = @ + v.transferringSize]
    IN  IF r = "error" THEN AbortWith(StopTimer(v), "write")
        ELSE IF LastSent(w) THEN otaVerify(w) ELSE stateMachineProcess(w)

\* the completion closure of each command: only the one of the data packets
\* does anything when the write succeeded
RunCompletion(v, op, r) ==
    CASE op = "data"                          -> otaTransferDataResponse(v, r)
      [] op # "data" /\ r # "error"           -> v
      [] op = "prepare" /\ r = "error"        -> otaPrepareForDownloadResponse(v, r)
      [] op = "start" /\ r = "error"          -> otaStartDownloadResponse(v, r)
      [] op = "verify" /\ r = "error"         -> otaVerifyResponse(v, r)
      [] op = "abort" /\ r = "error"          -> otaAbortResponse(v, r)

-----------------------------------------------------------------------------
(* The blocks of the main queue                                            *)

StartBlock(v) == stateMachineProcess([v EXCEPT !.state = "idle"])

StopBlock(v) ==
    otaAbort([v EXCEPT !.isOtaAbortForDfu = IF v.dfuType = "app" THEN @ ELSE TRUE])

UploadBlock(v) == otaEnableNotification([v EXCEPT !.isOtaTransferForDfu = TRUE])

_didUpdateConnectionState(v, isConnected) ==
    LET w == StopTimer(v)
        failed == [ForgetServices(w) EXCEPT !.completeError = "connect"]
    IN  IF ~v.isOtaUpgradeRunning \/ v.state = "idle" THEN ForgetServices(v)
        \* some devices reset instead of answering a successful verification
        ELSE IF v.state = "verify" /\ v.timer /\ ~isConnected
             THEN [otaVerifyResponse(v, "success") EXCEPT !.hasConnected = FALSE]
        ELSE IF ~isConnected
             THEN IF StateNo[v.state] > StateNo.enableNotification
                  THEN otaAbort(failed) ELSE Complete(failed)
        ELSE [w EXCEPT !.hasConnected = TRUE, !.peripheral = (v.link = "up"),
                       !.delayed = @ + 1]

_didUpdateOtaServiceCharacteristicState(v, isDiscovered) ==
    IF ~v.isOtaUpgradeRunning \/ ~v.isDeviceConnected \/ v.state # "otaServiceDiscover" THEN v
    ELSE IF isDiscovered THEN otaEnableNotification(StopTimer(v))
    ELSE CompleteWith(StopTimer(v), "discover")

\* the timer is stopped before the state is tested
_didUpdateNotificationState(v, isEnabled) ==
    LET w == StopTimer(v)
    IN  IF ~v.isOtaUpgradeRunning \/ ~v.isDeviceConnected \/ v.state = "idle" THEN w
        ELSE IF isEnabled THEN otaPrepareForDownload(w)
        ELSE CompleteWith(w, "notification")

_didUpdateValueFor(v, r) ==
    IF ~v.isOtaUpgradeRunning \/ ~v.isDeviceConnected THEN v
    ELSE CASE v.state = "prepareForDownload" -> otaPrepareForDownloadResponse(v, r)
           [] v.state = "startDownload"      -> otaStartDownloadResponse(v, r)
           [] v.state = "dataTransfer"       -> otaTransferDataResponse(v, r)
           [] v.state = "verify"             -> otaVerifyResponse(v, r)
           [] v.state = "abort"              -> otaAbortResponse(v, r)
           [] OTHER                          -> v

\* The time-outs of connecting and of discovering are turned into the failure
\* event, after which the state machine is run once more.
_onOtaCommandTimeout(v) ==
    LET w == [v EXCEPT !.completeError = IF @ = "none" THEN "timeout" ELSE @]
    IN  CASE v.state \in {"idle", "abort"} -> Complete(w)
          [] v.state = "connect" ->
                stateMachineProcess(_didUpdateConnectionState(w, FALSE))
          [] v.state = "otaServiceDiscover" ->
                stateMachineProcess(_didUpdateOtaServiceCharacteristicState(w, FALSE))
          [] OTHER -> otaAbort(w)

RunBlock(v, b) ==
    CASE b.ev = "start"        -> StartBlock(v)
      [] b.ev = "stop"         -> StopBlock(v)
      [] b.ev = "upload"       -> UploadBlock(v)
      [] b.ev = "connection"   -> _didUpdateConnectionState(v, b.r = "success")
      [] b.ev = "service"      -> _didUpdateOtaServiceCharacteristicState(v, b.r = "success")
      [] b.ev = "notification" -> _didUpdateNotificationState(v, b.r = "success")
      [] b.ev = "value"        -> _didUpdateValueFor(v, b.r)
      [] b.ev = "timeout"      -> _onOtaCommandTimeout(v)

-----------------------------------------------------------------------------
(* The remote device: the OTA service a command is written to              *)

NoImage == [mode |-> "idle", got |-> <<>>]

\* the device's state after a request and the status it notifies
DeviceAfter(d, q) ==
    CASE q.op = "prepare" -> [mode |-> "ready", got |-> <<>>]
      [] q.op = "start" /\ d.mode = "ready" -> [d EXCEPT !.mode = "download"]
      [] q.op = "data" /\ d.mode = "download" -> [d EXCEPT !.got = Append(@, q.off)]
      [] q.op = "verify" /\ d.mode = "download" /\ d.got = ImageChunks /\ q.crc = d.got ->
            [d EXCEPT !.mode = "verified"]
      [] q.op = "verify" /\ ~(d.mode = "download" /\ d.got = ImageChunks /\ q.crc = d.got) ->
            [d EXCEPT !.mode = "idle"]
      [] q.op = "abort" -> NoImage
      [] OTHER -> d
DeviceStatus(d, q) ==
    IF \/ q.op = "start" /\ d.mode # "ready"
       \/ q.op = "verify" /\ DeviceAfter(d, q).mode # "verified"
    THEN "failure" ELSE "success"

-----------------------------------------------------------------------------
(* Actions: the user and the mesh library                                  *)

\* An upgrade page is opened (viewDidLoad) or left: resetOtaUpgradeStatus.
\* The command timer, the queue and the delayed block are not touched.
OpenPage ==
    /\ hist.resets < MaxResets
    /\ hist' = [hist EXCEPT !.resets = @ + 1]
    /\ u' = [ResetDevice(u) EXCEPT
                !.state = "idle", !.completeError = "none", !.isOtaUpgradeRunning = FALSE,
                !.isDeviceConnected = FALSE, !.meshDfuState = "INIT"]
    /\ UNCHANGED <<dev, air>>

\* nothing of an earlier session is under way
Quiet == /\ u.mainQ = <<>> /\ u.delayed = 0 /\ ~u.timer
         /\ u.att = <<>> /\ air = <<>> /\ ~u.nodeConnecting /\ u.dfuLib = "idle"

\* the upgrade's own variables (mutant: the offset is left from the last one)
KeepOffset(v, dfuType) ==
    [v EXCEPT !.dfuType = dfuType, !.transferringSize = 0,
              !.fwCrc32 = <<>>, !.completeError = "none", !.posted = <<>>]
NewImage(v, dfuType) ==
    [v EXCEPT !.dfuType = dfuType, !.fwOffset = 0, !.transferringSize = 0,
              !.fwCrc32 = <<>>, !.completeError = "none", !.posted = <<>>]

\* otaUpgradeDfuStart, for the device object used before or a new one: only a
\* BLE device that was scanned comes with its peripheral, and its page starts
\* application upgrades only.  A mesh device is upgraded over a connected mesh
\* network, a DFU by the mesh library.
Start(dfuType, new) ==
    /\ hist.starts < MaxStarts
    /\ u.adapter = "ble" => dfuType = "app"
    /\ isUpgradeIdle(u)
    /\ hist' = [hist EXCEPT !.starts = @ + 1, !.clean = Quiet]
    /\ LET device == IF new
                     THEN [ResetDevice(u) EXCEPT !.peripheral = (u.adapter = "ble"),
                                                 !.completion = "none"]
                     ELSE u
           v == NewImage(device, dfuType)
       IN  u' = CASE u.adapter = "ble" \/ (dfuType = "app" /\ v.network) ->
                        Post(v, "start", "success")
                  [] u.adapter = "mesh" /\ dfuType = "dfu" /\ v.network ->
                        [v EXCEPT !.meshDfuState = "INIT", !.dfuLib = "started"]
                  [] u.adapter = "mesh" /\ ~v.network -> v
    /\ UNCHANGED <<dev, air>>

Stop ==
    /\ hist.stops < MaxStops
    /\ hist' = [hist EXCEPT !.stops = @ + 1]
    /\ u' = otaUpgradeDfuStop(u)
    /\ UNCHANGED <<dev, air>>

\* The mesh library has picked the distributor: isOtaSupportedForDfu finds
\* the OTA service of the connected proxy and records it in the device, but
\* not its peripheral, without which startOtaTransferForDfu does nothing.
LibraryStartsUpload ==
    /\ u.dfuLib = "started" /\ u.link = "up"
    /\ u' = PostIf(u.peripheral,
                   [u EXCEPT !.hasConnected = TRUE, !.characteristics = TRUE,
                             !.dfuLib = "uploading", !.meshDfuState = "UPLOAD"],
                   "upload", "success")
    /\ UNCHANGED <<dev, air, hist>>

\* meshClientDfuStatusCb at the end of the distribution
LibraryReports ==
    /\ u.dfuLib \in {"uploaded", "failed"}
    /\ u' = [u EXCEPT !.meshDfuState = IF u.dfuLib = "uploaded" THEN "COMPLETE" ELSE "FAILED",
                      !.dfuLib = "idle"]
    /\ UNCHANGED <<dev, air, hist>>

\* The mesh library tells whether the node is connected (or its timer ran
\* out).  A new link is seen by OtaManager first.
NodeConnectState ==
    /\ u.nodeConnecting
    /\ \E connected \in BOOLEAN :
         LET v == IF u.isOtaUpgradeRunning /\ connected /\ u.link # "up"
                  THEN ResetDevice(u) ELSE u
         IN  u' = Post([v EXCEPT !.nodeConnecting = FALSE, !.peripheral = connected,
                                 !.link = IF connected THEN "up" ELSE @],
                       "connection", IF connected THEN "success" ELSE "error")
    /\ UNCHANGED <<dev, air, hist>>

-----------------------------------------------------------------------------
(* Actions: CoreBluetooth callbacks, routed by MeshGattClient, OtaManager  *)

\* isOtaUpgrading /\ isOtaDeviceConnected when the callback is delivered
Routed == u.isOtaUpgradeRunning /\ u.isDeviceConnected

\* OtaBleDevice.disconnect leaves the report of a link that is up to
\* DidDisconnect, OtaMeshDevice.disconnect reports it at once as well
Disconnect(v) == PostIf(v.adapter = "mesh" \/ ~v.peripheral, v, "connection", "error")

DidConnect ==
    /\ u.link = "connecting"
    /\ LET v == [u EXCEPT !.link = "up"]
       IN  u' = IF u.isOtaUpgradeRunning
                THEN Post([ResetDevice(v) EXCEPT !.peripheral = TRUE], "connection", "success")
                ELSE v
    /\ UNCHANGED <<dev, air, hist>>

DidFailToConnect ==
    /\ u.link = "connecting"
    /\ u' = PostIf(u.isOtaUpgradeRunning, ResetDevice([u EXCEPT !.link = "down"]),
                   "connection", "error")
    /\ UNCHANGED <<dev, air, hist>>

\* Requests and notifications under way are lost with the link.
DidDisconnect ==
    /\ u.link = "up"
    /\ u' = PostIf(Routed, ResetDevice([u EXCEPT !.link = "down", !.att = <<>>]),
                   "connection", "error")
    /\ dev' = IF dev.mode = "verified" THEN dev ELSE NoImage
    /\ air' = <<>>
    /\ UNCHANGED hist

\* The device takes the oldest request.  It refuses it or executes it, and
\* notifies the status of a command just before or just after the reply to
\* the write; some devices never answer to verify.
DeviceTakesRequest ==
    /\ u.att # <<>> /\ ~Head(u.att).done
    /\ u' = [u EXCEPT !.att[1].done = TRUE]
    /\ LET q == Head(u.att)
           reply  == [pdu |-> "reply", r |-> "success"]
           status == [pdu |-> "notify", r |-> DeviceStatus(dev, q)]
       IN  \/ /\ \E r \in IF q.op = "discover" THEN {"error", "failure"} ELSE {"error"} :
                    air' = Append(air, [reply EXCEPT !.r = r])
              /\ UNCHANGED dev
           \/ /\ dev' = DeviceAfter(dev, q)
              /\ air' \in IF q.op \in Commands \ {"data"}
                          THEN {air \o <<reply, status>>, air \o <<status, reply>>}
                               \cup IF q.op = "verify" THEN {Append(air, reply)} ELSE {}
                          ELSE {Append(air, reply)}
    /\ UNCHANGED hist

Arrives(pdu) == air # <<>> /\ Head(air).pdu = pdu
Replied(ops) == Arrives("reply") /\ u.att # <<>> /\ Head(u.att).op \in ops
Answered == [u EXCEPT !.att = Tail(@)]

\* didDiscoverServices and didDiscoverCharacteristicsFor.  A device without
\* the OTA service ("failure") is left to the mesh client, which reports
\* nothing.  With an AppInfo characteristic its value is read instead of
\* reporting the discovery.  An error disconnects, a service that lacks its
\* characteristics does not.
DidDiscover ==
    /\ Replied({"discover"})
    /\ LET r == Head(air).r
           failed == Post(Answered, "service", "error")
           found == [Answered EXCEPT !.characteristics = TRUE]
       IN  \/ (~Routed \/ r = "failure") /\ u' = Answered
           \/ Routed /\ r = "error" /\ u' \in {Disconnect(failed), failed}
           \/ /\ Routed /\ r = "success"
              /\ u' = IF AppInfo
                      THEN [found EXCEPT !.att = Append(@, Request("readAppInfo", 0, <<>>))]
                      ELSE Post(found, "service", "success")
    /\ air' = Tail(air)
    /\ UNCHANGED <<dev, hist>>

\* the value read is reported like one that is notified
DidUpdateValue ==
    /\ Arrives("notify") \/ Replied({"readAppInfo"})
    /\ u' = PostIf(Routed /\ u.characteristics,
                   IF Arrives("notify") THEN u ELSE Answered, "value", Head(air).r)
    /\ air' = Tail(air)
    /\ UNCHANGED <<dev, hist>>

DidUpdateNotificationState ==
    /\ Replied({"subscribe"})
    /\ u' = CASE ~Routed \/ ~u.characteristics -> Answered
              [] Routed /\ u.characteristics /\ Head(air).r = "success" ->
                    Post(Answered, "notification", "success")
              [] Routed /\ u.characteristics /\ Head(air).r # "success" ->
                    Disconnect(Post(Answered, "notification", "error"))
    /\ air' = Tail(air)
    /\ UNCHANGED <<dev, hist>>

\* didWriteValueFor: the one completion slot is emptied, then called
DidWriteValue ==
    /\ Replied(Commands)
    /\ u' = IF Routed /\ u.characteristics /\ u.completion # "none"
            THEN RunCompletion([Answered EXCEPT !.completion = "none"],
                               u.completion, Head(air).r)
            ELSE Answered
    /\ air' = Tail(air)
    /\ UNCHANGED <<dev, hist>>

-----------------------------------------------------------------------------
(* Actions: the main run loop                                              *)

RunMainQueue ==
    /\ u.mainQ # <<>>
    /\ u' = RunBlock([u EXCEPT !.mainQ = Tail(@)], Head(u.mainQ))
    /\ UNCHANGED <<dev, air, hist>>

\* the block _didUpdateConnectionState delays by 500 ms
RunDelayed ==
    /\ u.delayed > 0
    /\ u' = discoverOtaServiceCharacteristics([u EXCEPT !.delayed = @ - 1])
    /\ UNCHANGED <<dev, air, hist>>

TimerExpires ==
    /\ u.timer
    /\ u.isOtaUpgradeRunning \/ Len(u.att) < MaxRequests
    /\ u' = Post(StopTimer(u), "timeout", "success")
    /\ UNCHANGED <<dev, air, hist>>

-----------------------------------------------------------------------------
\* Which adapter is used is the choice of the page that is open, and stays.  A
\* BLE upgrade has no use for the mesh network.
Init ==
    /\ \E adapter \in Adapters, link \in {"down", "up"}, network \in BOOLEAN :
         /\ adapter = "ble" => ~network
         /\ u = [adapter |-> adapter, state |-> "idle", completeError |-> "none", timer |-> FALSE,
                 isOtaUpgradeRunning |-> FALSE, isDeviceConnected |-> FALSE,
                 fwOffset |-> 0, transferringSize |-> 0, fwCrc32 |-> <<>>,
                 dfuType |-> "app", isOtaTransferForDfu |-> FALSE, isOtaAbortForDfu |-> FALSE,
                 meshDfuState |-> "INIT", dfuLib |-> "idle", network |-> network,
                 hasConnected |-> FALSE, peripheral |-> FALSE, characteristics |-> FALSE,
                 nodeConnecting |-> FALSE, completion |-> "none", mainQ |-> <<>>, delayed |-> 0,
                 link |-> link, att |-> <<>>, posted |-> <<>>]
    /\ dev = NoImage
    /\ air = <<>>
    /\ hist = [starts |-> 0, stops |-> 0, resets |-> 0, clean |-> TRUE]

User == \/ OpenPage
        \/ \E t \in DfuTypes, new \in BOOLEAN : Start(t, new)
        \/ Stop
MeshLibrary == LibraryStartsUpload \/ LibraryReports \/ NodeConnectState
CoreBluetooth ==
    \/ DidConnect \/ DidFailToConnect \/ DidDisconnect
    \/ DeviceTakesRequest
    \/ DidDiscover \/ DidUpdateNotificationState \/ DidWriteValue \/ DidUpdateValue
RunLoop == RunMainQueue \/ RunDelayed \/ TimerExpires

Next == User \/ MeshLibrary \/ CoreBluetooth \/ RunLoop

Spec == Init /\ [][Next]_vars

\* the main run loop serves its queue, its delayed blocks and its timer
Fairness == WF_vars(RunMainQueue) /\ WF_vars(RunDelayed) /\ WF_vars(TimerExpires)
FairSpec == Spec /\ Fairness

-----------------------------------------------------------------------------
(* Properties                                                              *)

Phone == [adapter : Adapters, state : OtaState, completeError : Errors, timer : BOOLEAN,
          isOtaUpgradeRunning : BOOLEAN, isDeviceConnected : BOOLEAN,
          fwOffset : Int, transferringSize : Chunks, fwCrc32 : Seq(Int),
          dfuType : {"app", "dfu"}, isOtaTransferForDfu : BOOLEAN,
          isOtaAbortForDfu : BOOLEAN,
          meshDfuState : {"INIT", "UPLOAD", "COMPLETE", "FAILED"},
          dfuLib : {"idle", "started", "uploading", "uploaded", "failed"},
          network : BOOLEAN, hasConnected : BOOLEAN, peripheral : BOOLEAN,
          characteristics : BOOLEAN, nodeConnecting : BOOLEAN, completion : Commands \cup {"none"},
          mainQ : Seq(Blocks), delayed : Nat, link : {"down", "connecting", "up"},
          att : Seq(Requests), posted : Seq({"success", "failure"})]

\* Every variable keeps its type, whatever handler runs in whatever state: no
\* answer, early, late or repeated, makes it send more than a packet may hold.
TypeOK ==
    /\ u \in Phone
    /\ dev \in [mode : {"idle", "ready", "download", "verified"}, got : Seq(Int)]
    /\ air \in Seq([pdu : {"reply", "notify"}, r : Results])
    /\ hist \in [starts : 0 .. MaxStarts, stops : 0 .. MaxStops, resets : 0 .. MaxResets,
                clean : BOOLEAN]

\* otaUpgradeDfuStart tests the state alone, the routing of callbacks tests
\* isOtaUpgradeRunning alone: they agree, so a start that is accepted never
\* replaces the image or the device of an upgrade that is being served.
IdleIsNotRunning ==
    u.state \in {"idle", "complete"} => ~u.isOtaUpgradeRunning

\* A running upgrade always has a next event of the phone's own: the command
\* timer, the delayed discovery or a block in the queue.  No handler stops
\* the timer and then returns on a guard, leaving the upgrade to a device
\* that may never answer.  (Of application upgrades: a DFU upload whose
\* error is still queued when an application upgrade starts does stop its
\* timer and returns, see README.)
NeverStalls ==
    u.isOtaUpgradeRunning => u.timer \/ u.delayed > 0 \/ u.mainQ # <<>>

Reported(r) == Len(u'.posted) > Len(u.posted) /\ u'.posted[Len(u'.posted)] = r

\* An upgrade begun with nothing of an earlier one under way reports success
\* only after the device has verified the image, or when the link was lost
\* after every packet was sent (the device that resets instead of answering).  No
\* late, early or repeated response makes it skip a packet or the verdict.
SuccessHasImage ==
    Reported("success") /\ hist.clean =>
        \/ dev.mode = "verified"
        \/ u.link = "down" /\ u.fwOffset = ImageSize /\ u.fwCrc32 = ImageChunks
SuccessImpliesImage == [][SuccessHasImage]_vars

\* The upgrader keeps the promise of UpgradeReports to its page: success is
\* notified once, by the step that ends a running upgrade; only the page's own
\* reset ends one without a word; no start is granted while one runs.
Page == INSTANCE UpgradeReports WITH running <- u.isOtaUpgradeRunning, reports <- u.posted,
                                     starts <- hist.starts, resets <- hist.resets
ReportsKept == Page!Spec

\* A running upgrade comes to an end.
SessionEnds == u.isOtaUpgradeRunning ~> ~u.isOtaUpgradeRunning
=============================================================================
