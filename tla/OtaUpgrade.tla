----------------------------- MODULE OtaUpgrade -----------------------------
(***************************************************************************)
(* The firmware upgrade of the Android application: OtaUpgrade.java, fed   *)
(* by MeshGattClient through its request queue (RequestQueue).             *)
(*                                                                         *)
(* The user starts and stops on the main thread; everything else happens   *)
(* in callbacks on the Binder thread of the connection.  The callback of a *)
(* write and the notification of its status arrive in either order.  There *)
(* is no timer.  A callback is one step up to its call of next().          *)
(***************************************************************************)
EXTENDS Integers, SequencesExt

CONSTANTS
    Chunks,        \* the image, in writes
    MaxConnects,   \* see RequestQueue
    MaxStarts,     \* bound on the upgrades the user starts
    MaxOthers,     \* bound on the stops and the proxy packets, together
    MaxCalls       \* bound on all of these, together

ASSUME UpgradeAssumption ==
    Chunks \in Nat \ {0} /\ {MaxConnects, MaxStarts, MaxOthers, MaxCalls} \subseteq Nat

VARIABLES
    q, mGatt, gatts, nexts, seen,   \* see RequestQueue
    ota,     \* the OtaUpgrade object: has it been made, its connection (0 for
             \* null), mState, mPatchOffset and mInTransfer
    ui,      \* where the main thread is in start() or stop()
    dev,     \* the OTA service of the device
    air,     \* its notifications on their way, in order for each connection
    hist     \* history of the upgrade: what was reported, was it started
             \* with nothing of another under way, has anything failed, did
             \* an answer overtake the end of start()

Q == INSTANCE RequestQueue WITH MaxPackets <- MaxOthers

\* the calls that MaxOthers and MaxCalls bound
Others == hist.stops + seen.packets
Calls == Len(gatts) + hist.starts + Others

queueVars == <<q, mGatt, gatts, nexts, seen>>
otaVars   == <<ota, ui, dev, air, hist>>
vars      == <<queueVars, otaVars>>

Hurt(h) == [h EXCEPT !.hurt = TRUE]
Report(h, r) == [h EXCEPT !.reports = Append(@, r)]

\* the requests that the upgrade makes, on the connection it was created for
Ota(op, x) == Q!Req(ota.gatt, op, x)

Image == [i \in 1 .. Chunks |-> i]
NoImage == [sub |-> 0, mode |-> "idle", got |-> <<>>]
-----------------------------------------------------------------------------
(* The main thread                                                         *)

\* nothing of an earlier upgrade is under way
Quiet == /\ q.reqs = <<>> /\ ~ota.inTransfer
         /\ \A g \in 1 .. Len(gatts) : gatts[g].op.op \in {"none", "cccd"}
         /\ \A g \in Q!Threads : air[g] = <<>>

\* the OTA service of the device, by GattUtils.getCharacteristic
Found(g) == g # 0 /\ gatts[g].services

\* startOta and start, up to the last assignment: the OtaUpgrade object is
\* created with the connection of that moment, be it null or not there yet,
\* and kept.  Without the service it reports so and goes on.
Start ==
    /\ ui = "idle" /\ Q!AppIdle
    /\ hist.starts < MaxStarts /\ Calls < MaxCalls
    /\ LET g == IF ota.made THEN ota.gatt ELSE mGatt
       IN  /\ ota' = [ota EXCEPT !.made = TRUE, !.gatt = g, !.state = "IDLE"]
           /\ Q!Added(Q!App, IF Found(g) THEN <<Q!Req(g, "desc", 0), Q!Req(g, "prepare", 0)>>
                                         ELSE <<>>)
           /\ hist' = [starts |-> hist.starts + 1, stops |-> hist.stops, clean |-> Quiet,
                       hurt |-> g # mGatt \/ ~Q!Up(g), early |-> FALSE,
                       reports |-> IF Found(g) THEN <<>> ELSE <<"not found">>]
    /\ ui' = "start"
    /\ UNCHANGED <<mGatt, gatts, seen, dev, air>>

\* mState = WS_UPGRADE_STATE_WAIT_FOR_READY_FOR_DOWNLOAD
Started ==
    /\ ui = "start" /\ Q!AppIdle
    /\ ota' = [ota EXCEPT !.state = "WAIT"]
    /\ ui' = "idle"
    /\ UNCHANGED <<queueVars, dev, air, hist>>

\* stop, up to its test
Stop ==
    /\ ui = "idle" /\ ~q.clearing /\ Others < MaxOthers /\ Calls < MaxCalls
    /\ ota.inTransfer \/ ota.state = "DATA"
    /\ ui' = "stop"
    /\ hist' = [Hurt(hist) EXCEPT !.stops = @ + 1]
    /\ UNCHANGED <<queueVars, ota, dev, air>>

\* and after it: mState is set to the number of an event, which is not a
\* state, and mInTransfer stays as it is
Stopped ==
    /\ ui = "stop" /\ Q!AppIdle
    /\ ota' = [ota EXCEPT !.state = "ABORT"]
    /\ Q!Added(Q!App, <<Ota("abort", 0)>>)
    /\ ui' = "idle"
    /\ UNCHANGED <<mGatt, gatts, seen, dev, air, hist>>

-----------------------------------------------------------------------------
(* Callbacks: the status of the device                                     *)

\* (mutant of Restarted: the offset of the last transfer is kept)
RestartedNot(o) == o

\* the upgrade at the start of the image
Restarted(o) == [o EXCEPT !.offset = 0]

\* sendOtaImageData: the upgrade after the next packet was queued
Chunk(o) == [o EXCEPT !.offset = @ + 1, !.inTransfer = o.offset + 1 < Chunks]

\* processEvent(WS_UPGRADE_RESPONSE_OK), by the thread of connection g
ResponseOk(g) ==
    \/ /\ ota.state = "WAIT"
       /\ ota' = [Restarted(ota) EXCEPT !.state = "DATA"]
       /\ Q!Added(g, <<Ota("download", 0)>>)
       /\ UNCHANGED hist
    \/ /\ ota.state = "DATA" /\ ~ota.inTransfer
       /\ ota' = Chunk(Restarted(ota))
       /\ Q!Added(g, <<Ota("data", 1)>>)
       /\ UNCHANGED hist
    \/ /\ ota.state = "VERIFICATION"
       /\ ota' = [ota EXCEPT !.state = "VERIFIED"]
       /\ hist' = Report(hist, "completed")
       /\ UNCHANGED <<q, nexts>>
    \/ /\ ota.state = "ABORTED"
       /\ hist' = Report(hist, "aborted")
       /\ UNCHANGED <<q, nexts, ota>>
    \/ /\ \/ ota.state \in {"IDLE", "VERIFIED", "ABORT"}
          \/ ota.state = "DATA" /\ ota.inTransfer
       /\ hist' = [hist EXCEPT !.early = @ \/ ui = "start"]
       /\ UNCHANGED <<q, nexts, ota>>

\* processEvent(WS_UPGRADE_RESPONSE_FAILED)
ResponseFailed ==
    /\ IF ota.state = "VERIFICATION"
       THEN ota' = [ota EXCEPT !.state = "ABORTED"] /\ hist' = Report(hist, "aborted")
       ELSE hist' = Hurt(hist) /\ UNCHANGED ota
    /\ UNCHANGED <<q, nexts>>

\* (mutant of Okay: whatever the device answers)
OkayAlways(status) == TRUE

\* the status of a notification
Okay(status) == status = "ok"

\* onCharacteristicChanged of the control point
OnOtaCharacteristicChanged(g) ==
    /\ Q!Callback(g) /\ gatts[g].state \in {"up", "leaving"}
    /\ air[g] # <<>>
    /\ air' = [air EXCEPT ![g] = Tail(@)]
    /\ IF Okay(Head(air[g])) THEN ResponseOk(g) ELSE ResponseFailed
    /\ UNCHANGED <<mGatt, gatts, seen, ui, dev>>

-----------------------------------------------------------------------------
(* Callbacks: the end of a write                                           *)

\* (mutant of AllSent: the last packet is not waited for)
AllQueuedButOne(o) == o.state = "DATA" /\ o.offset + 1 = Chunks

\* (mutant of AllSent: the end is never met)
AllSentLate(o) == o.state = "DATA" /\ o.offset > Chunks

\* processProgress: mPatchOffset is the size of the image
AllSent(o) == o.state = "DATA" /\ o.offset = Chunks

\* a result that processProgress reports, again and again
Result(state) == CASE state = "VERIFIED" -> "completed"
                   [] state = "ABORTED" -> "aborted"
                   [] OTHER -> "none"

\* processCharacteristicWrite: the progress, and the next packet.  With
\* nothing left to send the verification starts.
Proceeds(g) ==
    /\ hist' = IF Result(ota.state) = "none" THEN hist ELSE Report(hist, Result(ota.state))
    /\ LET o == IF AllSent(ota) THEN [ota EXCEPT !.state = "VERIFICATION"] ELSE ota
           verify == IF AllSent(ota) THEN <<Ota("verify", 0)>> ELSE <<>>
           more == o.inTransfer /\ o.offset < Chunks /\ o.state # "ABORTED"
           data == IF more THEN <<Ota("data", o.offset + 1)>> ELSE <<>>
           abort == IF o.inTransfer /\ o.state = "ABORTED" THEN <<Ota("abort", 0)>> ELSE <<>>
           rs == verify \o data \o abort
           starts == IF rs # <<>> /\ ~q.running THEN 1 ELSE 0
       IN  /\ ota' = IF more THEN Chunk(o) ELSE o
           /\ q' = IF rs = <<>> THEN q ELSE [q EXCEPT !.reqs = @ \o rs, !.running = TRUE]
           /\ nexts' = [nexts EXCEPT ![g] = @ + 1 + starts]

Commands == {"prepare", "download", "verify", "abort"}
OtaWrites == Commands \cup {"data"}

\* onCharacteristicWrite of the OTA service; a write that failed only asks
\* for the next request
OnOtaCharacteristicWrite(g) ==
    /\ gatts[g].op.op \in OtaWrites
    /\ \/ Q!Completes(g, TRUE) /\ Proceeds(g)
       \/ Q!Completes(g, FALSE) /\ Q!AsksNext(g) /\ hist' = Hurt(hist) /\ UNCHANGED ota
    /\ UNCHANGED <<ui, dev, air>>

\* onDescriptorWrite, and the end of a packet's write
OnOtherWrite(g) ==
    /\ \/ Q!OnOtherWrite(g, TRUE) /\ UNCHANGED hist
       \/ Q!OnOtherWrite(g, FALSE) /\ hist' = Hurt(hist)
    /\ UNCHANGED <<ota, ui, dev, air>>

-----------------------------------------------------------------------------
(* The device, and the link                                                *)

DeviceAfter(r) ==
    CASE r.op = "desc"     -> [dev EXCEPT !.sub = r.gatt]
      [] r.op = "prepare"  -> [dev EXCEPT !.mode = "ready", !.got = <<>>]
      [] r.op = "download" -> [dev EXCEPT !.mode = IF @ = "ready" THEN "download" ELSE @]
      [] r.op = "data"     -> [dev EXCEPT !.got = IF dev.mode = "download"
                                                  THEN Append(@, r.x) ELSE @]
      [] r.op = "verify"   -> [dev EXCEPT !.mode = IF @ = "download" /\ dev.got = Image
                                                   THEN "verified" ELSE "idle"]
      [] r.op = "abort"    -> [dev EXCEPT !.mode = "idle", !.got = <<>>]
      [] OTHER             -> dev

\* the status it notifies of a command
Status(r) == IF \/ r.op = "download" /\ dev.mode # "ready"
                \/ r.op = "verify" /\ DeviceAfter(r).mode # "verified"
             THEN "failed" ELSE "ok"

Notified(status) ==
    IF dev.sub = 0 THEN air ELSE [air EXCEPT ![dev.sub] = Append(@, status)]

\* the device executes a request, or refuses it
DeviceTakes(g) ==
    /\ gatts[g].state \in {"up", "leaving"}
    /\ gatts[g].op.op \notin {"none", "cccd"} /\ ~gatts[g].op.done
    /\ LET r == gatts[g].op
       IN  \/ /\ dev' = DeviceAfter(r)
              /\ air' = IF r.op \in Commands THEN Notified(Status(r)) ELSE air
              /\ UNCHANGED hist
           \/ /\ r.op \in OtaWrites
              /\ air' = IF r.op \in Commands THEN Notified("failed") ELSE air
              /\ hist' = Hurt(hist)
              /\ UNCHANGED dev
    /\ gatts' = [gatts EXCEPT ![g].op.done = TRUE]
    /\ UNCHANGED <<q, mGatt, nexts, seen, ota, ui>>

\* the device forgets an upgrade whose connection is gone
Forgets(g) ==
    /\ dev' = IF dev.mode = "verified" \/ dev.sub # g THEN dev ELSE NoImage
    /\ air' = [air EXCEPT ![g] = <<>>]
    /\ hist' = Hurt(hist)
    /\ UNCHANGED <<ota, ui>>

-----------------------------------------------------------------------------
Init ==
    /\ Q!Init
    /\ ota = [made |-> FALSE, gatt |-> 0, state |-> "IDLE", offset |-> 0, inTransfer |-> FALSE]
    /\ ui = "idle" /\ dev = NoImage /\ air = [g \in Q!Threads |-> <<>>]
    /\ hist = [starts |-> 0, stops |-> 0, clean |-> TRUE, hurt |-> FALSE,
            early |-> FALSE, reports |-> <<>>]

Connections == \E g \in 1 .. Len(gatts) : Q!DeviceConnected(g)
Library == \/ Calls < MaxCalls /\ Q!Connect
           \/ Connections
           \/ Others < MaxOthers /\ Calls < MaxCalls /\ Q!SendProxyPacket
Lost(g) == Q!LinkLost(g) /\ Forgets(g)
Ends(g) == Q!OnDisconnected(g) /\ Forgets(g)
User == Start \/ Stop
Connecting == Q!ConnectGatt /\ UNCHANGED otaVars
MainThread == Started \/ Stopped \/ Connecting
MeshSubscribed(g) == Q!OnMeshDescriptorWrite(g) /\ UNCHANGED otaVars
Callback(g) == \/ OnOtaCharacteristicChanged(g) \/ OnOtaCharacteristicWrite(g)
               \/ OnOtherWrite(g) \/ MeshSubscribed(g)
               \/ gatts[g].state # "connecting" /\ Ends(g)
Nexts == \E t \in Q!Threads : Q!RunNext(t) /\ UNCHANGED otaVars
Device == \E g \in 1 .. Len(gatts) : DeviceTakes(g)

Next == \/ User \/ MainThread \/ Nexts \/ Device
        \/ Library /\ UNCHANGED otaVars
        \/ Q!Disconnect /\ hist' = Hurt(hist) /\ UNCHANGED <<ota, ui, dev, air>>
        \/ \E g \in 1 .. Len(gatts) : Callback(g) \/ Ends(g) \/ Lost(g)

Spec == Init /\ [][Next]_vars

\* the main thread and the Binder threads run, and the device, on a link
\* that stays, takes what it is sent
Fairness == /\ WF_vars(MainThread) /\ WF_vars(Nexts) /\ WF_vars(Device)
            /\ WF_vars(\E g \in 1 .. Len(gatts) : Callback(g))
FairSpec == Spec /\ Fairness

-----------------------------------------------------------------------------
(* Properties                                                              *)

\* The type invariant.
TypeOK ==
    /\ Q!TypeOK
    /\ ota \in [made : BOOLEAN, gatt : 0 .. Len(gatts), offset : 0 .. Chunks, inTransfer : BOOLEAN,
                state : {"IDLE", "WAIT", "DATA", "VERIFICATION", "VERIFIED", "ABORTED", "ABORT"}]
    /\ ui \in {"idle", "start", "stop"}
    /\ dev \in [sub : Q!Threads, mode : {"idle", "ready", "download", "verified"}, got : Seq(Nat)]
    /\ air \in [Q!Threads -> Seq({"ok", "failed"})]
    /\ hist \in [starts : 0 .. MaxStarts, stops : 0 .. MaxOthers, clean : BOOLEAN,
                 hurt : BOOLEAN, early : BOOLEAN, reports : Seq({"completed", "aborted", "not found"})]

\* "Queue for ensuring read/write requests are serialized so that each
\* read/write completes" before the next: next() never finds the connection
\* busy with a request of the queue, whichever threads add, execute, clear
\* and answer.  (The descriptor that onServicesDiscovered writes past the
\* queue may still keep Android busy.  Unless the thread of an older
\* connection has taken a request, see README.)
Serialized ==
    seen.stale \/ \A t \in {Q!App, mGatt} :
        nexts[t] > 0 /\ q.reqs # <<>> /\ Head(q.reqs).gatt = mGatt
           => gatts[mGatt].op.op \in {"none", "cccd"}

\* Success of an upgrade that was started with nothing of another under way
\* is reported only if the device has verified the whole image, in whatever
\* order the ends of the writes and the statuses arrive.
SuccessImpliesImage ==
    [][ hist.clean /\ Len(hist'.reports) > Len(hist.reports)
        /\ hist'.reports[Len(hist'.reports)] = "completed"
           => dev.mode = "verified" /\ dev.got = Image ]_vars

\* The packets of such an upgrade reach the device once each and in order,
\* before the VERIFY: it never discards what it has been sent, if no request
\* was refused, no one has stopped and no older connection interferes.
ImageSent ==
    [][ hist.clean /\ ~hist'.hurt /\ ~seen.stale /\ dev.mode # "idle" => dev'.mode # "idle" ]_vars

\* An upgrade that nobody stops, on a link that stays, with a device that
\* refuses nothing and no write that fails, comes to a result.  (Unless the
\* device answers before start() has assigned mState, the thread of an older
\* connection takes a request, or Android refuses one, see README.)
UpgradeConcludes ==
    ota.state \in {"WAIT", "DATA", "VERIFICATION"} /\ hist.clean
       ~> hist.reports # <<>> \/ hist.hurt \/ hist.early \/ seen.stale \/ seen.refused
              \/ ~hist.clean

\* The queue does not fall asleep on its requests while its connection is up.
\* (Unless Android has refused a descriptor, or a request for a connection
\* that is no longer in use, or a request came while clear() was under way,
\* see README.)
QueueMoves ==
    q.reqs # <<>> ~> q.reqs = <<>> \/ ~Q!Up(mGatt) \/ seen.refused \/ seen.torn
=============================================================================
