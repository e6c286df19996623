-------------------------- MODULE OtaUpgraderProofs --------------------------
(***************************************************************************)
(* What holds of the upgrader for every image, packet size, device and     *)
(* number of starts: its types, that an upgrader that can be started is    *)
(* not running, that it implements UpgradeReports, and that an upgrade     *)
(* begun with nothing of an earlier one under way neither stalls nor       *)
(* reports a success the device has not verified.                          *)
(*                                                                         *)
(* Every handler is an operator on the phone's record.  Two facts about    *)
(* each of them carry the first proofs: the record keeps its type, and the *)
(* handler either keeps the upgrade going without a notification or ends   *)
(* it with exactly one.  The last two rest on a third, that the handler    *)
(* leaves the upgrade awake (Serves), and on what may wait for an upgrade  *)
(* at each of its states (Flow): which requests, answers and blocks.       *)
(***************************************************************************)
EXTENDS OtaUpgrader, SequenceTheorems, TLAPS

(* What a handler may do to the state, the running flag and the            *)
(* notifications.                                                          *)

\* nothing
Kept(v, w) == /\ w \in Phone
              /\ w.state = v.state
              /\ w.completeError = v.completeError
              /\ w.isOtaUpgradeRunning = v.isOtaUpgradeRunning
              /\ w.posted = v.posted

\* nothing but the state and the error
Same(v, w) == /\ w \in Phone
              /\ w.isOtaUpgradeRunning = v.isOtaUpgradeRunning
              /\ w.posted = v.posted

\* the next command, with no notification
Goes(v, w) == /\ w.state \notin {"idle", "complete"}
              /\ w.isOtaUpgradeRunning \/ w.isOtaUpgradeRunning = v.isOtaUpgradeRunning
              /\ w.posted = v.posted

\* the end, with a failure
Fails(v, w) == /\ w.state = "complete"
               /\ ~w.isOtaUpgradeRunning
               /\ w.completeError # "none"
               /\ w.posted = Append(v.posted, "failure")

\* the end of a running upgrade, with success
Succeeds(v, w) == /\ v.isOtaUpgradeRunning
                  /\ w.state = "complete"
                  /\ ~w.isOtaUpgradeRunning
                  /\ w.completeError = "none"
                  /\ w.posted = Append(v.posted, "success")

Proceeds(v, w) == w \in Phone /\ (Goes(v, w) \/ Fails(v, w))
Moves(v, w) == w \in Phone /\ (Goes(v, w) \/ Fails(v, w) \/ Succeeds(v, w))

-----------------------------------------------------------------------------
(* Data                                                                    *)

LEMMA StatesListed ==
    OtaState = {"idle", "connect", "otaServiceDiscover", "readAppInfo",
                "enableNotification", "prepareForDownload", "startDownload",
                "dataTransfer", "verify", "abort", "complete"}
BY DEF OtaState, StateNo

LEMMA AppendType ==
    ASSUME NEW S, NEW s \in Seq(S), NEW e \in S
    PROVE  Append(s, e) \in Seq(S)
BY AppendProperties

LEMMA RequestType ==
    ASSUME NEW op \in Commands \cup {"discover", "subscribe", "readAppInfo"},
           NEW off \in Int, NEW crc \in Seq(Int)
    PROVE  Request(op, off, crc) \in Requests
BY DEF Request, Requests

\* a request that carries neither offset nor CRC
LEMMA BareRequestType ==
    ASSUME NEW op \in Commands \cup {"discover", "subscribe", "readAppInfo"}
    PROVE  Request(op, 0, <<>>) \in Requests
<1>1. <<>> \in Seq(Int)
  BY EmptySeq
<1>2. 0 \in Int
  OBVIOUS
<1> QED  BY <1>1, <1>2, RequestType

\* A chunk is never longer than what is left of the image.
LEMMA ChunkInt ==
    ASSUME NEW off \in Int
    PROVE  /\ ChunkSize(off) \in Chunks
           /\ ChunkSize(off) \in Int
           /\ ChunkSize(off) <= ImageSize - off
BY ImageAssumption DEF ChunkSize, RestOfImage, Chunks

\* before the first packet nothing is on its way
LEMMA NoChunk == 0 \in Chunks
BY ImageAssumption DEF Chunks

-----------------------------------------------------------------------------
(* Helpers                                                                 *)

LEMMA TimerKept ==
    ASSUME NEW v \in Phone
    PROVE  Kept(v, StopTimer(v)) /\ Kept(v, StartTimer(v))
BY DEF Phone, Kept, StopTimer, StartTimer

LEMMA DeviceKept ==
    ASSUME NEW v \in Phone
    PROVE  Kept(v, ResetDevice(v)) /\ Kept(v, ForgetServices(v))
BY DEF Phone, Kept, ResetDevice, ForgetServices

Events == {"start", "stop", "upload", "connection", "service",
           "notification", "value", "timeout"}

LEMMA PostKept ==
    ASSUME NEW v \in Phone, NEW ev \in Events, NEW r \in Results
    PROVE  Kept(v, Post(v, ev, r))
<1>1. Block(ev, r) \in Blocks
  BY DEF Block, Blocks, Events
<1>2. v.mainQ \in Seq(Blocks)
  BY DEF Phone
<1>3. Append(v.mainQ, Block(ev, r)) \in Seq(Blocks)
  BY <1>1, <1>2, AppendType
<1> QED  BY <1>3 DEF Phone, Kept, Post

\* a request joins those under way
LEMMA AskKept ==
    ASSUME NEW v \in Phone, NEW q \in Requests
    PROVE  Kept(v, [v EXCEPT !.att = Append(@, q)])
<1>1. v.att \in Seq(Requests)
  BY DEF Phone
<1>2. Append(v.att, q) \in Seq(Requests)
  BY <1>1, AppendType
<1> QED  BY <1>2 DEF Phone, Kept

LEMMA WriteKept ==
    ASSUME NEW v \in Phone, NEW op \in Commands
    PROVE  Kept(v, Write(v, op))
<1> DEFINE off == IF op = "data" THEN v.fwOffset ELSE 0
           crc == IF op = "verify" THEN v.fwCrc32 ELSE <<>>
<1>1. off \in Int /\ crc \in Seq(Int)
  BY EmptySeq DEF Phone
<1>2. Request(op, off, crc) \in Requests
  BY <1>1, RequestType
<1>3. Append(v.att, Request(op, off, crc)) \in Seq(Requests)
  BY <1>2, AppendType DEF Phone
<1> QED  BY <1>3 DEF Phone, Kept, Write

LEMMA DfuStopKept ==
    ASSUME NEW v \in Phone
    PROVE  Kept(v, otaUpgradeDfuStop(v))
<1> DEFINE x == IF v.hasConnected
                   /\ StateNo[v.state] \in StateNo.prepareForDownload .. StateNo.verify
                THEN Post(v, "stop", "success") ELSE v
<1>1. Kept(v, Post(v, "stop", "success"))
  BY PostKept DEF Events, Results
<1>2. Kept(v, v)
  BY DEF Kept
<1>3. Kept(v, x)
  BY <1>1, <1>2
<1>4. ASSUME NEW w \in Phone
      PROVE  Kept(w, MeshDfuStop(w))
  <2> DEFINE t == [w EXCEPT !.dfuLib = "idle", !.meshDfuState = "INIT"]
  <2>1. t \in Phone
    BY DEF Phone
  <2>2. /\ t.state = w.state /\ t.completeError = w.completeError
        /\ t.isOtaUpgradeRunning = w.isOtaUpgradeRunning /\ t.posted = w.posted
    BY DEF Phone
  <2>3. MeshDfuStop(w) \in {t, w}
    BY DEF MeshDfuStop
  <2> HIDE DEF t
  <2> QED  BY <2>1, <2>2, <2>3 DEF Kept
<1>5. Kept(v, MeshDfuStop(x))
  <2> HIDE DEF x
  <2> QED  BY <1>3, <1>4 DEF Kept
<1> QED  BY <1>2, <1>5 DEF otaUpgradeDfuStop

-----------------------------------------------------------------------------
(* Completion and abort                                                    *)

\* Whatever the state it is called in, the completion ends the upgrade with
\* the one notification its error calls for.
LEMMA CompleteEnds ==
    ASSUME NEW v \in Phone
    PROVE  /\ Complete(v) \in Phone
           /\ Complete(v).state = "complete"
           /\ ~Complete(v).isOtaUpgradeRunning
           /\ Complete(v).completeError = v.completeError
           /\ Complete(v).posted =
                 Append(v.posted, IF v.completeError = "none" THEN "success" ELSE "failure")
<1> DEFINE s == StopTimer(v)
           r == IF v.completeError = "none" THEN "success" ELSE "failure"
           lib == IF ~v.isOtaTransferForDfu \/ v.dfuLib # "uploading" THEN v.dfuLib
                  ELSE IF v.completeError = "none" THEN "uploaded" ELSE "failed"
           a == [s EXCEPT !.state = "complete", !.posted = Append(v.posted, r),
                          !.dfuLib = lib, !.isOtaTransferForDfu = FALSE]
           b == IF a.isOtaAbortForDfu \/ a.completeError # "none"
                THEN [otaUpgradeDfuStop(a) EXCEPT !.isOtaAbortForDfu = FALSE] ELSE a
<1>1. s \in Phone /\ s.completeError = v.completeError
  BY TimerKept DEF Kept
<1>2. Append(v.posted, r) \in Seq({"success", "failure"})
  BY AppendType DEF Phone
<1>3. lib \in {"idle", "started", "uploading", "uploaded", "failed"}
  BY DEF Phone
<1>4. /\ a \in Phone /\ a.state = "complete" /\ a.posted = Append(v.posted, r)
      /\ a.completeError = v.completeError
  <2> HIDE DEF s, r, lib
  <2>1. "complete" \in OtaState
    BY StatesListed
  <2>2. a \in Phone
    BY <1>1, <1>2, <1>3, <2>1 DEF Phone
  <2>3. a.state = "complete" /\ a.completeError = s.completeError
    BY <1>1 DEF Phone
  <2>4. a.posted = Append(v.posted, r)
    BY <1>1 DEF Phone
  <2> QED  BY <1>1, <2>2, <2>3, <2>4
<1>5. Kept(a, otaUpgradeDfuStop(a))
  BY <1>4, DfuStopKept
<1>6. /\ b \in Phone /\ b.state = "complete" /\ b.posted = Append(v.posted, r)
      /\ b.completeError = v.completeError
  <2> HIDE DEF a
  <2>1. [otaUpgradeDfuStop(a) EXCEPT !.isOtaAbortForDfu = FALSE] \in Phone
    BY <1>5 DEF Kept, Phone
  <2> QED  BY <1>4, <1>5, <2>1 DEF Kept, Phone
<1>7. Complete(v) = Release(b)
  BY DEF Complete, StopTimer, Phone
<1> HIDE DEF b
<1>8. Release(b) \in Phone
  BY <1>6 DEF Release, Phone
<1>9. /\ Release(b).state = b.state /\ ~Release(b).isOtaUpgradeRunning
      /\ Release(b).completeError = b.completeError /\ Release(b).posted = b.posted
  BY <1>6 DEF Release, Phone
<1> QED  BY <1>6, <1>7, <1>8, <1>9

LEMMA SetError ==
    ASSUME NEW v \in Phone, NEW err \in Errors
    PROVE  LET w == [v EXCEPT !.completeError = err]
           IN  Same(v, w) /\ w.state = v.state /\ w.completeError = err
BY DEF Phone, Same

LEMMA SetState ==
    ASSUME NEW v \in Phone, NEW s \in OtaState
    PROVE  LET w == [v EXCEPT !.state = s]
           IN  Same(v, w) /\ w.state = s /\ w.completeError = v.completeError
BY DEF Phone, Same

\* a command is entered: its state is assigned and its timer started
LEMMA Entered ==
    ASSUME NEW v \in Phone, NEW s \in OtaState
    PROVE  LET w == StartTimer([v EXCEPT !.state = s])
           IN  Same(v, w) /\ w.state = s /\ w.completeError = v.completeError
<1> DEFINE x == [v EXCEPT !.state = s]
<1>1. Same(v, x) /\ x.state = s /\ x.completeError = v.completeError
  BY SetState
<1>2. Kept(x, StartTimer(x))
  BY <1>1, TimerKept DEF Same
<1> QED  BY <1>1, <1>2 DEF Same, Kept

\* A step from a state that differs in nothing but its state and error.
LEMMA Through ==
    ASSUME NEW v, NEW x, NEW w, Same(v, x)
    PROVE  /\ Goes(x, w) => Goes(v, w)
           /\ Fails(x, w) => Fails(v, w)
           /\ Succeeds(x, w) => Succeeds(v, w)
           /\ Proceeds(x, w) => Proceeds(v, w)
           /\ Moves(x, w) => Moves(v, w)
BY DEF Same, Goes, Fails, Succeeds, Proceeds, Moves

LEMMA CompleteWithFails ==
    ASSUME NEW v \in Phone, NEW err \in Errors \ {"none"}
    PROVE  CompleteWith(v, err) \in Phone /\ Fails(v, CompleteWith(v, err))
<1> DEFINE x == [v EXCEPT !.completeError = err]
<1>1. Same(v, x) /\ x.completeError = err
  BY SetError
<1>2. CompleteWith(v, err) \in Phone /\ Fails(x, CompleteWith(v, err))
  <2> HIDE DEF x
  <2>1. Complete(x) \in Phone /\ Fails(x, Complete(x))
    BY <1>1, CompleteEnds DEF Same, Fails
  <2> QED  BY <2>1 DEF CompleteWith, x
<1> QED  BY <1>1, <1>2, Through

LEMMA AbortResponseFails ==
    ASSUME NEW v \in Phone, NEW r \in Results
    PROVE  otaAbortResponse(v, r) \in Phone /\ Fails(v, otaAbortResponse(v, r))
<1> DEFINE x == StopTimer(v)
           err == IF v.completeError # "none" THEN v.completeError
                  ELSE CASE r = "success" -> "aborted"
                         [] r = "failure" -> "response"
                         [] r = "error"   -> "write"
<1>1. Same(v, x)
  BY TimerKept DEF Kept, Same
<1>2. err \in Errors \ {"none"}
  BY DEF Results, Errors, Phone
<1>3. otaAbortResponse(v, r) = CompleteWith(x, err)
  BY DEF otaAbortResponse
<1> HIDE DEF x, err
<1> QED  BY <1>1, <1>2, <1>3, CompleteWithFails, Through DEF Same

LEMMA AbortProceeds ==
    ASSUME NEW v \in Phone
    PROVE  Proceeds(v, otaAbort(v))
<1> DEFINE x == StartTimer([v EXCEPT !.state = "abort"])
<1>1. Same(v, x) /\ x.state = "abort"
  BY Entered, StatesListed
<1>2. otaAbort(v) = IF CanWrite(x) THEN Write(x, "abort") ELSE otaAbortResponse(x, "error")
  BY DEF otaAbort
<1> HIDE DEF x
<1>3. Kept(x, Write(x, "abort"))
  BY <1>1, WriteKept DEF Same, Commands
<1>4. Proceeds(x, Write(x, "abort"))
  BY <1>1, <1>3 DEF Kept, Proceeds, Goes
<1>5. Proceeds(x, otaAbortResponse(x, "error"))
  BY <1>1, AbortResponseFails DEF Same, Proceeds, Results
<1> QED  BY <1>1, <1>2, <1>4, <1>5, Through

LEMMA AbortWithProceeds ==
    ASSUME NEW v \in Phone, NEW err \in Errors
    PROVE  Proceeds(v, AbortWith(v, err))
<1> DEFINE x == [v EXCEPT !.completeError = err]
<1>1. Same(v, x)
  BY SetError
<1>2. Proceeds(x, otaAbort(x))
  BY <1>1, AbortProceeds DEF Same
<1> QED  BY <1>1, <1>2, Through DEF AbortWith


-----------------------------------------------------------------------------
(* The commands, innermost first                                           *)

LEMMA StopTimerSame ==
    ASSUME NEW v \in Phone
    PROVE  Same(v, StopTimer(v)) /\ StopTimer(v).completeError = v.completeError
BY TimerKept DEF Kept, Same

\* a command that was entered and written
LEMMA WrittenGoes ==
    ASSUME NEW x \in Phone, NEW op \in Commands, x.state \notin {"idle", "complete"}
    PROVE  Proceeds(x, Write(x, op))
BY WriteKept DEF Kept, Proceeds, Goes

\* Only the success answer to the verification can end in success, and only
\* in an upgrade that is running.
LEMMA VerifyResponseMoves ==
    ASSUME NEW v \in Phone, NEW r \in Results
    PROVE  /\ r # "success" => Proceeds(v, otaVerifyResponse(v, r))
           /\ v.isOtaUpgradeRunning => Moves(v, otaVerifyResponse(v, r))
<1> DEFINE x == StopTimer(v)
<1>1. Same(v, x) /\ x.completeError = v.completeError
  BY StopTimerSame
<1>2. otaVerifyResponse(v, r) = CASE r = "success" -> Complete(x)
                                  [] r = "failure" -> AbortWith(x, "verification")
                                  [] r = "error"   -> AbortWith(x, "write")
  BY DEF otaVerifyResponse
<1> HIDE DEF x
<1>3. Proceeds(x, AbortWith(x, "verification")) /\ Proceeds(x, AbortWith(x, "write"))
  BY <1>1, AbortWithProceeds DEF Same, Errors
<1>4. v.isOtaUpgradeRunning => Moves(x, Complete(x))
  BY <1>1, CompleteEnds DEF Same, Moves, Fails, Succeeds
<1>5. CASE r = "success"
  BY <1>1, <1>2, <1>4, <1>5, Through
<1>6. CASE r # "success"
  <2>1. Proceeds(x, otaVerifyResponse(v, r))
    BY <1>2, <1>3, <1>6 DEF Results
  <2> QED  BY <1>1, <1>6, <2>1, Through DEF Proceeds, Moves
<1> QED  BY <1>5, <1>6

LEMMA VerifyProceeds ==
    ASSUME NEW v \in Phone
    PROVE  Proceeds(v, otaVerify(v))
<1> DEFINE x == StartTimer([v EXCEPT !.state = "verify"])
<1>1. Same(v, x) /\ x.state = "verify"
  BY Entered, StatesListed
<1>2. otaVerify(v) = IF CanWrite(x) THEN Write(x, "verify") ELSE otaVerifyResponse(x, "error")
  BY DEF otaVerify
<1> HIDE DEF x
<1>3. Proceeds(x, Write(x, "verify"))
  BY <1>1, WrittenGoes DEF Same, Commands
<1>4. Proceeds(x, otaVerifyResponse(x, "error"))
  BY <1>1, VerifyResponseMoves DEF Same, Results
<1> QED  BY <1>1, <1>2, <1>3, <1>4, Through

LEMMA TransferProceeds ==
    ASSUME NEW v \in Phone
    PROVE  Proceeds(v, otaTransferData(v))
<1> DEFINE n == ChunkSize(v.fwOffset)
           w == [v EXCEPT !.state = "dataTransfer", !.transferringSize = n]
           h == [w EXCEPT !.fwCrc32 = Append(@, v.fwOffset)]
           x == StartTimer(h)
           e == [StopTimer(w) EXCEPT !.fwOffset = ImageSize]
<1>1. Same(v, w) /\ w.state = "dataTransfer"
  <2>1. n \in Chunks /\ "dataTransfer" \in OtaState
    BY ChunkInt, StatesListed DEF Phone
  <2> HIDE DEF n
  <2> QED  BY <2>1 DEF Phone, Same
<1>2. Same(v, h) /\ h.state = "dataTransfer"
  <2> HIDE DEF w
  <2>1. Append(w.fwCrc32, v.fwOffset) \in Seq(Int)
    BY <1>1, AppendType DEF Same, Phone
  <2>2. h \in Phone
    BY <1>1, <2>1 DEF Same, Phone
  <2>3. /\ h.state = w.state /\ h.posted = w.posted
        /\ h.isOtaUpgradeRunning = w.isOtaUpgradeRunning
    BY <1>1 DEF Same, Phone
  <2> QED  BY <1>1, <2>2, <2>3 DEF Same
<1>3. Same(v, x) /\ x.state = "dataTransfer"
  <2> HIDE DEF h
  <2> QED  BY <1>2, TimerKept DEF Same, Kept
<1>4. Same(v, e)
  <2> HIDE DEF w
  <2>1. Same(w, StopTimer(w))
    BY <1>1, StopTimerSame DEF Same
  <2>2. ImageSize \in Int
    BY ImageAssumption
  <2> QED  BY <1>1, <2>1, <2>2 DEF Same, Phone
<1>5. otaTransferData(v) = IF n > 0
                           THEN IF CanWrite(x) THEN Write(x, "data")
                                ELSE AbortWith(StopTimer(x), "write")
                           ELSE otaVerify(e)
  BY DEF otaTransferData
<1> HIDE DEF n, x, e
<1>6. Proceeds(x, Write(x, "data"))
  BY <1>3, WrittenGoes DEF Same, Commands
<1>7. Proceeds(x, AbortWith(StopTimer(x), "write"))
  <2>1. Same(x, StopTimer(x))
    BY <1>3, StopTimerSame DEF Same
  <2>2. Proceeds(StopTimer(x), AbortWith(StopTimer(x), "write"))
    BY <2>1, AbortWithProceeds DEF Same, Errors
  <2> QED  BY <2>1, <2>2, Through
<1>8. Proceeds(e, otaVerify(e))
  BY <1>4, VerifyProceeds DEF Same
<1> QED  BY <1>3, <1>4, <1>5, <1>6, <1>7, <1>8, Through

LEMMA StartResponseProceeds ==
    ASSUME NEW v \in Phone, NEW r \in Results
    PROVE  Proceeds(v, otaStartDownloadResponse(v, r))
<1> DEFINE x == StopTimer(v)
<1>1. Same(v, x)
  BY StopTimerSame
<1>2. otaStartDownloadResponse(v, r) = CASE r = "success" -> otaTransferData(x)
                                         [] r = "failure" -> AbortWith(x, "response")
                                         [] r = "error"   -> AbortWith(x, "write")
  BY DEF otaStartDownloadResponse
<1> HIDE DEF x
<1>3. /\ Proceeds(x, otaTransferData(x))
      /\ Proceeds(x, AbortWith(x, "response")) /\ Proceeds(x, AbortWith(x, "write"))
  BY <1>1, TransferProceeds, AbortWithProceeds DEF Same, Errors
<1>4. Proceeds(x, otaStartDownloadResponse(v, r))
  BY <1>2, <1>3 DEF Results
<1> QED  BY <1>1, <1>4, Through

LEMMA StartDownloadProceeds ==
    ASSUME NEW v \in Phone
    PROVE  Proceeds(v, otaStartDownload(v))
<1> DEFINE x == StartTimer([v EXCEPT !.state = "startDownload"])
<1>1. Same(v, x) /\ x.state = "startDownload"
  BY Entered, StatesListed
<1>2. otaStartDownload(v) =
        IF CanWrite(x) THEN Write(x, "start") ELSE otaStartDownloadResponse(x, "error")
  BY DEF otaStartDownload
<1> HIDE DEF x
<1>3. Proceeds(x, Write(x, "start"))
  BY <1>1, WrittenGoes DEF Same, Commands
<1>4. Proceeds(x, otaStartDownloadResponse(x, "error"))
  BY <1>1, StartResponseProceeds DEF Same, Results
<1> QED  BY <1>1, <1>2, <1>3, <1>4, Through

LEMMA PrepareResponseProceeds ==
    ASSUME NEW v \in Phone, NEW r \in Results
    PROVE  Proceeds(v, otaPrepareForDownloadResponse(v, r))
<1> DEFINE x == StopTimer(v)
<1>1. Same(v, x)
  BY StopTimerSame
<1>2. otaPrepareForDownloadResponse(v, r) =
        CASE r = "success" -> otaStartDownload(x)
          [] r = "failure" -> CompleteWith(x, "response")
          [] r = "error"   -> CompleteWith(x, "write")
  BY DEF otaPrepareForDownloadResponse
<1> HIDE DEF x
<1>3. /\ Proceeds(x, otaStartDownload(x))
      /\ Proceeds(x, CompleteWith(x, "response")) /\ Proceeds(x, CompleteWith(x, "write"))
  BY <1>1, StartDownloadProceeds, CompleteWithFails DEF Same, Errors, Proceeds
<1>4. Proceeds(x, otaPrepareForDownloadResponse(v, r))
  BY <1>2, <1>3 DEF Results
<1> QED  BY <1>1, <1>4, Through

LEMMA PrepareProceeds ==
    ASSUME NEW v \in Phone
    PROVE  Proceeds(v, otaPrepareForDownload(v))
<1> DEFINE x == StartTimer([v EXCEPT !.state = "prepareForDownload"])
<1>1. Same(v, x) /\ x.state = "prepareForDownload"
  BY Entered, StatesListed
<1>2. otaPrepareForDownload(v) =
        IF CanWrite(x) THEN Write(x, "prepare") ELSE otaPrepareForDownloadResponse(x, "error")
  BY DEF otaPrepareForDownload
<1> HIDE DEF x
<1>3. Proceeds(x, Write(x, "prepare"))
  BY <1>1, WrittenGoes DEF Same, Commands
<1>4. Proceeds(x, otaPrepareForDownloadResponse(x, "error"))
  BY <1>1, PrepareResponseProceeds DEF Same, Results
<1> QED  BY <1>1, <1>2, <1>3, <1>4, Through

LEMMA EnableNotificationGoes ==
    ASSUME NEW v \in Phone
    PROVE  Proceeds(v, otaEnableNotification(v))
<1> DEFINE x == StartTimer([v EXCEPT !.state = "enableNotification"])
<1>1. Same(v, x) /\ x.state = "enableNotification"
  BY Entered, StatesListed
<1>2. otaEnableNotification(v) =
        IF CanWrite(x) THEN [x EXCEPT !.att = Append(@, Request("subscribe", 0, <<>>))]
        ELSE Post(x, "notification", "error")
  BY DEF otaEnableNotification
<1> HIDE DEF x
<1>3. Request("subscribe", 0, <<>>) \in Requests
  BY BareRequestType
<1>4. Kept(x, [x EXCEPT !.att = Append(@, Request("subscribe", 0, <<>>))])
  BY <1>1, <1>3, AskKept DEF Same
<1>5. Kept(x, Post(x, "notification", "error"))
  BY <1>1, PostKept DEF Same, Events, Results
<1>6. Kept(x, otaEnableNotification(v))
  BY <1>2, <1>4, <1>5
<1> QED  BY <1>1, <1>6 DEF Same, Kept, Proceeds, Goes

LEMMA DiscoverGoes ==
    ASSUME NEW v \in Phone
    PROVE  Proceeds(v, discoverOtaServiceCharacteristics(v))
<1> DEFINE w == [v EXCEPT !.state = "otaServiceDiscover", !.isDeviceConnected = TRUE]
           x == StartTimer(w)
<1>1. Same(v, w) /\ w.state = "otaServiceDiscover"
  <2>1. "otaServiceDiscover" \in OtaState
    BY StatesListed
  <2> QED  BY <2>1 DEF Phone, Same
<1>2. Same(v, x) /\ x.state = "otaServiceDiscover"
  <2> HIDE DEF w
  <2> QED  BY <1>1, TimerKept DEF Same, Kept
<1>3. discoverOtaServiceCharacteristics(v) =
        IF x.peripheral THEN [x EXCEPT !.att = Append(@, Request("discover", 0, <<>>))]
        ELSE Post(x, "service", "error")
  BY DEF discoverOtaServiceCharacteristics
<1> HIDE DEF x
<1>4. Request("discover", 0, <<>>) \in Requests
  BY BareRequestType
<1>5. Kept(x, [x EXCEPT !.att = Append(@, Request("discover", 0, <<>>))])
  BY <1>2, <1>4, AskKept DEF Same
<1>6. Kept(x, Post(x, "service", "error"))
  BY <1>2, PostKept DEF Same, Events, Results
<1>7. Kept(x, discoverOtaServiceCharacteristics(v))
  BY <1>3, <1>5, <1>6
<1> QED  BY <1>2, <1>7 DEF Same, Kept, Proceeds, Goes

LEMMA ConnectGoes ==
    ASSUME NEW v \in Phone
    PROVE  otaConnect(v) \in Phone /\ Goes(v, otaConnect(v))
<1> DEFINE x == StartTimer([v EXCEPT !.state = "connect"])
<1>1. Same(v, x) /\ x.state = "connect"
  BY Entered, StatesListed
<1>2. otaConnect(v) = IF v.adapter = "ble" THEN BleConnect(x) ELSE MeshConnect(x)
  BY DEF otaConnect
<1> HIDE DEF x
<1>3. Kept(x, BleConnect(x))
  <2>1. /\ Kept(x, Post(x, "connection", "error"))
        /\ Kept(x, Post(x, "connection", "success"))
    BY <1>1, PostKept DEF Same, Events, Results
  <2>2. Kept(x, [x EXCEPT !.link = "connecting"])
    BY <1>1 DEF Same, Kept, Phone
  <2>3. BleConnect(x) \in {Post(x, "connection", "error"), Post(x, "connection", "success"),
                           [x EXCEPT !.link = "connecting"]}
    BY DEF BleConnect
  <2> QED  BY <2>1, <2>2, <2>3
<1>4. Kept(x, MeshConnect(x))
  <2> DEFINE y == [x EXCEPT !.peripheral = FALSE]
  <2>1. Kept(x, y)
    BY <1>1 DEF Same, Kept, Phone
  <2>2. Kept(x, [x EXCEPT !.nodeConnecting = TRUE])
    BY <1>1 DEF Same, Kept, Phone
  <2>3. MeshConnect(x) \in {Post(x, "connection", "success"), Post(y, "connection", "error"),
                            [x EXCEPT !.nodeConnecting = TRUE]}
    BY DEF MeshConnect
  <2> HIDE DEF y
  <2>4. Kept(x, Post(x, "connection", "success")) /\ Kept(y, Post(y, "connection", "error"))
    BY <1>1, <2>1, PostKept DEF Same, Kept, Events, Results
  <2> QED  BY <2>1, <2>2, <2>3, <2>4 DEF Kept
<1> QED  BY <1>1, <1>2, <1>3, <1>4 DEF Same, Kept, Goes

\* The completion of an upgrade that is not running must carry its error.
LEMMA StateMachineMoves ==
    ASSUME NEW v \in Phone,
           v.state = "complete" => v.completeError # "none" \/ v.isOtaUpgradeRunning
    PROVE  Moves(v, stateMachineProcess(v))
<1> DEFINE x == [v EXCEPT !.isOtaUpgradeRunning = TRUE]
<1>1. CASE v.state = "idle"
  <2>1. x \in Phone /\ x.posted = v.posted /\ x.isOtaUpgradeRunning
    BY DEF Phone
  <2>2. stateMachineProcess(v) = otaConnect(x)
    BY <1>1 DEF stateMachineProcess
  <2> HIDE DEF x
  <2>3. otaConnect(x) \in Phone /\ Goes(x, otaConnect(x))
    BY <2>1, ConnectGoes
  <2> QED  BY <2>1, <2>2, <2>3 DEF Moves, Goes
<1>2. CASE v.state = "complete"
  <2>1. stateMachineProcess(v) = Complete(v)
    BY <1>2 DEF stateMachineProcess
  <2> QED  BY <1>2, <2>1, CompleteEnds DEF Moves, Fails, Succeeds
<1>3. CASE v.state \notin {"idle", "complete"}
  <2>1. Moves(v, v)
    BY <1>3 DEF Moves, Goes
  <2>2. stateMachineProcess(v) \in
          {otaConnect(v), discoverOtaServiceCharacteristics(v), v, otaEnableNotification(v),
           otaPrepareForDownload(v), otaStartDownload(v), otaTransferData(v),
           otaVerify(v), otaAbort(v)}
    BY <1>3, StatesListed DEF stateMachineProcess, Phone
  <2>3. \A w \in {discoverOtaServiceCharacteristics(v), otaEnableNotification(v),
                  otaPrepareForDownload(v), otaStartDownload(v), otaTransferData(v),
                  otaVerify(v), otaAbort(v)} : Proceeds(v, w)
    BY DiscoverGoes, EnableNotificationGoes, PrepareProceeds, StartDownloadProceeds,
       TransferProceeds, VerifyProceeds, AbortProceeds
  <2> QED  BY <2>1, <2>2, <2>3, ConnectGoes DEF Proceeds, Moves
<1> QED  BY <1>1, <1>2, <1>3

LEMMA TransferResponseMoves ==
    ASSUME NEW v \in Phone, v.isOtaUpgradeRunning, NEW r \in Results
    PROVE  Moves(v, otaTransferDataResponse(v, r))
<1> DEFINE y == StopTimer(v)
           x == [y EXCEPT !.fwOffset = @ + v.transferringSize]
<1>1. Same(v, y)
  BY StopTimerSame
<1>2. Same(v, x)
  <2> HIDE DEF y
  <2>1. y.fwOffset + v.transferringSize \in Int
    BY <1>1 DEF Same, Phone, Chunks
  <2>2. x \in Phone
    BY <1>1, <2>1 DEF Same, Phone
  <2>3. x.posted = y.posted /\ x.isOtaUpgradeRunning = y.isOtaUpgradeRunning
    BY <1>1 DEF Same, Phone
  <2> QED  BY <1>1, <2>2, <2>3 DEF Same
<1>3. otaTransferDataResponse(v, r) =
        IF r = "error" THEN AbortWith(y, "write")
        ELSE IF LastSent(x) THEN otaVerify(x) ELSE stateMachineProcess(x)
  BY DEF otaTransferDataResponse
<1> HIDE DEF x, y
<1>4. Moves(y, AbortWith(y, "write"))
  BY <1>1, AbortWithProceeds DEF Same, Errors, Proceeds, Moves
<1>5. Moves(x, otaVerify(x))
  BY <1>2, VerifyProceeds DEF Same, Proceeds, Moves
<1>6. Moves(x, stateMachineProcess(x))
  BY <1>2, StateMachineMoves DEF Same
<1> QED  BY <1>1, <1>2, <1>3, <1>4, <1>5, <1>6, Through

LEMMA CompletionMoves ==
    ASSUME NEW v \in Phone, v.isOtaUpgradeRunning, NEW op \in Commands, NEW r \in Results
    PROVE  Kept(v, RunCompletion(v, op, r)) \/ Moves(v, RunCompletion(v, op, r))
<1>1. CASE op = "data"
  BY <1>1, TransferResponseMoves DEF RunCompletion
<1>2. CASE op # "data" /\ r # "error"
  BY <1>2 DEF RunCompletion, Kept
<1>3. CASE op # "data" /\ r = "error"
  <2>1. /\ Proceeds(v, otaPrepareForDownloadResponse(v, r))
        /\ Proceeds(v, otaStartDownloadResponse(v, r))
        /\ Proceeds(v, otaVerifyResponse(v, r))
        /\ Proceeds(v, otaAbortResponse(v, r))
    BY <1>3, PrepareResponseProceeds, StartResponseProceeds, VerifyResponseMoves,
       AbortResponseFails DEF Proceeds
  <2>2. RunCompletion(v, op, r) \in
          {otaPrepareForDownloadResponse(v, r), otaStartDownloadResponse(v, r),
           otaVerifyResponse(v, r), otaAbortResponse(v, r)}
    BY <1>3 DEF RunCompletion, Commands
  <2> QED  BY <2>1, <2>2 DEF Proceeds, Moves
<1> QED  BY <1>1, <1>2, <1>3

-----------------------------------------------------------------------------
(* The blocks of the main queue                                            *)

\* the two failures a time-out of connecting or discovering notifies
FailsTwice(v, w) == /\ w.state = "complete"
                    /\ ~w.isOtaUpgradeRunning
                    /\ w.posted = Append(Append(v.posted, "failure"), "failure")

Runs(v, w) == \/ Same(v, w) /\ w.state = v.state
              \/ Moves(v, w)
              \/ w \in Phone /\ FailsTwice(v, w)

LEMMA KeptRuns ==
    ASSUME NEW v, NEW w, Kept(v, w)
    PROVE  Runs(v, w)
BY DEF Kept, Same, Runs

LEMMA RunsThrough ==
    ASSUME NEW v, NEW x, NEW w, Same(v, x), x.state = v.state, Runs(x, w)
    PROVE  Runs(v, w)
BY Through DEF Runs, Same, FailsTwice

LEMMA StartBlockMoves ==
    ASSUME NEW v \in Phone
    PROVE  Moves(v, StartBlock(v))
<1> DEFINE x == [v EXCEPT !.state = "idle"]
<1>1. Same(v, x) /\ x.state = "idle"
  BY SetState, StatesListed
<1>2. StartBlock(v) = stateMachineProcess(x)
  BY DEF StartBlock
<1> HIDE DEF x
<1>3. Moves(x, stateMachineProcess(x))
  BY <1>1, StateMachineMoves DEF Same
<1> QED  BY <1>1, <1>2, <1>3, Through

LEMMA StopBlockMoves ==
    ASSUME NEW v \in Phone
    PROVE  Moves(v, StopBlock(v))
<1> DEFINE flag == IF v.dfuType = "app" THEN v.isOtaAbortForDfu ELSE TRUE
           x == [v EXCEPT !.isOtaAbortForDfu = flag]
<1>1. flag \in BOOLEAN
  BY DEF Phone
<1>2. Same(v, x)
  <2> HIDE DEF flag
  <2> QED  BY <1>1 DEF Same, Phone
<1>3. StopBlock(v) = otaAbort(x)
  BY DEF StopBlock
<1> HIDE DEF x
<1>4. Moves(x, otaAbort(x))
  BY <1>2, AbortProceeds DEF Same, Proceeds, Moves
<1> QED  BY <1>2, <1>3, <1>4, Through

LEMMA UploadBlockMoves ==
    ASSUME NEW v \in Phone
    PROVE  Moves(v, UploadBlock(v))
<1> DEFINE x == [v EXCEPT !.isOtaTransferForDfu = TRUE]
<1>1. Same(v, x)
  BY DEF Same, Phone
<1>2. UploadBlock(v) = otaEnableNotification(x)
  BY DEF UploadBlock
<1> HIDE DEF x
<1>3. Moves(x, otaEnableNotification(x))
  BY <1>1, EnableNotificationGoes DEF Same, Proceeds, Moves
<1> QED  BY <1>1, <1>2, <1>3, Through

\* the failure a lost connection is turned into
LEMMA LostSame ==
    ASSUME NEW v \in Phone
    PROVE  LET x == [ForgetServices(StopTimer(v)) EXCEPT !.completeError = "connect"]
           IN  Same(v, x) /\ x.completeError = "connect"
<1> DEFINE y == ForgetServices(StopTimer(v))
<1>1. Kept(v, y)
  BY TimerKept, DeviceKept DEF Kept
<1>2. "connect" \in Errors
  BY DEF Errors
<1> HIDE DEF y
<1>3. LET x == [y EXCEPT !.completeError = "connect"]
      IN  Same(y, x) /\ x.completeError = "connect"
  BY <1>1, <1>2, SetError DEF Kept
<1> QED  BY <1>1, <1>3 DEF Kept, Same, y

LEMMA ConnectionRuns ==
    ASSUME NEW v \in Phone, NEW isConnected \in BOOLEAN
    PROVE  LET w == _didUpdateConnectionState(v, isConnected)
           IN  /\ Kept(v, w) \/ (v.isOtaUpgradeRunning /\ Moves(v, w))
               /\ v.state = "connect" /\ ~isConnected =>
                     Kept(v, w) \/ (v.isOtaUpgradeRunning /\ Proceeds(v, w))
<1> DEFINE s == StopTimer(v)
           x == [ForgetServices(s) EXCEPT !.completeError = "connect"]
           y == otaVerifyResponse(v, "success")
           z == [y EXCEPT !.hasConnected = FALSE]
           c == [s EXCEPT !.hasConnected = TRUE, !.peripheral = (v.link = "up"),
                          !.delayed = @ + 1]
           w == _didUpdateConnectionState(v, isConnected)
<1>1. Kept(v, ForgetServices(v))
  BY DeviceKept
<1>2. Same(v, x) /\ x.completeError = "connect"
  BY LostSame
<1>3. v.isOtaUpgradeRunning => Moves(v, z)
  <2> HIDE DEF y
  <2>1. v.isOtaUpgradeRunning => Moves(v, y)
    BY VerifyResponseMoves DEF Results, y
  <2>2. y \in Phone => Kept(y, z)
    BY DEF Phone, Kept
  <2> HIDE DEF z
  <2> QED  BY <2>1, <2>2 DEF Moves, Kept, Goes, Fails, Succeeds
<1>4. Kept(v, c)
  <2>1. Kept(v, s)
    BY TimerKept
  <2> HIDE DEF s
  <2>2. s.delayed + 1 \in Nat
    BY <2>1 DEF Kept, Phone
  <2>3. c \in Phone
    BY <2>1, <2>2 DEF Kept, Phone
  <2>4. /\ c.state = s.state /\ c.completeError = s.completeError
        /\ c.isOtaUpgradeRunning = s.isOtaUpgradeRunning /\ c.posted = s.posted
    BY <2>1 DEF Kept, Phone
  <2> HIDE DEF c
  <2> QED  BY <2>1, <2>3, <2>4 DEF Kept
<1>5. w = IF ~v.isOtaUpgradeRunning \/ v.state = "idle" THEN ForgetServices(v)
          ELSE IF v.state = "verify" /\ v.timer /\ ~isConnected THEN z
          ELSE IF ~isConnected
               THEN IF StateNo[v.state] > StateNo.enableNotification
                    THEN otaAbort(x) ELSE Complete(x)
          ELSE c
  BY DEF _didUpdateConnectionState
<1> HIDE DEF w, x, z, c
<1>6. Proceeds(v, otaAbort(x)) /\ Proceeds(v, Complete(x))
  <2>1. Proceeds(x, otaAbort(x))
    BY <1>2, AbortProceeds DEF Same
  <2>2. Proceeds(x, Complete(x))
    BY <1>2, CompleteEnds DEF Same, Proceeds, Fails
  <2> QED  BY <1>2, <2>1, <2>2, Through
<1>7. CASE ~v.isOtaUpgradeRunning \/ v.state = "idle"
  BY <1>1, <1>5, <1>7 DEF w
<1>8. CASE v.isOtaUpgradeRunning /\ v.state # "idle"
  <2>1. w \in {z, otaAbort(x), Complete(x), c}
    BY <1>5, <1>8
  <2>2. Kept(v, w) \/ Moves(v, w)
    BY <1>3, <1>4, <1>6, <1>8, <2>1 DEF Proceeds, Moves
  <2>3. v.state = "connect" /\ ~isConnected => w \in {otaAbort(x), Complete(x)}
    BY <1>5, <1>8
  <2> QED  BY <1>6, <1>8, <2>2, <2>3 DEF w
<1> QED  BY <1>7, <1>8

LEMMA ServiceRuns ==
    ASSUME NEW v \in Phone, NEW isDiscovered \in BOOLEAN
    PROVE  LET w == _didUpdateOtaServiceCharacteristicState(v, isDiscovered)
           IN  Kept(v, w) \/ (v.isOtaUpgradeRunning /\ Proceeds(v, w))
<1> DEFINE x == StopTimer(v)
           w == _didUpdateOtaServiceCharacteristicState(v, isDiscovered)
<1>1. Same(v, x)
  BY StopTimerSame
<1>2. w = IF ~v.isOtaUpgradeRunning \/ ~v.isDeviceConnected \/ v.state # "otaServiceDiscover"
          THEN v
          ELSE IF isDiscovered THEN otaEnableNotification(x) ELSE CompleteWith(x, "discover")
  BY DEF _didUpdateOtaServiceCharacteristicState
<1> HIDE DEF x, w
<1>3. Proceeds(x, otaEnableNotification(x)) /\ Proceeds(x, CompleteWith(x, "discover"))
  BY <1>1, EnableNotificationGoes, CompleteWithFails DEF Same, Proceeds, Errors
<1>4. Proceeds(v, otaEnableNotification(x)) /\ Proceeds(v, CompleteWith(x, "discover"))
  BY <1>1, <1>3, Through
<1>5. Kept(v, v)
  BY DEF Kept
<1>6. CASE v.isOtaUpgradeRunning
  <2>1. w \in {v, otaEnableNotification(x), CompleteWith(x, "discover")}
    BY <1>2
  <2> QED  BY <1>4, <1>5, <1>6, <2>1 DEF w
<1>7. CASE ~v.isOtaUpgradeRunning
  BY <1>2, <1>5, <1>7 DEF w
<1> QED  BY <1>6, <1>7

LEMMA NotificationRuns ==
    ASSUME NEW v \in Phone, NEW isEnabled \in BOOLEAN
    PROVE  Runs(v, _didUpdateNotificationState(v, isEnabled))
<1> DEFINE x == StopTimer(v)
<1>1. Kept(v, x)
  BY TimerKept
<1>2. _didUpdateNotificationState(v, isEnabled) \in
        {x, otaPrepareForDownload(x), CompleteWith(x, "notification")}
  BY DEF _didUpdateNotificationState
<1> HIDE DEF x
<1>3. Moves(x, otaPrepareForDownload(x)) /\ Moves(x, CompleteWith(x, "notification"))
  BY <1>1, PrepareProceeds, CompleteWithFails DEF Kept, Proceeds, Moves, Errors
<1>4. Same(v, x)
  BY <1>1 DEF Kept, Same
<1> QED  BY <1>1, <1>2, <1>3, <1>4, Through, KeptRuns DEF Runs

LEMMA ValueRuns ==
    ASSUME NEW v \in Phone, NEW r \in Results
    PROVE  Runs(v, _didUpdateValueFor(v, r))
<1>1. CASE ~v.isOtaUpgradeRunning \/ ~v.isDeviceConnected
  BY <1>1 DEF _didUpdateValueFor, Runs, Same
<1>2. CASE v.isOtaUpgradeRunning /\ v.isDeviceConnected
  <2>1. _didUpdateValueFor(v, r) \in
          {otaPrepareForDownloadResponse(v, r), otaStartDownloadResponse(v, r),
           otaTransferDataResponse(v, r), otaVerifyResponse(v, r), otaAbortResponse(v, r), v}
    BY <1>2 DEF _didUpdateValueFor
  <2>2. /\ Moves(v, otaPrepareForDownloadResponse(v, r))
        /\ Moves(v, otaStartDownloadResponse(v, r))
        /\ Moves(v, otaAbortResponse(v, r))
    BY PrepareResponseProceeds, StartResponseProceeds, AbortResponseFails DEF Proceeds, Moves
  <2>3. Moves(v, otaTransferDataResponse(v, r)) /\ Moves(v, otaVerifyResponse(v, r))
    BY <1>2, TransferResponseMoves, VerifyResponseMoves
  <2>4. Kept(v, v)
    BY DEF Kept
  <2> QED  BY <2>1, <2>2, <2>3, <2>4, KeptRuns DEF Runs
<1> QED  BY <1>1, <1>2

\* The event a time-out is turned into is followed by one more run of the
\* state machine, which repeats the failure of an upgrade the event has ended.
LEMMA OnceMore ==
    ASSUME NEW v \in Phone, NEW x,
           v.state \notin {"idle", "complete"},
           Kept(v, x) \/ (v.isOtaUpgradeRunning /\ Proceeds(v, x))
    PROVE  Runs(v, stateMachineProcess(x))
<1>1. CASE Kept(v, x)
  <2>1. Moves(x, stateMachineProcess(x)) /\ Same(v, x)
    BY <1>1, StateMachineMoves DEF Kept, Same
  <2> QED  BY <2>1, Through DEF Runs
<1>2. CASE v.isOtaUpgradeRunning /\ x \in Phone /\ Goes(v, x)
  <2>1. Moves(x, stateMachineProcess(x)) /\ Same(v, x)
    BY <1>2, StateMachineMoves DEF Goes, Same, Phone
  <2> QED  BY <2>1, Through DEF Runs
<1>3. CASE x \in Phone /\ Fails(v, x)
  <2>1. stateMachineProcess(x) = Complete(x)
    BY <1>3 DEF Fails, stateMachineProcess
  <2>2. stateMachineProcess(x) \in Phone /\ FailsTwice(v, stateMachineProcess(x))
    BY <1>3, <2>1, CompleteEnds DEF Fails, FailsTwice
  <2> QED  BY <2>2 DEF Runs
<1> QED  BY <1>1, <1>2, <1>3 DEF Proceeds

LEMMA TimeoutRuns ==
    ASSUME NEW v \in Phone
    PROVE  Runs(v, _onOtaCommandTimeout(v))
<1> DEFINE err == IF v.completeError = "none" THEN "timeout" ELSE v.completeError
           x == [v EXCEPT !.completeError = err]
           c == _didUpdateConnectionState(x, FALSE)
           d == _didUpdateOtaServiceCharacteristicState(x, FALSE)
<1>1. Same(v, x) /\ x.state = v.state /\ x.completeError # "none"
  <2>1. err \in Errors /\ err # "none"
    BY DEF Errors, Phone
  <2> HIDE DEF err
  <2> QED  BY <2>1, SetError
<1>2. _onOtaCommandTimeout(v) = CASE v.state \in {"idle", "abort"} -> Complete(x)
                                  [] v.state = "connect" -> stateMachineProcess(c)
                                  [] v.state = "otaServiceDiscover" -> stateMachineProcess(d)
                                  [] OTHER -> otaAbort(x)
  <2>1. x = [v EXCEPT !.completeError = IF @ = "none" THEN "timeout" ELSE @]
    BY DEF Phone
  <2> QED  BY <2>1 DEF _onOtaCommandTimeout
<1> HIDE DEF x
<1>3. Runs(x, Complete(x)) /\ Runs(x, otaAbort(x))
  BY <1>1, CompleteEnds, AbortProceeds DEF Same, Runs, Proceeds, Moves, Fails
<1>4. v.state = "connect" => Runs(x, stateMachineProcess(c))
  BY <1>1, ConnectionRuns, OnceMore DEF Same
<1>5. v.state = "otaServiceDiscover" => Runs(x, stateMachineProcess(d))
  BY <1>1, ServiceRuns, OnceMore DEF Same
<1> HIDE DEF c, d
<1>6. Runs(x, _onOtaCommandTimeout(v))
  BY <1>2, <1>3, <1>4, <1>5
<1> QED  BY <1>1, <1>6, RunsThrough

LEMMA BlockRuns ==
    ASSUME NEW v \in Phone, NEW b \in Blocks
    PROVE  Runs(v, RunBlock(v, b))
<1>1. b.ev \in Events /\ b.r \in Results
  BY DEF Blocks, Events
<1>2. /\ Runs(v, StartBlock(v)) /\ Runs(v, StopBlock(v)) /\ Runs(v, UploadBlock(v))
  BY StartBlockMoves, StopBlockMoves, UploadBlockMoves DEF Runs
<1>3. Runs(v, _didUpdateConnectionState(v, b.r = "success"))
  BY ConnectionRuns, KeptRuns DEF Runs
<1>4. Runs(v, _didUpdateOtaServiceCharacteristicState(v, b.r = "success"))
  BY ServiceRuns, KeptRuns DEF Runs, Proceeds, Moves
<1>5. Runs(v, _didUpdateNotificationState(v, b.r = "success"))
  BY NotificationRuns
<1>6. Runs(v, _didUpdateValueFor(v, b.r)) /\ Runs(v, _onOtaCommandTimeout(v))
  BY <1>1, ValueRuns, TimeoutRuns
<1>7. RunBlock(v, b) \in
        {StartBlock(v), StopBlock(v), UploadBlock(v),
         _didUpdateConnectionState(v, b.r = "success"),
         _didUpdateOtaServiceCharacteristicState(v, b.r = "success"),
         _didUpdateNotificationState(v, b.r = "success"),
         _didUpdateValueFor(v, b.r), _onOtaCommandTimeout(v)}
  BY <1>1 DEF RunBlock, Events
<1> QED  BY <1>2, <1>3, <1>4, <1>5, <1>6, <1>7

-----------------------------------------------------------------------------
(* The steps                                                               *)

IInv == TypeOK /\ IdleIsNotRunning

\* what a step does to the phone, apart from a start and a reset
Steps == Runs(u, u')

LEMMA InitIInv == Init => IInv
<1> SUFFICES ASSUME Init PROVE IInv
  OBVIOUS
<1>1. <<>> \in Seq(Blocks) /\ <<>> \in Seq(Requests) /\ <<>> \in Seq(Int)
      /\ <<>> \in Seq({"success", "failure"})
      /\ <<>> \in Seq([pdu : {"reply", "notify"}, r : Results])
  BY EmptySeq
<1>2. u \in Phone
  <2>1. "idle" \in OtaState
    BY StatesListed
  <2> QED  BY <1>1, <2>1, NoChunk DEF Init, Phone, Errors
<1>3. dev \in [mode : {"idle", "ready", "download", "verified"}, got : Seq(Int)]
  BY <1>1 DEF Init, NoImage
<1>4. hist \in [starts : 0 .. MaxStarts, stops : 0 .. MaxStops, resets : 0 .. MaxResets,
                clean : BOOLEAN]
  BY BoundsAssumption DEF Init
<1>5. ~u.isOtaUpgradeRunning
  BY DEF Init
<1> QED  BY <1>1, <1>2, <1>3, <1>4, <1>5 DEF Init, IInv, TypeOK, IdleIsNotRunning

\* the variables other than the phone keep their types
Others == /\ dev \in [mode : {"idle", "ready", "download", "verified"}, got : Seq(Int)]
          /\ air \in Seq([pdu : {"reply", "notify"}, r : Results])
          /\ hist \in [starts : 0 .. MaxStarts, stops : 0 .. MaxStops,
                       resets : 0 .. MaxResets, clean : BOOLEAN]

LEMMA OpenPageStep ==
    ASSUME IInv, OpenPage
    PROVE  /\ Others'
           /\ u' \in Phone
           /\ ~u'.isOtaUpgradeRunning
           /\ u'.posted = u.posted
<1> DEFINE x == ResetDevice(u)
<1>1. Kept(u, x)
  BY DeviceKept DEF IInv, TypeOK
<1>2. u' = [x EXCEPT !.state = "idle", !.completeError = "none",
                     !.isOtaUpgradeRunning = FALSE, !.isDeviceConnected = FALSE,
                     !.meshDfuState = "INIT"]
  BY DEF OpenPage
<1> HIDE DEF x
<1>3. "idle" \in OtaState /\ "none" \in Errors
  BY StatesListed DEF Errors
<1>4. u' \in Phone
  BY <1>1, <1>2, <1>3 DEF Kept, Phone
<1>5. ~u'.isOtaUpgradeRunning /\ u'.posted = x.posted
  BY <1>1, <1>2 DEF Kept, Phone
<1>6. Others'
  BY BoundsAssumption DEF IInv, TypeOK, OpenPage, Others
<1> QED  BY <1>1, <1>4, <1>5, <1>6 DEF Kept

LEMMA StartStep ==
    ASSUME IInv, NEW dfuType \in DfuTypes, NEW new \in BOOLEAN, Start(dfuType, new)
    PROVE  /\ Others'
           /\ u' \in Phone
           /\ ~u.isOtaUpgradeRunning
           /\ u'.isOtaUpgradeRunning = u.isOtaUpgradeRunning
           /\ u'.posted = <<>>
<1> DEFINE d == IF new THEN [ResetDevice(u) EXCEPT !.peripheral = (u.adapter = "ble"),
                                                   !.completion = "none"]
                ELSE u
           x == NewImage(d, dfuType)
           y == [x EXCEPT !.meshDfuState = "INIT", !.dfuLib = "started"]
<1>1. Same(u, d)
  <2>1. Kept(u, ResetDevice(u))
    BY DeviceKept DEF IInv, TypeOK
  <2>2. ASSUME NEW v \in Phone
        PROVE  Same(v, [v EXCEPT !.peripheral = (u.adapter = "ble"), !.completion = "none"])
    BY DEF Same, Phone
  <2>3. Same(u, u)
    BY DEF IInv, TypeOK, Same
  <2> QED  BY <2>1, <2>2, <2>3 DEF Kept, Same
<1>2. /\ x \in Phone /\ x.posted = <<>>
      /\ x.isOtaUpgradeRunning = u.isOtaUpgradeRunning
  <2> HIDE DEF d
  <2>1. /\ dfuType \in {"app", "dfu"} /\ "none" \in Errors /\ 0 \in Int /\ 0 \in Chunks
        /\ <<>> \in Seq(Int) /\ <<>> \in Seq({"success", "failure"})
    BY DeviceAssumption, NoChunk, EmptySeq DEF Errors
  <2>2. x \in Phone
    BY <1>1, <2>1 DEF Same, Phone, NewImage
  <2>3. x.posted = <<>> /\ x.isOtaUpgradeRunning = d.isOtaUpgradeRunning
    BY <1>1 DEF Same, Phone, NewImage
  <2> QED  BY <1>1, <2>2, <2>3 DEF Same
<1>3. u' \in {Post(x, "start", "success"), y, x}
  <2>1. u.adapter \in Adapters
    BY DEF IInv, TypeOK, Phone
  <2>2. u.adapter \in {"ble", "mesh"} /\ dfuType \in {"app", "dfu"}
    BY <2>1, DeviceAssumption
  <2>3. x.network \in BOOLEAN
    BY <1>2 DEF Phone
  <2> QED  BY <2>2, <2>3 DEF Start
<1> HIDE DEF x
<1>4. Kept(x, Post(x, "start", "success")) /\ Kept(x, y) /\ Kept(x, x)
  <2>1. Kept(x, Post(x, "start", "success"))
    BY <1>2, PostKept DEF Events, Results
  <2>2. Kept(x, y)
    BY <1>2 DEF Kept, Phone
  <2> QED  BY <1>2, <2>1, <2>2 DEF Kept
<1>5. Kept(x, u')
  BY <1>3, <1>4
<1>6. ~u.isOtaUpgradeRunning
  BY DEF IInv, IdleIsNotRunning, Start, isUpgradeIdle
<1>7. Others'
  <2>1. hist.starts + 1 \in 0 .. MaxStarts
    BY BoundsAssumption DEF IInv, TypeOK, Start
  <2>2. Quiet \in BOOLEAN
    BY DEF Quiet
  <2>3. hist' = [hist EXCEPT !.starts = @ + 1, !.clean = Quiet] /\ UNCHANGED <<dev, air>>
    BY DEF Start
  <2> QED  BY <2>1, <2>2, <2>3 DEF IInv, TypeOK, Others
<1> QED  BY <1>2, <1>5, <1>6, <1>7 DEF Kept

LEMMA StopStep ==
    ASSUME IInv, Stop
    PROVE  Others' /\ Steps
<1>1. Kept(u, u')
  BY DfuStopKept DEF IInv, TypeOK, Stop
<1>2. Others'
  BY BoundsAssumption DEF IInv, TypeOK, Stop, Others
<1> QED  BY <1>1, <1>2, KeptRuns DEF Steps

LEMMA MeshLibraryStep ==
    ASSUME IInv, MeshLibrary
    PROVE  Others' /\ Steps
<1>1. u \in Phone /\ Others
  BY DEF IInv, TypeOK, Others
<1>2. CASE LibraryStartsUpload
  <2> DEFINE x == [u EXCEPT !.hasConnected = TRUE, !.characteristics = TRUE,
                            !.dfuLib = "uploading", !.meshDfuState = "UPLOAD"]
  <2>1. Kept(u, x)
    BY <1>1 DEF Kept, Phone
  <2>2. u' \in {x, Post(x, "upload", "success")}
    BY <1>2 DEF LibraryStartsUpload, PostIf
  <2> HIDE DEF x
  <2>3. Kept(x, Post(x, "upload", "success"))
    BY <2>1, PostKept DEF Kept, Events, Results
  <2>4. Kept(u, u')
    BY <2>1, <2>2, <2>3 DEF Kept
  <2> QED  BY <1>1, <1>2, <2>4, KeptRuns DEF Others, Steps, LibraryStartsUpload
<1>3. CASE LibraryReports
  <2> DEFINE m == IF u.dfuLib = "uploaded" THEN "COMPLETE" ELSE "FAILED"
  <2>1. u' = [u EXCEPT !.meshDfuState = m, !.dfuLib = "idle"]
    BY <1>3 DEF LibraryReports
  <2>2. m \in {"INIT", "UPLOAD", "COMPLETE", "FAILED"}
    OBVIOUS
  <2> HIDE DEF m
  <2>3. Kept(u, u')
    BY <1>1, <2>1, <2>2 DEF Kept, Phone
  <2> QED  BY <1>1, <1>3, <2>3, KeptRuns DEF Others, Steps, LibraryReports
<1>4. CASE NodeConnectState
  <2>1. PICK connected \in BOOLEAN :
          LET v == IF u.isOtaUpgradeRunning /\ connected /\ u.link # "up"
                   THEN ResetDevice(u) ELSE u
          IN  u' = Post([v EXCEPT !.nodeConnecting = FALSE, !.peripheral = connected,
                                  !.link = IF connected THEN "up" ELSE @],
                        "connection", IF connected THEN "success" ELSE "error")
    BY <1>4 DEF NodeConnectState
  <2> DEFINE v == IF u.isOtaUpgradeRunning /\ connected /\ u.link # "up"
                  THEN ResetDevice(u) ELSE u
             link == IF connected THEN "up" ELSE v.link
             x == [v EXCEPT !.nodeConnecting = FALSE, !.peripheral = connected, !.link = link]
             r == IF connected THEN "success" ELSE "error"
  <2>2. Kept(u, v)
    <3>1. Kept(u, ResetDevice(u)) /\ Kept(u, u)
      BY <1>1, DeviceKept DEF Kept
    <3> QED  BY <3>1
  <2>3. u' = Post(x, "connection", r)
    BY <2>1
  <2> HIDE DEF v
  <2>4. link \in {"down", "connecting", "up"} /\ r \in Results
    BY <2>2 DEF Kept, Phone, Results
  <2> HIDE DEF link, r
  <2>5. Kept(v, x)
    BY <2>2, <2>4 DEF Kept, Phone
  <2> HIDE DEF x
  <2>6. Kept(x, u')
    BY <2>3, <2>4, <2>5, PostKept DEF Kept, Events
  <2>7. Kept(u, u')
    BY <2>2, <2>5, <2>6 DEF Kept
  <2> QED  BY <1>1, <1>4, <2>7, KeptRuns DEF Others, Steps, NodeConnectState
<1> QED  BY <1>2, <1>3, <1>4 DEF MeshLibrary

\* A reply answers the oldest request, which is under way no longer.
LEMMA AnsweredKept ==
    ASSUME u \in Phone, u.att # <<>>
    PROVE  Kept(u, Answered)
<1>1. Tail(u.att) \in Seq(Requests)
  BY HeadTailProperties DEF Phone
<1> QED  BY <1>1 DEF Kept, Phone, Answered

LEMMA PostIfKept ==
    ASSUME NEW v \in Phone, NEW cond \in BOOLEAN, NEW ev \in Events, NEW r \in Results
    PROVE  Kept(v, PostIf(cond, v, ev, r))
BY PostKept DEF PostIf, Kept

LEMMA RoutedType ==
    ASSUME u \in Phone
    PROVE  Routed \in BOOLEAN /\ u.characteristics \in BOOLEAN
BY DEF Routed, Phone

\* the reply or notification at the head of the air
LEMMA AirTaken ==
    ASSUME Others, air # <<>>
    PROVE  /\ Head(air).r \in Results
           /\ Tail(air) \in Seq([pdu : {"reply", "notify"}, r : Results])
<1>1. /\ Head(air) \in [pdu : {"reply", "notify"}, r : Results]
      /\ Tail(air) \in Seq([pdu : {"reply", "notify"}, r : Results])
  BY HeadTailProperties DEF Others
<1> QED  BY <1>1

LEMMA LinkStep ==
    ASSUME IInv, DidConnect \/ DidFailToConnect \/ DidDisconnect
    PROVE  Others' /\ Steps
<1>1. u \in Phone /\ Others
  BY DEF IInv, TypeOK, Others
<1>2. CASE DidConnect
  <2> DEFINE v == [u EXCEPT !.link = "up"]
             x == [ResetDevice(v) EXCEPT !.peripheral = TRUE]
  <2>1. Kept(u, v)
    BY <1>1 DEF Kept, Phone
  <2>2. u' \in {v, Post(x, "connection", "success")}
    BY <1>2 DEF DidConnect
  <2> HIDE DEF v
  <2>3. Kept(v, ResetDevice(v))
    BY <2>1, DeviceKept DEF Kept
  <2>4. Kept(ResetDevice(v), x)
    BY <2>3 DEF Kept, Phone
  <2> HIDE DEF x
  <2>5. Kept(x, Post(x, "connection", "success"))
    BY <2>4, PostKept DEF Kept, Events, Results
  <2>6. Kept(u, u')
    BY <2>1, <2>2, <2>3, <2>4, <2>5 DEF Kept
  <2> QED  BY <1>1, <1>2, <2>6, KeptRuns DEF Others, Steps, DidConnect
<1>3. CASE DidFailToConnect
  <2> DEFINE v == [u EXCEPT !.link = "down"]
  <2>1. Kept(u, v)
    BY <1>1 DEF Kept, Phone
  <2>2. u' = PostIf(u.isOtaUpgradeRunning, ResetDevice(v), "connection", "error")
    BY <1>3 DEF DidFailToConnect
  <2> HIDE DEF v
  <2>3. Kept(v, ResetDevice(v))
    BY <2>1, DeviceKept DEF Kept
  <2>4. Kept(ResetDevice(v), u')
    <3>1. u.isOtaUpgradeRunning \in BOOLEAN
      BY <1>1 DEF Phone
    <3> QED  BY <2>2, <2>3, <3>1, PostIfKept DEF Kept, Events, Results
  <2>5. Kept(u, u')
    BY <2>1, <2>3, <2>4 DEF Kept
  <2> QED  BY <1>1, <1>3, <2>5, KeptRuns DEF Others, Steps, DidFailToConnect
<1>4. CASE DidDisconnect
  <2> DEFINE v == [u EXCEPT !.link = "down", !.att = <<>>]
  <2>1. Kept(u, v)
    <3>1. <<>> \in Seq(Requests)
      BY EmptySeq
    <3> QED  BY <1>1, <3>1 DEF Kept, Phone
  <2>2. u' = PostIf(Routed, ResetDevice(v), "connection", "error")
    BY <1>4 DEF DidDisconnect
  <2> HIDE DEF v
  <2>3. Kept(v, ResetDevice(v))
    BY <2>1, DeviceKept DEF Kept
  <2>4. Kept(ResetDevice(v), u')
    BY <1>1, <2>2, <2>3, RoutedType, PostIfKept DEF Kept, Events, Results
  <2>5. Kept(u, u')
    BY <2>1, <2>3, <2>4 DEF Kept
  <2>6. Others'
    BY <1>1, <1>4, EmptySeq DEF Others, DidDisconnect, NoImage
  <2> QED  BY <2>5, <2>6, KeptRuns DEF Steps
<1> QED  BY <1>2, <1>3, <1>4

LEMMA DeviceStep ==
    ASSUME IInv, DeviceTakesRequest
    PROVE  Others' /\ Steps
<1> DEFINE q == Head(u.att)
           Pdus == [pdu : {"reply", "notify"}, r : Results]
           reply == [pdu |-> "reply", r |-> "success"]
           status == [pdu |-> "notify", r |-> DeviceStatus(dev, q)]
<1>1. u \in Phone /\ Others
  BY DEF IInv, TypeOK, Others
<1>2. u.att \in Seq(Requests) /\ u.att # <<>>
  BY <1>1 DEF Phone, DeviceTakesRequest
<1>3. q \in Requests
  BY <1>2, HeadTailProperties
<1>4. Kept(u, u')
  <2> DEFINE a == [u.att EXCEPT ![1].done = TRUE]
  <2>1. a \in Seq(Requests)
    <3>1. 1 \in 1 .. Len(u.att) /\ u.att[1] \in Requests
      BY <1>2, EmptySeq, ElementOfSeq
    <3>2. [u.att[1] EXCEPT !.done = TRUE] \in Requests
      BY <3>1 DEF Requests
    <3> QED  BY <1>2, <3>1, <3>2, ExceptSeq
  <2>2. u' = [u EXCEPT !.att = a]
    BY DEF DeviceTakesRequest
  <2> HIDE DEF a
  <2> QED  BY <1>1, <2>1, <2>2 DEF Kept, Phone
<1>5. /\ reply \in Pdus /\ status \in Pdus
      /\ \A r \in Results : [reply EXCEPT !.r = r] \in Pdus
  BY DEF Results, DeviceStatus
<1>6. DeviceAfter(dev, q) \in [mode : {"idle", "ready", "download", "verified"}, got : Seq(Int)]
  <2> DEFINE D == [mode : {"idle", "ready", "download", "verified"}, got : Seq(Int)]
             more == [dev EXCEPT !.got = Append(@, q.off)]
             fresh == [mode |-> "ready", got |-> <<>>]
             download == [dev EXCEPT !.mode = "download"]
             verified == [dev EXCEPT !.mode = "verified"]
             idle == [dev EXCEPT !.mode = "idle"]
  <2>1. q.off \in Int /\ dev \in D /\ dev.got \in Seq(Int)
    BY <1>1, <1>3 DEF Requests, Others
  <2>2. Append(dev.got, q.off) \in Seq(Int)
    BY <2>1, AppendType
  <2>3. <<>> \in Seq(Int)
    BY EmptySeq
  <2>4. fresh \in D /\ NoImage \in D
    BY <2>3 DEF NoImage
  <2>5. download \in D /\ verified \in D /\ idle \in D
    BY <2>1
  <2>6. more \in D
    BY <2>1, <2>2
  <2>7. DeviceAfter(dev, q) \in {fresh, NoImage, dev, download, verified, idle, more}
    BY DEF DeviceAfter
  <2> HIDE DEF D, fresh, download, verified, idle, more
  <2>8. DeviceAfter(dev, q) \in D
    BY <2>1, <2>4, <2>5, <2>6, <2>7
  <2> QED  BY <2>8 DEF D
<1>7. dev' \in {dev, DeviceAfter(dev, q)} /\ UNCHANGED hist
  BY DEF DeviceTakesRequest
<1>8. air' \in Seq(Pdus)
  <2>1. air \in Seq(Pdus)
    BY <1>1 DEF Others
  <2>2. ASSUME NEW x \in Pdus
        PROVE  Append(air, x) \in Seq(Pdus)
    BY <2>1, AppendType
  <2>3. <<reply, status>> \in Seq(Pdus) /\ <<status, reply>> \in Seq(Pdus)
    BY <1>5
  <2>4. air \o <<reply, status>> \in Seq(Pdus) /\ air \o <<status, reply>> \in Seq(Pdus)
    BY <2>1, <2>3, ConcatProperties
  <2>5. \/ \E r \in Results : air' = Append(air, [reply EXCEPT !.r = r])
        \/ air' \in {air \o <<reply, status>>, air \o <<status, reply>>, Append(air, reply)}
    BY DEF DeviceTakesRequest, Results
  <2> QED  BY <1>5, <2>2, <2>4, <2>5
<1>9. Others'
  BY <1>1, <1>6, <1>7, <1>8 DEF Others
<1> QED  BY <1>4, <1>9, KeptRuns DEF Steps

LEMMA CallbackStep ==
    ASSUME IInv, DidDiscover \/ DidUpdateNotificationState \/ DidUpdateValue
    PROVE  Others' /\ Steps
<1>1. u \in Phone /\ Others
  BY DEF IInv, TypeOK, Others
<1>2. air # <<>>
  BY DEF DidDiscover, DidUpdateNotificationState, DidUpdateValue, Replied, Arrives
<1>3. Others'
  BY <1>1, <1>2, AirTaken
     DEF Others, DidDiscover, DidUpdateNotificationState, DidUpdateValue
<1>4. ASSUME NEW v \in Phone
      PROVE  Kept(v, Disconnect(v))
  BY <1>4, PostKept DEF Disconnect, PostIf, Kept, Events, Results
<1>5. ASSUME NEW v \in Phone, NEW ev \in Events
      PROVE  /\ Kept(v, Post(v, ev, "success"))
             /\ Kept(v, Disconnect(Post(v, ev, "error")))
  <2>1. Kept(v, Post(v, ev, "success")) /\ Kept(v, Post(v, ev, "error"))
    BY <1>5, PostKept DEF Results
  <2> QED  BY <1>4, <2>1 DEF Kept
<1>6. CASE DidDiscover
  <2> DEFINE v == [Answered EXCEPT !.characteristics = TRUE]
             x == [v EXCEPT !.att = Append(@, Request("readAppInfo", 0, <<>>))]
  <2>1. Kept(u, Answered)
    BY <1>1, <1>6, AnsweredKept DEF DidDiscover, Replied
  <2>2. Kept(Answered, v)
    BY <2>1 DEF Kept, Phone
  <2>3. u' \in {Answered, Disconnect(Post(Answered, "service", "error")),
                Post(Answered, "service", "error"), x, Post(v, "service", "success")}
    BY <1>1, <1>2, <1>6, AirTaken, RoutedType DEF DidDiscover, Results
  <2> HIDE DEF v
  <2>4. Kept(v, x)
    BY <2>2, AskKept, BareRequestType DEF Kept
  <2>5. /\ Kept(Answered, Disconnect(Post(Answered, "service", "error")))
        /\ Kept(Answered, Post(Answered, "service", "error"))
        /\ Kept(v, Post(v, "service", "success"))
    BY <1>5, <2>1, <2>2, PostKept DEF Kept, Events, Results
  <2> HIDE DEF x
  <2>6. Kept(u, u')
    BY <2>1, <2>2, <2>3, <2>4, <2>5 DEF Kept
  <2> QED  BY <1>3, <2>6, KeptRuns DEF Steps
<1>7. CASE DidUpdateNotificationState
  <2>1. Kept(u, Answered)
    BY <1>1, <1>7, AnsweredKept DEF DidUpdateNotificationState, Replied
  <2>2. u' \in {Answered, Post(Answered, "notification", "success"),
                Disconnect(Post(Answered, "notification", "error"))}
    BY <1>7 DEF DidUpdateNotificationState
  <2>3. /\ Kept(Answered, Post(Answered, "notification", "success"))
        /\ Kept(Answered, Disconnect(Post(Answered, "notification", "error")))
    BY <1>5, <2>1 DEF Kept, Events
  <2>4. Kept(u, u')
    BY <2>1, <2>2, <2>3 DEF Kept
  <2> QED  BY <1>3, <2>4, KeptRuns DEF Steps
<1>8. CASE DidUpdateValue
  <2> DEFINE v == IF Arrives("notify") THEN u ELSE Answered
  <2>1. Kept(u, v)
    BY <1>1, <1>8, AnsweredKept DEF DidUpdateValue, Replied, Kept
  <2>2. u' = PostIf(Routed /\ u.characteristics, v, "value", Head(air).r)
    BY <1>8 DEF DidUpdateValue
  <2> HIDE DEF v
  <2>3. Kept(v, u')
    BY <1>1, <1>2, <2>1, <2>2, AirTaken, RoutedType, PostIfKept DEF Kept, Events
  <2>4. Kept(u, u')
    BY <2>1, <2>3 DEF Kept
  <2> QED  BY <1>3, <2>4, KeptRuns DEF Steps
<1> QED  BY <1>6, <1>7, <1>8

LEMMA WriteStep ==
    ASSUME IInv, DidWriteValue
    PROVE  Others' /\ Steps
<1> DEFINE x == [Answered EXCEPT !.completion = "none"]
<1>1. u \in Phone /\ Others /\ air # <<>>
  BY DEF IInv, TypeOK, Others, DidWriteValue, Replied, Arrives
<1>2. Others'
  BY <1>1, AirTaken DEF Others, DidWriteValue
<1>3. Kept(u, Answered)
  BY <1>1, AnsweredKept DEF DidWriteValue, Replied
<1>4. CASE Routed /\ u.characteristics /\ u.completion # "none"
  <2>1. Kept(Answered, x)
    BY <1>3 DEF Kept, Phone
  <2>2. u' = RunCompletion(x, u.completion, Head(air).r)
    BY <1>4 DEF DidWriteValue
  <2> HIDE DEF x
  <2>3. /\ x \in Phone /\ x.isOtaUpgradeRunning /\ Same(u, x) /\ x.state = u.state
    BY <1>3, <1>4, <2>1 DEF Routed, Kept, Same
  <2>4. u.completion \in Commands /\ Head(air).r \in Results
    BY <1>1, <1>4, AirTaken DEF Phone
  <2>5. Runs(x, u')
    BY <2>2, <2>3, <2>4, CompletionMoves, KeptRuns DEF Runs
  <2> QED  BY <1>2, <2>3, <2>5, RunsThrough DEF Steps
<1>5. CASE ~(Routed /\ u.characteristics /\ u.completion # "none")
  <2>1. u' = Answered
    BY <1>5 DEF DidWriteValue
  <2> QED  BY <1>2, <1>3, <2>1, KeptRuns DEF Steps
<1> QED  BY <1>4, <1>5

LEMMA RunLoopStep ==
    ASSUME IInv, RunLoop
    PROVE  Others' /\ Steps
<1>1. u \in Phone /\ Others
  BY DEF IInv, TypeOK, Others
<1>2. Others'
  BY <1>1 DEF Others, RunLoop, RunMainQueue, RunDelayed, TimerExpires
<1>3. CASE RunMainQueue
  <2> DEFINE x == [u EXCEPT !.mainQ = Tail(@)]
  <2>1. Head(u.mainQ) \in Blocks /\ Tail(u.mainQ) \in Seq(Blocks)
    BY <1>1, <1>3, HeadTailProperties DEF Phone, RunMainQueue
  <2>2. Kept(u, x)
    BY <1>1, <2>1 DEF Kept, Phone
  <2>3. u' = RunBlock(x, Head(u.mainQ))
    BY <1>3 DEF RunMainQueue
  <2> HIDE DEF x
  <2>4. Runs(x, u')
    BY <2>1, <2>2, <2>3, BlockRuns DEF Kept
  <2> QED  BY <1>2, <2>2, <2>4, RunsThrough DEF Kept, Same, Steps
<1>4. CASE RunDelayed
  <2> DEFINE x == [u EXCEPT !.delayed = @ - 1]
  <2>1. u.delayed - 1 \in Nat
    BY <1>1, <1>4 DEF Phone, RunDelayed
  <2>2. Kept(u, x)
    BY <1>1, <2>1 DEF Kept, Phone
  <2>3. u' = discoverOtaServiceCharacteristics(x)
    BY <1>4 DEF RunDelayed
  <2> HIDE DEF x
  <2>4. Runs(x, u')
    BY <2>2, <2>3, DiscoverGoes DEF Kept, Proceeds, Moves, Runs
  <2> QED  BY <1>2, <2>2, <2>4, RunsThrough DEF Kept, Same, Steps
<1>5. CASE TimerExpires
  <2>1. Kept(u, StopTimer(u))
    BY <1>1, TimerKept
  <2>2. Kept(StopTimer(u), u')
    BY <1>5, <2>1, PostKept DEF TimerExpires, Kept, Events, Results
  <2>3. Kept(u, u')
    BY <2>1, <2>2 DEF Kept
  <2> QED  BY <1>2, <2>3, KeptRuns DEF Steps
<1> QED  BY <1>3, <1>4, <1>5 DEF RunLoop

-----------------------------------------------------------------------------
(* The theorems                                                            *)

\* A step other than a start or a reset that keeps the types keeps the
\* agreement of state and running flag: it leaves both alone, or it goes to a
\* state in which an upgrade is served, or it ends the upgrade.
LEMMA RunsIInv ==
    ASSUME IInv, Others', Steps
    PROVE  IInv'
<1>1. u' \in Phone
  BY DEF Steps, Runs, Same, Moves
<1>2. TypeOK'
  BY <1>1 DEF Others, TypeOK
<1>3. ASSUME u'.state \in {"idle", "complete"}
      PROVE  ~u'.isOtaUpgradeRunning
  <2>1. CASE Same(u, u') /\ u'.state = u.state
    BY <1>3, <2>1 DEF IInv, IdleIsNotRunning, Same
  <2>2. CASE Moves(u, u')
    BY <1>3, <2>2 DEF Moves, Goes, Fails, Succeeds
  <2>3. CASE FailsTwice(u, u')
    BY <2>3 DEF FailsTwice
  <2> QED  BY <2>1, <2>2, <2>3 DEF Steps, Runs
<1>4. IdleIsNotRunning'
  BY <1>3 DEF IdleIsNotRunning
<1> QED  BY <1>2, <1>4 DEF IInv

\* Every action of the specification is a start, a reset or such a step.
LEMMA EveryStep ==
    ASSUME IInv, Next
    PROVE  \/ OpenPage
           \/ \E t \in DfuTypes, new \in BOOLEAN : Start(t, new)
           \/ Others' /\ Steps
<1>1. CASE User
  BY <1>1, StopStep DEF User
<1>2. CASE MeshLibrary
  BY <1>2, MeshLibraryStep
<1>3. CASE CoreBluetooth
  BY <1>3, LinkStep, DeviceStep, CallbackStep, WriteStep DEF CoreBluetooth
<1>4. CASE RunLoop
  BY <1>4, RunLoopStep
<1> QED  BY <1>1, <1>2, <1>3, <1>4 DEF Next

LEMMA StepIInv == IInv /\ [Next]_vars => IInv'
<1> SUFFICES ASSUME IInv, [Next]_vars PROVE IInv'
  OBVIOUS
<1>1. CASE OpenPage
  BY <1>1, OpenPageStep DEF IInv, TypeOK, IdleIsNotRunning, Others
<1>2. CASE \E t \in DfuTypes, new \in BOOLEAN : Start(t, new)
  <2>1. PICK t \in DfuTypes, new \in BOOLEAN : Start(t, new)
    BY <1>2
  <2>2. /\ Others' /\ u' \in Phone /\ ~u.isOtaUpgradeRunning
        /\ u'.isOtaUpgradeRunning = u.isOtaUpgradeRunning
    BY <2>1, StartStep
  <2> QED  BY <2>2 DEF IInv, TypeOK, IdleIsNotRunning, Others
<1>3. CASE Others' /\ Steps
  BY <1>3, RunsIInv
<1>4. CASE UNCHANGED vars
  BY <1>4 DEF vars, IInv, TypeOK, IdleIsNotRunning
<1> QED  BY <1>1, <1>2, <1>3, <1>4, EveryStep

\* Whatever the image, the device and the interleaving of callbacks, blocks
\* and time-outs, every variable keeps its type.
THEOREM TypeCorrect == Spec => []TypeOK
<1>1. IInv => TypeOK
  BY DEF IInv
<1> QED  BY InitIInv, StepIInv, <1>1, PTL DEF Spec

\* otaUpgradeDfuStart, which tests the state alone, never accepts a start
\* while CoreBluetooth callbacks are being routed to an upgrade.
THEOREM IdleNotRunning == Spec => []IdleIsNotRunning
<1>1. IInv => IdleIsNotRunning
  BY DEF IInv
<1> QED  BY InitIInv, StepIInv, <1>1, PTL DEF Spec

-----------------------------------------------------------------------------
(* The upgrader implements UpgradeReports                                  *)

LEMMA InitReports == Init => Page!Init
BY DEF Init, Page!Init

\* Starts and resets of the page are the only steps that are counted.
LEMMA OpenPageCounts ==
    ASSUME IInv, OpenPage
    PROVE  hist'.resets = hist.resets + 1 /\ hist'.starts = hist.starts
BY DEF IInv, TypeOK, OpenPage

LEMMA StartCounts ==
    ASSUME IInv, NEW t \in DfuTypes, NEW new \in BOOLEAN, Start(t, new)
    PROVE  hist'.starts = hist.starts + 1 /\ hist'.resets = hist.resets
BY DEF IInv, TypeOK, Start

LEMMA OthersCountNothing ==
    ASSUME IInv, Next
    PROVE  \/ OpenPage
           \/ \E t \in DfuTypes, new \in BOOLEAN : Start(t, new)
           \/ UNCHANGED <<hist.starts, hist.resets>>
<1>1. CASE Stop
  BY <1>1 DEF IInv, TypeOK, Stop
<1>2. CASE MeshLibrary \/ CoreBluetooth \/ RunLoop
  <2>1. UNCHANGED hist
    BY <1>2 DEF MeshLibrary, LibraryStartsUpload, LibraryReports, NodeConnectState,
                CoreBluetooth, DidConnect, DidFailToConnect, DidDisconnect,
                DeviceTakesRequest, DidDiscover, DidUpdateNotificationState,
                DidWriteValue, DidUpdateValue, RunLoop, RunMainQueue, RunDelayed,
                TimerExpires
  <2> QED  BY <2>1
<1> QED  BY <1>1, <1>2 DEF Next, User

LEMMA RunsReports ==
    ASSUME IInv, u' \in Phone, Steps, UNCHANGED <<hist.starts, hist.resets>>
    PROVE  [Page!Next]_(Page!vars)
<1>1. u.isOtaUpgradeRunning \in BOOLEAN /\ u'.isOtaUpgradeRunning \in BOOLEAN
  BY DEF IInv, TypeOK, Phone
<1>2. CASE Same(u, u')
  BY <1>2 DEF Same, Page!vars
<1>3. CASE Goes(u, u')
  <2>1. u'.posted = u.posted
    BY <1>3 DEF Goes
  <2>2. CASE u'.isOtaUpgradeRunning
    BY <1>1, <2>1, <2>2 DEF Page!Next, Page!Begin
  <2>3. CASE u'.isOtaUpgradeRunning = u.isOtaUpgradeRunning
    BY <2>1, <2>3 DEF Page!vars
  <2> QED  BY <1>3, <2>2, <2>3 DEF Goes
<1>4. CASE Fails(u, u') \/ FailsTwice(u, u')
  <2>1. u'.isOtaUpgradeRunning = FALSE
    BY <1>1, <1>4 DEF Fails, FailsTwice
  <2>2. u'.posted \in {Append(u.posted, "failure"),
                       Append(Append(u.posted, "failure"), "failure")}
    BY <1>4 DEF Fails, FailsTwice
  <2> QED  BY <2>1, <2>2 DEF Page!Next, Page!Fail
<1>5. CASE Succeeds(u, u')
  <2>1. u'.isOtaUpgradeRunning = FALSE
    BY <1>1, <1>5 DEF Succeeds
  <2> QED  BY <1>5, <2>1 DEF Succeeds, Page!Next, Page!Succeed
<1> QED  BY <1>2, <1>3, <1>4, <1>5 DEF Steps, Runs, Moves

LEMMA StepReports == IInv /\ [Next]_vars => [Page!Next]_(Page!vars)
<1> SUFFICES ASSUME IInv, [Next]_vars PROVE [Page!Next]_(Page!vars)
  OBVIOUS
<1>1. IInv'
  BY StepIInv
<1>2. u' \in Phone /\ u'.isOtaUpgradeRunning \in BOOLEAN
  BY <1>1 DEF IInv, TypeOK, Phone
<1>3. CASE OpenPage /\ hist'.resets = hist.resets + 1 /\ hist'.starts = hist.starts
  <2>1. u'.isOtaUpgradeRunning = FALSE /\ u'.posted = u.posted
    BY <1>2, <1>3, OpenPageStep
  <2> QED  BY <1>3, <2>1 DEF Page!Next, Page!Reset
<1>4. CASE \E t \in DfuTypes, new \in BOOLEAN :
              Start(t, new) /\ hist'.starts = hist.starts + 1 /\ hist'.resets = hist.resets
  <2>1. PICK t \in DfuTypes, new \in BOOLEAN :
           Start(t, new) /\ hist'.starts = hist.starts + 1 /\ hist'.resets = hist.resets
    BY <1>4
  <2>2. /\ ~u.isOtaUpgradeRunning /\ u'.posted = <<>>
        /\ u'.isOtaUpgradeRunning = u.isOtaUpgradeRunning
    BY <2>1, StartStep
  <2> QED  BY <2>1, <2>2 DEF Page!Next, Page!Request
<1>5. CASE Others' /\ Steps /\ UNCHANGED <<hist.starts, hist.resets>>
  BY <1>2, <1>5, RunsReports
<1>6. CASE UNCHANGED vars
  BY <1>6 DEF vars, Page!vars
<1>7. CASE Next
  <2>1. \/ OpenPage
        \/ \E t \in DfuTypes, new \in BOOLEAN : Start(t, new)
        \/ Others' /\ Steps
    BY <1>7, EveryStep
  <2>2. OpenPage => hist'.resets = hist.resets + 1 /\ hist'.starts = hist.starts
    BY OpenPageCounts
  <2>3. ASSUME NEW t \in DfuTypes, NEW new \in BOOLEAN, Start(t, new)
        PROVE  hist'.starts = hist.starts + 1 /\ hist'.resets = hist.resets
    BY <2>3, StartCounts
  <2>4. \/ OpenPage
        \/ \E t \in DfuTypes, new \in BOOLEAN : Start(t, new)
        \/ UNCHANGED <<hist.starts, hist.resets>>
    BY <1>7, OthersCountNothing
  <2> QED  BY <1>3, <1>4, <1>5, <2>1, <2>2, <2>3, <2>4
<1> QED  BY <1>6, <1>7

\* The upgrader implements the promise made to its page: success is notified
\* by the step that ends a running upgrade and by no other; an upgrade ends
\* with a notification unless that step is the page's own reset, which is the
\* opening or leaving of a page; a new start is accepted only when none runs.
THEOREM Refinement == Spec => ReportsKept
<1>1. Init /\ [][Next]_vars => []IInv
  BY InitIInv, StepIInv, PTL
<1> QED  BY <1>1, InitReports, StepReports, PTL DEF Spec, ReportsKept, Page!Spec

-----------------------------------------------------------------------------
(* What an upgrade that began quietly depends on                           *)

Some(s, E) == \E i \in 1 .. Len(s) : s[i] \in E
Once(s, E) == \A i, j \in 1 .. Len(s) : s[i] \in E /\ s[j] \in E => i = j

\* blocks, requests and answers by what they are about
On(evs) == {b \in Blocks : b.ev \in evs}
Good(ev) == {b \in Blocks : b.ev = ev /\ b.r = "success"}
Bad(ev) == {b \in Blocks : b.ev = ev /\ b.r # "success"}
Ask(ops) == {q \in Requests : q.op \in ops}
Undone == {q \in Requests : ~q.done}
Pdus == [pdu : {"reply", "notify"}, r : Results]
Notices == {p \in Pdus : p.pdu = "notify"}
GoodNotices == {p \in Notices : p.r = "success"}

\* the requests whose execution the device notifies the status of
Deciding == Ask({"prepare", "start", "verify"}) \cap Undone

Early == {"connect", "otaServiceDiscover", "enableNotification"}
Late == {"prepareForDownload", "startDownload", "dataTransfer", "verify"}
Command == [prepareForDownload |-> "prepare", startDownload |-> "start",
            dataTransfer |-> "data", verify |-> "verify"]

Going(s) == s.isOtaUpgradeRunning /\ s.completeError = "none"

\* the connection of this upgrade is made, and no other is on its way
Settled(s) == /\ s.isDeviceConnected /\ s.delayed = 0
              /\ ~s.nodeConnecting /\ s.link # "connecting"

\* the blocks that may wait; the report of a lost link does while it is lost
Lost(s) == IF s.link = "down" THEN Bad("connection") ELSE {}
Expected(s) ==
    On({"timeout"}) \cup
    CASE s.state = "connect"            -> On({"connection"})
      [] s.state = "otaServiceDiscover" -> On({"service", "value"}) \cup Lost(s)
      [] s.state = "enableNotification" -> On({"notification"}) \cup Lost(s)
      [] s.state \in Late               -> On({"value", "stop"}) \cup Lost(s)
      [] s.state = "abort"              -> On({"value", "stop"}) \cup Bad("connection")
      [] OTHER                          -> {}
Clear(s) == ~Some(s.mainQ, Blocks \ Expected(s))

\* the next block ends an upgrade that has not reached its commands
Final(s) == On({"timeout"}) \cup Bad("connection") \cup
            CASE s.state = "otaServiceDiscover" -> Bad("service")
              [] s.state = "enableNotification" -> Bad("notification")
              [] OTHER                          -> {}
Doomed(s) == /\ s.state \in Early /\ s.att = <<>> /\ s.delayed = 0
             /\ s.state # "connect" => s.isDeviceConnected
             /\ s.mainQ # <<>> /\ Head(s.mainQ) \in Final(s)

\* the link is being made, was made, or is given 500 ms
Connecting(s, a) ==
    /\ s.state = "connect" /\ ~s.isDeviceConnected
    /\ s.att = <<>> /\ ~Some(a, Notices)
    /\ Clear(s) /\ Once(s.mainQ, On({"connection"}))
    /\ s.delayed \in {0, 1}
    /\ Some(s.mainQ, On({"connection"})) =>
          s.delayed = 0 /\ ~s.nodeConnecting /\ s.link # "connecting"
    /\ s.delayed = 1 => ~s.nodeConnecting /\ s.link # "connecting"
    /\ s.nodeConnecting => s.link # "connecting"
    /\ s.fwOffset = 0 /\ s.fwCrc32 = <<>>

Discovering(s, a) ==
    /\ s.state = "otaServiceDiscover" /\ Settled(s) /\ Clear(s)
    /\ Len(s.att) =< 1 /\ ~Some(s.att, Requests \ Ask({"discover", "readAppInfo"}))
    /\ ~Some(a, Notices)
    /\ Once(s.mainQ, On({"service"}))
    /\ s.att # <<>> => ~Some(s.mainQ, On({"service"}))
    /\ Some(s.att, Ask({"discover"})) => ~Some(s.mainQ, On({"value"}))
    /\ ~(Some(s.mainQ, On({"service"})) /\ Some(s.mainQ, On({"value"})))
    /\ s.fwOffset = 0 /\ s.fwCrc32 = <<>>

Subscribing(s, a) ==
    /\ s.state = "enableNotification" /\ Settled(s) /\ Clear(s)
    /\ Len(s.att) =< 1 /\ ~Some(s.att, Requests \ Ask({"subscribe"}))
    /\ ~Some(a, Notices)
    /\ Once(s.mainQ, On({"notification"}))
    /\ s.att # <<>> => ~Some(s.mainQ, On({"notification"}))
    /\ s.fwOffset = 0 /\ s.fwCrc32 = <<>>

\* the part of the image that was handed over, its last packet unanswered
Packets(k) == [i \in 1 .. k |-> (i - 1) * MaxPacket]
Loaded(s) ==
    CASE s.state \in {"prepareForDownload", "startDownload"} ->
            s.fwOffset = 0 /\ s.fwCrc32 = <<>>
      [] s.state = "dataTransfer" ->
            LET k == Len(s.fwCrc32)
            IN  /\ k > 0 /\ s.fwCrc32 = Packets(k)
                /\ s.fwOffset = (k - 1) * MaxPacket
                /\ s.fwOffset < ImageSize
                /\ s.transferringSize = ChunkSize(s.fwOffset)
      [] s.state = "verify" -> s.fwOffset = ImageSize /\ s.fwCrc32 = ImageChunks
      [] OTHER -> FALSE

\* at most one verdict is to come, of the command the state stands for
OneVerdict(s, a) ==
    /\ ~Some(s.att, Deciding \ Ask({Command[s.state]}))
    /\ \A i \in 1 .. Len(s.att) : s.att[i] \in Deciding => i = Len(s.att)
    /\ Once(a, Notices) /\ Once(s.mainQ, On({"value"}))
    /\ Some(s.att, Deciding) => ~Some(a, Notices) /\ ~Some(s.mainQ, On({"value"}))
    /\ ~(Some(a, Notices) /\ Some(s.mainQ, On({"value"})))
    /\ s.state = "dataTransfer" => ~Some(a, Notices) /\ ~Some(s.mainQ, On({"value"}))

\* a good verdict on the image means that the device holds it, for good
Verified(s, d, a) ==
    Some(a, GoodNotices) \/ Some(s.mainQ, Good("value")) =>
        d.mode = "verified" /\ ~Some(s.att, Undone)

Loading(s, d, a) ==
    /\ s.state \in Late /\ Settled(s) /\ Clear(s)
    /\ ~Some(s.att, Requests \ Ask(Commands \ {"abort"}))
    /\ s.completion \in {"none", Command[s.state]}
    /\ OneVerdict(s, a)
    /\ s.state = "verify" => Verified(s, d, a)
    /\ Loaded(s)

Aborting(s) ==
    /\ s.state = "abort" /\ Settled(s) /\ Clear(s)
    /\ ~Some(s.att, Requests \ Ask(Commands))
    /\ s.completion \in {"none", "abort"}

Flow(s, d, a) == \/ Doomed(s) \/ Connecting(s, a) \/ Discovering(s, a)
                 \/ Subscribing(s, a) \/ Loading(s, d, a) \/ Aborting(s)

\* the start is the only thing that waits
Fresh(s, a) ==
    /\ s.mainQ = <<Block("start", "success")>>
    /\ s.delayed = 0 /\ ~s.timer /\ s.att = <<>> /\ a = <<>> /\ ~s.nodeConnecting
    /\ s.dfuLib = "idle" /\ s.state \in {"idle", "complete"} /\ ~s.isDeviceConnected
    /\ s.fwOffset = 0 /\ s.fwCrc32 = <<>> /\ s.completeError = "none"

\* what wakes an upgrade
Awake(s) == s.timer \/ s.delayed > 0 \/ Some(s.mainQ, On({"timeout"}))

Alive(s) == /\ Awake(s) /\ s.dfuLib = "idle"
            /\ ~Some(s.mainQ, On({"start", "upload"}))
            /\ s.isDeviceConnected \/ ~Some(s.mainQ, On({"notification"}))

Basics(s) == /\ s.state # "readAppInfo"
             /\ s.state \in {"idle", "complete"} => ~s.isDeviceConnected
             /\ s.link = "connecting" => s.adapter = "ble"

\* An upgrade that is not running and has a start waiting is a quiet one.
Live == /\ ~u.isOtaUpgradeRunning /\ Some(u.mainQ, On({"start"})) => Fresh(u, air)
        /\ u.isOtaUpgradeRunning => Alive(u)

LiveInv == Basics(u) /\ (hist.clean => Live)

FlowInv == hist.clean /\ Going(u) => Flow(u, dev, air)

-----------------------------------------------------------------------------
(* Queues                                                                  *)

LEMMA SomeAppend ==
    ASSUME NEW S, NEW s \in Seq(S), NEW e \in S, NEW E
    PROVE  /\ Some(Append(s, e), E) <=> Some(s, E) \/ e \in E
           /\ Once(s, E) /\ ~(Some(s, E) /\ e \in E) => Once(Append(s, e), E)
<1>1. /\ Len(s) \in Nat /\ Len(Append(s, e)) = Len(s) + 1
      /\ \A i \in 1 .. Len(s) : Append(s, e)[i] = s[i]
      /\ Append(s, e)[Len(s) + 1] = e
  BY AppendProperties, LenProperties
<1> QED  BY <1>1 DEF Some, Once

LEMMA SomeTail ==
    ASSUME NEW S, NEW s \in Seq(S), s # <<>>, NEW E
    PROVE  /\ Some(s, E) <=> Head(s) \in E \/ Some(Tail(s), E)
           /\ Once(s, E) => Once(Tail(s), E)
           /\ Once(s, E) /\ Head(s) \in E => ~Some(Tail(s), E)
<1>1. /\ Len(s) \in Nat \ {0} /\ Len(Tail(s)) = Len(s) - 1
      /\ \A i \in 1 .. Len(s) - 1 : Tail(s)[i] = s[i + 1]
      /\ Head(s) = s[1]
  BY HeadTailProperties, LenProperties, EmptySeq
<1>2. ASSUME Some(s, E) PROVE Head(s) \in E \/ Some(Tail(s), E)
  <2> PICK i \in 1 .. Len(s) : s[i] \in E
    BY <1>2 DEF Some
  <2>1. i # 1 => i - 1 \in 1 .. Len(Tail(s)) /\ Tail(s)[i - 1] \in E
    BY <1>1
  <2> QED  BY <1>1, <2>1 DEF Some
<1>3. ASSUME Head(s) \in E \/ Some(Tail(s), E) PROVE Some(s, E)
  BY <1>1, <1>3 DEF Some
<1> QED  BY <1>1, <1>2, <1>3 DEF Some, Once

LEMMA SomeEmpty == \A E : ~Some(<<>>, E) /\ Once(<<>>, E)
BY DEF Some, Once

-----------------------------------------------------------------------------
(* What every handler keeps, and how it leaves the upgrade awake           *)

\* No handler begins an upgrade, clears its error, forgets its device while
\* it runs, or posts a start, an upload or, without the device, a notification.
Keeps(v, w) ==
    /\ w \in Phone
    /\ w.completeError = "none" => v.completeError = "none"
    /\ w.isOtaUpgradeRunning => v.isOtaUpgradeRunning
    /\ w.isOtaUpgradeRunning /\ v.isDeviceConnected => w.isDeviceConnected
    /\ v.dfuLib = "idle" => w.dfuLib = "idle"
    /\ w.adapter = v.adapter
    /\ w.link = "connecting" => v.link = "connecting" \/ v.adapter = "ble"
    /\ Some(w.mainQ, On({"start"})) => Some(v.mainQ, On({"start"}))
    /\ Some(w.mainQ, On({"upload"})) => Some(v.mainQ, On({"upload"}))
    /\ Some(w.mainQ, On({"notification"})) =>
          \/ Some(v.mainQ, On({"notification"}))
          \/ w.isDeviceConnected \/ ~w.isOtaUpgradeRunning

\* a command is under way with its timer armed, or the upgrade has ended
Ready(w) ==
    /\ w.state \notin {"idle", "readAppInfo"}
    /\ w.state = "complete" => ~w.isDeviceConnected
    /\ w.isOtaUpgradeRunning => w.timer

\* the handler has nothing to do
Still(v, w) ==
    /\ w.state = v.state /\ w.isDeviceConnected = v.isDeviceConnected
    /\ w.isOtaUpgradeRunning /\ Awake(v) => Awake(w)

Serves(v, w) == Keeps(v, w) /\ Ready(w)

LEMMA KeepsSelf == ASSUME NEW v \in Phone PROVE Keeps(v, v) /\ Still(v, v)
BY DEF Keeps, Still

LEMMA KeepsThrough ==
    ASSUME NEW v, NEW x, NEW w, Keeps(v, x)
    PROVE  /\ Keeps(x, w) => Keeps(v, w)
           /\ Serves(x, w) => Serves(v, w)
BY DEF Keeps, Serves

\* a handler that leaves all these alone
Leaves(v, w) ==
    /\ w \in Phone
    /\ w.completeError = v.completeError \/ w.completeError # "none"
    /\ w.isOtaUpgradeRunning = v.isOtaUpgradeRunning
    /\ w.isDeviceConnected = v.isDeviceConnected
    /\ w.dfuLib = v.dfuLib /\ w.adapter = v.adapter /\ w.link = v.link
    /\ w.mainQ = v.mainQ

LEMMA LeavesKeeps == ASSUME NEW v, NEW w, Leaves(v, w) PROVE Keeps(v, w)
BY DEF Leaves, Keeps

LEMMA TimerLeaves ==
    ASSUME NEW v \in Phone
    PROVE  /\ Leaves(v, StopTimer(v)) /\ Leaves(v, StartTimer(v))
           /\ StopTimer(v).state = v.state /\ StartTimer(v).state = v.state
           /\ StartTimer(v).timer
BY DEF Leaves, Phone, StopTimer, StartTimer

LEMMA DeviceLeaves ==
    ASSUME NEW v \in Phone
    PROVE  /\ Leaves(v, ResetDevice(v)) /\ Leaves(v, ForgetServices(v))
           /\ ResetDevice(v).state = v.state /\ ForgetServices(v).state = v.state
BY DEF Leaves, Phone, ResetDevice, ForgetServices

LEMMA ErrorLeaves ==
    ASSUME NEW v \in Phone, NEW err \in Errors \ {"none"}
    PROVE  LET w == [v EXCEPT !.completeError = err]
           IN  Leaves(v, w) /\ w.state = v.state /\ w.completeError = err
BY DEF Leaves, Phone

LEMMA StateLeaves ==
    ASSUME NEW v \in Phone, NEW s \in OtaState
    PROVE  LET w == [v EXCEPT !.state = s] IN Leaves(v, w) /\ w.state = s
BY DEF Leaves, Phone

\* a command is entered: its state is assigned and its timer started
LEMMA EnteredLeaves ==
    ASSUME NEW v \in Phone, NEW s \in OtaState
    PROVE  LET w == StartTimer([v EXCEPT !.state = s])
           IN  Leaves(v, w) /\ w.state = s /\ w.timer
<1> DEFINE x == [v EXCEPT !.state = s]
<1>1. Leaves(v, x) /\ x.state = s
  BY StateLeaves
<1> HIDE DEF x
<1>2. Leaves(x, StartTimer(x)) /\ StartTimer(x).state = s /\ StartTimer(x).timer
  BY <1>1, TimerLeaves DEF Leaves
<1> QED  BY <1>1, <1>2 DEF Leaves, x

\* a block joins the queue
LEMMA PostKeeps ==
    ASSUME NEW v \in Phone, NEW ev \in Events \ {"start", "upload"}, NEW r \in Results,
           ev = "notification" => v.isDeviceConnected \/ ~v.isOtaUpgradeRunning
    PROVE  LET w == Post(v, ev, r)
           IN  /\ Keeps(v, w) /\ Still(v, w)
               /\ w.timer = v.timer /\ w.state = v.state
<1> DEFINE b == Block(ev, r)
           w == Post(v, ev, r)
<1>1. b \in Blocks /\ b.ev = ev
  BY DEF Block, Blocks, Events
<1>2. v.mainQ \in Seq(Blocks)
  BY DEF Phone
<1>3. w \in Phone
  BY PostKept DEF Kept
<1>4. w.mainQ = Append(v.mainQ, b)
  BY DEF Post, Phone
<1>5. /\ w.state = v.state /\ w.completeError = v.completeError /\ w.timer = v.timer
      /\ w.isOtaUpgradeRunning = v.isOtaUpgradeRunning
      /\ w.isDeviceConnected = v.isDeviceConnected /\ w.delayed = v.delayed
      /\ w.dfuLib = v.dfuLib /\ w.adapter = v.adapter /\ w.link = v.link
  BY DEF Post, Phone
<1> HIDE DEF w, b
<1>6. \A E : Some(w.mainQ, E) <=> Some(v.mainQ, E) \/ b \in E
  BY <1>1, <1>2, <1>4, SomeAppend
<1>7. b \notin On({"start"}) /\ b \notin On({"upload"})
  BY <1>1 DEF On
<1>8. b \in On({"notification"}) => ev = "notification"
  BY <1>1 DEF On
<1>9. Keeps(v, w)
  BY <1>3, <1>5, <1>6, <1>7, <1>8 DEF Keeps
<1>10. Still(v, w)
  BY <1>5, <1>6 DEF Still, Awake
<1> QED  BY <1>5, <1>9, <1>10 DEF w

LEMMA AskLeaves ==
    ASSUME NEW v \in Phone, NEW q \in Requests
    PROVE  LET w == [v EXCEPT !.att = Append(@, q)]
           IN  Leaves(v, w) /\ w.state = v.state /\ w.timer = v.timer
<1>1. Append(v.att, q) \in Seq(Requests)
  BY AppendType DEF Phone
<1> QED  BY <1>1 DEF Leaves, Phone

LEMMA WriteLeaves ==
    ASSUME NEW v \in Phone, NEW op \in Commands
    PROVE  LET w == Write(v, op)
           IN  Leaves(v, w) /\ w.state = v.state /\ w.timer = v.timer
<1> DEFINE w == Write(v, op)
<1>1. w \in Phone
  BY WriteKept DEF Kept
<1>2. /\ w.state = v.state /\ w.completeError = v.completeError /\ w.timer = v.timer
      /\ w.isOtaUpgradeRunning = v.isOtaUpgradeRunning
      /\ w.isDeviceConnected = v.isDeviceConnected
      /\ w.dfuLib = v.dfuLib /\ w.adapter = v.adapter /\ w.link = v.link
      /\ w.mainQ = v.mainQ
  BY DEF Write, Phone
<1> HIDE DEF w
<1> QED  BY <1>1, <1>2 DEF Leaves, w

LEMMA DfuStopKeeps ==
    ASSUME NEW v \in Phone
    PROVE  LET w == otaUpgradeDfuStop(v) IN Keeps(v, w) /\ Still(v, w)
<1> DEFINE c == v.hasConnected
                /\ StateNo[v.state] \in StateNo.prepareForDownload .. StateNo.verify
           x == IF c THEN Post(v, "stop", "success") ELSE v
           t == [x EXCEPT !.dfuLib = "idle", !.meshDfuState = "INIT"]
           w == otaUpgradeDfuStop(v)
<1>1. Keeps(v, x) /\ Still(v, x)
  BY PostKeeps, KeepsSelf DEF Events, Results
<1>2. w \in {v, x, t}
  BY DEF otaUpgradeDfuStop, MeshDfuStop
<1> HIDE DEF x
<1>3. t \in Phone
  BY <1>1 DEF Keeps, Phone
<1>4. /\ t.dfuLib = "idle" /\ t.completeError = x.completeError /\ t.state = x.state
      /\ t.isOtaUpgradeRunning = x.isOtaUpgradeRunning /\ t.timer = x.timer
      /\ t.isDeviceConnected = x.isDeviceConnected /\ t.delayed = x.delayed
      /\ t.adapter = x.adapter /\ t.link = x.link /\ t.mainQ = x.mainQ
  BY <1>1 DEF Keeps, Phone
<1> HIDE DEF t
<1>5. Keeps(v, t) /\ Still(v, t)
  BY <1>1, <1>3, <1>4 DEF Keeps, Still, Awake
<1> HIDE DEF w
<1> QED  BY <1>1, <1>2, <1>5, KeepsSelf DEF w

-----------------------------------------------------------------------------
(* The handlers                                                            *)

LEMMA CompleteServes ==
    ASSUME NEW v \in Phone
    PROVE  Serves(v, Complete(v))
<1> DEFINE s == StopTimer(v)
           r == IF v.completeError = "none" THEN "success" ELSE "failure"
           lib == IF ~v.isOtaTransferForDfu \/ v.dfuLib # "uploading" THEN v.dfuLib
                  ELSE IF v.completeError = "none" THEN "uploaded" ELSE "failed"
           a == [s EXCEPT !.state = "complete", !.posted = Append(v.posted, r),
                          !.dfuLib = lib, !.isOtaTransferForDfu = FALSE]
           o == otaUpgradeDfuStop(a)
           c == [o EXCEPT !.isOtaAbortForDfu = FALSE]
           b == IF a.isOtaAbortForDfu \/ a.completeError # "none" THEN c ELSE a
           w == Complete(v)
<1>1. Leaves(v, s) /\ s \in Phone
  BY TimerLeaves DEF Leaves
<1>2. a \in Phone
  <2>1. Append(v.posted, r) \in Seq({"success", "failure"})
    BY AppendType DEF Phone
  <2>2. lib \in {"idle", "started", "uploading", "uploaded", "failed"}
    BY DEF Phone
  <2> HIDE DEF s, r, lib
  <2>3. "complete" \in OtaState
    BY StatesListed
  <2> QED  BY <1>1, <2>1, <2>2, <2>3 DEF Phone
<1>3. Keeps(v, a)
  <2>1. lib = "idle" \/ v.dfuLib # "idle"
    OBVIOUS
  <2> HIDE DEF s, r, lib
  <2>2. /\ a.completeError = s.completeError /\ a.isOtaUpgradeRunning = s.isOtaUpgradeRunning
        /\ a.isDeviceConnected = s.isDeviceConnected /\ a.dfuLib = lib
        /\ a.adapter = s.adapter /\ a.link = s.link /\ a.mainQ = s.mainQ
    BY <1>1 DEF Leaves, Phone
  <2> HIDE DEF a
  <2> QED  BY <1>1, <1>2, <2>1, <2>2 DEF Leaves, Keeps
<1>4. Complete(v) = Release(b)
  BY DEF Complete, StopTimer, Phone
<1> HIDE DEF a
<1>5. Keeps(a, o)
  BY <1>2, DfuStopKeeps
<1> HIDE DEF o
<1>6. Leaves(o, c)
  BY <1>5 DEF Keeps, Leaves, Phone
<1>7. Keeps(v, b)
  <2>1. Keeps(a, c)
    BY <1>5, <1>6, LeavesKeeps, KeepsThrough
  <2> HIDE DEF c
  <2>2. b \in {a, c}
    OBVIOUS
  <2> QED  BY <1>3, <2>1, <2>2, KeepsThrough
<1> HIDE DEF b
<1>8. /\ w \in Phone /\ w.state = "complete" /\ ~w.isOtaUpgradeRunning /\ ~w.isDeviceConnected
      /\ w.completeError = b.completeError /\ w.dfuLib = b.dfuLib
      /\ w.adapter = b.adapter /\ w.link = b.link /\ w.mainQ = b.mainQ
  <2>1. /\ w.state = "complete" /\ w \in Phone
    BY CompleteEnds
  <2>2. b \in Phone
    BY <1>7 DEF Keeps
  <2> QED  BY <1>4, <2>1, <2>2 DEF Release, Phone
<1> HIDE DEF w
<1> QED  BY <1>7, <1>8 DEF Keeps, Ready, Serves, w

LEMMA CompleteWithServes ==
    ASSUME NEW v \in Phone, NEW err \in Errors \ {"none"}
    PROVE  Serves(v, CompleteWith(v, err))
<1> DEFINE x == [v EXCEPT !.completeError = err]
<1>1. Leaves(v, x)
  BY ErrorLeaves
<1>2. CompleteWith(v, err) = Complete(x)
  BY DEF CompleteWith
<1> HIDE DEF x
<1> QED  BY <1>1, <1>2, CompleteServes, LeavesKeeps, KeepsThrough DEF Leaves

LEMMA AbortResponseServes ==
    ASSUME NEW v \in Phone, NEW r \in Results
    PROVE  Serves(v, otaAbortResponse(v, r))
<1> DEFINE x == StopTimer(v)
           err == IF v.completeError # "none" THEN v.completeError
                  ELSE CASE r = "success" -> "aborted"
                         [] r = "failure" -> "response"
                         [] r = "error"   -> "write"
<1>1. Leaves(v, x)
  BY TimerLeaves
<1>2. err \in Errors \ {"none"}
  BY DEF Results, Errors, Phone
<1>3. otaAbortResponse(v, r) = CompleteWith(x, err)
  BY DEF otaAbortResponse
<1> HIDE DEF x, err
<1> QED  BY <1>1, <1>2, <1>3, CompleteWithServes, LeavesKeeps, KeepsThrough DEF Leaves

\* a command that was entered and written
LEMMA WrittenServes ==
    ASSUME NEW v \in Phone, NEW x, Leaves(v, x), x.timer, NEW op \in Commands,
           x.state \notin {"idle", "readAppInfo", "complete"}
    PROVE  Serves(v, Write(x, op))
<1> DEFINE w == Write(x, op)
<1>1. x \in Phone
  BY DEF Leaves
<1>2. Leaves(x, w) /\ w.state = x.state /\ w.timer = x.timer
  BY <1>1, WriteLeaves
<1> HIDE DEF w
<1>3. Serves(x, w)
  BY <1>2, LeavesKeeps DEF Serves, Ready
<1> QED  BY <1>3, LeavesKeeps, KeepsThrough DEF w

LEMMA AbortServes ==
    ASSUME NEW v \in Phone
    PROVE  Serves(v, otaAbort(v))
<1> DEFINE x == StartTimer([v EXCEPT !.state = "abort"])
<1>1. Leaves(v, x) /\ x.state = "abort" /\ x.timer
  BY EnteredLeaves, StatesListed
<1>2. otaAbort(v) = IF CanWrite(x) THEN Write(x, "abort") ELSE otaAbortResponse(x, "error")
  BY DEF otaAbort
<1> HIDE DEF x
<1>3. Serves(v, Write(x, "abort"))
  BY <1>1, WrittenServes DEF Commands
<1>4. Serves(x, otaAbortResponse(x, "error"))
  BY <1>1, AbortResponseServes DEF Leaves, Results
<1> QED  BY <1>1, <1>2, <1>3, <1>4, LeavesKeeps, KeepsThrough

LEMMA AbortWithServes ==
    ASSUME NEW v \in Phone, NEW err \in Errors \ {"none"}
    PROVE  Serves(v, AbortWith(v, err))
<1> DEFINE x == [v EXCEPT !.completeError = err]
<1>1. Leaves(v, x)
  BY ErrorLeaves
<1>2. AbortWith(v, err) = otaAbort(x)
  BY DEF AbortWith
<1> HIDE DEF x
<1> QED  BY <1>1, <1>2, AbortServes, LeavesKeeps, KeepsThrough DEF Leaves

LEMMA VerifyResponseServes ==
    ASSUME NEW v \in Phone, NEW r \in Results
    PROVE  Serves(v, otaVerifyResponse(v, r))
<1> DEFINE x == StopTimer(v)
<1>1. Leaves(v, x) /\ x \in Phone
  BY TimerLeaves DEF Leaves
<1>2. otaVerifyResponse(v, r) = CASE r = "success" -> Complete(x)
                                  [] r = "failure" -> AbortWith(x, "verification")
                                  [] r = "error"   -> AbortWith(x, "write")
  BY DEF otaVerifyResponse
<1> HIDE DEF x
<1>3. /\ Serves(x, Complete(x)) /\ Serves(x, AbortWith(x, "verification"))
      /\ Serves(x, AbortWith(x, "write"))
  BY <1>1, CompleteServes, AbortWithServes DEF Errors
<1>4. Serves(x, otaVerifyResponse(v, r))
  BY <1>2, <1>3 DEF Results
<1> QED  BY <1>1, <1>4, LeavesKeeps, KeepsThrough

LEMMA VerifyServes ==
    ASSUME NEW v \in Phone
    PROVE  Serves(v, otaVerify(v))
<1> DEFINE x == StartTimer([v EXCEPT !.state = "verify"])
<1>1. Leaves(v, x) /\ x.state = "verify" /\ x.timer
  BY EnteredLeaves, StatesListed
<1>2. otaVerify(v) = IF CanWrite(x) THEN Write(x, "verify") ELSE otaVerifyResponse(x, "error")
  BY DEF otaVerify
<1> HIDE DEF x
<1>3. Serves(v, Write(x, "verify"))
  BY <1>1, WrittenServes DEF Commands
<1>4. Serves(x, otaVerifyResponse(x, "error"))
  BY <1>1, VerifyResponseServes DEF Leaves, Results
<1> QED  BY <1>1, <1>2, <1>3, <1>4, LeavesKeeps, KeepsThrough

LEMMA TransferServes ==
    ASSUME NEW v \in Phone
    PROVE  Serves(v, otaTransferData(v))
<1> DEFINE n == ChunkSize(v.fwOffset)
           y == [v EXCEPT !.state = "dataTransfer", !.transferringSize = n]
           h == [y EXCEPT !.fwCrc32 = Append(@, v.fwOffset)]
           x == StartTimer(h)
           z == StopTimer(y)
           e == [z EXCEPT !.fwOffset = ImageSize]
<1>1. Leaves(v, y) /\ y.state = "dataTransfer"
  <2>1. n \in Chunks /\ "dataTransfer" \in OtaState
    BY ChunkInt, StatesListed DEF Phone
  <2> HIDE DEF n
  <2> QED  BY <2>1 DEF Phone, Leaves
<1>2. otaTransferData(v) = IF n > 0
                           THEN IF CanWrite(x) THEN Write(x, "data")
                                ELSE AbortWith(StopTimer(x), "write")
                           ELSE otaVerify(e)
  BY DEF otaTransferData
<1> HIDE DEF n, y
<1>3. Leaves(y, h) /\ h.state = "dataTransfer"
  <2>1. Append(y.fwCrc32, v.fwOffset) \in Seq(Int)
    BY <1>1, AppendType DEF Leaves, Phone
  <2> QED  BY <1>1, <2>1 DEF Leaves, Phone
<1> HIDE DEF h
<1>4. Leaves(h, x) /\ x.state = "dataTransfer" /\ x.timer
  BY <1>3, TimerLeaves DEF Leaves
<1> HIDE DEF x
<1>5. Leaves(v, x) /\ x.state = "dataTransfer" /\ x.timer
  BY <1>1, <1>3, <1>4 DEF Leaves
<1>6. Leaves(y, z)
  BY <1>1, TimerLeaves DEF Leaves
<1> HIDE DEF z
<1>7. Leaves(z, e)
  <2>1. z \in Phone /\ ImageSize \in Int
    BY <1>6, ImageAssumption DEF Leaves
  <2> QED  BY <2>1 DEF Leaves, Phone
<1> HIDE DEF e
<1>8. Serves(v, Write(x, "data"))
  BY <1>5, WrittenServes DEF Commands
<1>9. Serves(v, AbortWith(StopTimer(x), "write"))
  <2>1. Leaves(x, StopTimer(x))
    BY <1>5, TimerLeaves DEF Leaves
  <2>2. Serves(StopTimer(x), AbortWith(StopTimer(x), "write"))
    BY <2>1, AbortWithServes DEF Leaves, Errors
  <2>3. Leaves(v, StopTimer(x))
    BY <1>5, <2>1 DEF Leaves
  <2> QED  BY <2>2, <2>3, LeavesKeeps, KeepsThrough
<1>10. Serves(v, otaVerify(e))
  <2>1. Leaves(v, e)
    BY <1>1, <1>6, <1>7 DEF Leaves
  <2> QED  BY <2>1, VerifyServes, LeavesKeeps, KeepsThrough DEF Leaves
<1> QED  BY <1>2, <1>8, <1>9, <1>10

LEMMA StartResponseServes ==
    ASSUME NEW v \in Phone, NEW r \in Results
    PROVE  Serves(v, otaStartDownloadResponse(v, r))
<1> DEFINE x == StopTimer(v)
<1>1. Leaves(v, x) /\ x \in Phone
  BY TimerLeaves DEF Leaves
<1>2. otaStartDownloadResponse(v, r) = CASE r = "success" -> otaTransferData(x)
                                         [] r = "failure" -> AbortWith(x, "response")
                                         [] r = "error"   -> AbortWith(x, "write")
  BY DEF otaStartDownloadResponse
<1> HIDE DEF x
<1>3. /\ Serves(x, otaTransferData(x))
      /\ Serves(x, AbortWith(x, "response")) /\ Serves(x, AbortWith(x, "write"))
  BY <1>1, TransferServes, AbortWithServes DEF Errors
<1>4. Serves(x, otaStartDownloadResponse(v, r))
  BY <1>2, <1>3 DEF Results
<1> QED  BY <1>1, <1>4, LeavesKeeps, KeepsThrough

LEMMA StartDownloadServes ==
    ASSUME NEW v \in Phone
    PROVE  Serves(v, otaStartDownload(v))
<1> DEFINE x == StartTimer([v EXCEPT !.state = "startDownload"])
<1>1. Leaves(v, x) /\ x.state = "startDownload" /\ x.timer
  BY EnteredLeaves, StatesListed
<1>2. otaStartDownload(v) =
        IF CanWrite(x) THEN Write(x, "start") ELSE otaStartDownloadResponse(x, "error")
  BY DEF otaStartDownload
<1> HIDE DEF x
<1>3. Serves(v, Write(x, "start"))
  BY <1>1, WrittenServes DEF Commands
<1>4. Serves(x, otaStartDownloadResponse(x, "error"))
  BY <1>1, StartResponseServes DEF Leaves, Results
<1> QED  BY <1>1, <1>2, <1>3, <1>4, LeavesKeeps, KeepsThrough

LEMMA PrepareResponseServes ==
    ASSUME NEW v \in Phone, NEW r \in Results
    PROVE  Serves(v, otaPrepareForDownloadResponse(v, r))
<1> DEFINE x == StopTimer(v)
<1>1. Leaves(v, x) /\ x \in Phone
  BY TimerLeaves DEF Leaves
<1>2. otaPrepareForDownloadResponse(v, r) =
        CASE r = "success" -> otaStartDownload(x)
          [] r = "failure" -> CompleteWith(x, "response")
          [] r = "error"   -> CompleteWith(x, "write")
  BY DEF otaPrepareForDownloadResponse
<1> HIDE DEF x
<1>3. /\ Serves(x, otaStartDownload(x))
      /\ Serves(x, CompleteWith(x, "response")) /\ Serves(x, CompleteWith(x, "write"))
  BY <1>1, StartDownloadServes, CompleteWithServes DEF Errors
<1>4. Serves(x, otaPrepareForDownloadResponse(v, r))
  BY <1>2, <1>3 DEF Results
<1> QED  BY <1>1, <1>4, LeavesKeeps, KeepsThrough

LEMMA PrepareServes ==
    ASSUME NEW v \in Phone
    PROVE  Serves(v, otaPrepareForDownload(v))
<1> DEFINE x == StartTimer([v EXCEPT !.state = "prepareForDownload"])
<1>1. Leaves(v, x) /\ x.state = "prepareForDownload" /\ x.timer
  BY EnteredLeaves, StatesListed
<1>2. otaPrepareForDownload(v) =
        IF CanWrite(x) THEN Write(x, "prepare") ELSE otaPrepareForDownloadResponse(x, "error")
  BY DEF otaPrepareForDownload
<1> HIDE DEF x
<1>3. Serves(v, Write(x, "prepare"))
  BY <1>1, WrittenServes DEF Commands
<1>4. Serves(x, otaPrepareForDownloadResponse(x, "error"))
  BY <1>1, PrepareResponseServes DEF Leaves, Results
<1> QED  BY <1>1, <1>2, <1>3, <1>4, LeavesKeeps, KeepsThrough

\* The subscription is made for a device that is connected, so its failure
\* is not a block that a running upgrade would ignore.
LEMMA EnableNotificationServes ==
    ASSUME NEW v \in Phone, v.isDeviceConnected \/ ~v.isOtaUpgradeRunning
    PROVE  Serves(v, otaEnableNotification(v))
<1> DEFINE x == StartTimer([v EXCEPT !.state = "enableNotification"])
           q == Request("subscribe", 0, <<>>)
           y == [x EXCEPT !.att = Append(@, q)]
           z == Post(x, "notification", "error")
<1>1. Leaves(v, x) /\ x.state = "enableNotification" /\ x.timer /\ x \in Phone
  BY EnteredLeaves, StatesListed DEF Leaves
<1>2. otaEnableNotification(v) \in {y, z}
  BY DEF otaEnableNotification
<1> HIDE DEF x
<1>3. Leaves(x, y) /\ y.state = x.state /\ y.timer = x.timer
  BY <1>1, BareRequestType, AskLeaves
<1>4. Keeps(x, z) /\ z.state = x.state /\ z.timer = x.timer
  BY <1>1, PostKeeps DEF Leaves, Events, Results
<1> HIDE DEF y, z
<1>5. Serves(x, y) /\ Serves(x, z)
  BY <1>1, <1>3, <1>4, LeavesKeeps DEF Serves, Ready
<1> QED  BY <1>1, <1>2, <1>5, LeavesKeeps, KeepsThrough

LEMMA DiscoverServes ==
    ASSUME NEW v \in Phone
    PROVE  Serves(v, discoverOtaServiceCharacteristics(v))
<1> DEFINE y == [v EXCEPT !.state = "otaServiceDiscover", !.isDeviceConnected = TRUE]
           x == StartTimer(y)
           q == Request("discover", 0, <<>>)
           a == [x EXCEPT !.att = Append(@, q)]
           p == Post(x, "service", "error")
<1>1. y \in Phone /\ y.state = "otaServiceDiscover" /\ Keeps(v, y)
  <2>1. "otaServiceDiscover" \in OtaState
    BY StatesListed
  <2>2. y \in Phone
    BY <2>1 DEF Phone
  <2>3. /\ y.state = "otaServiceDiscover" /\ y.isDeviceConnected
        /\ y.completeError = v.completeError /\ y.isOtaUpgradeRunning = v.isOtaUpgradeRunning
        /\ y.dfuLib = v.dfuLib /\ y.adapter = v.adapter /\ y.link = v.link
        /\ y.mainQ = v.mainQ
    BY DEF Phone
  <2> HIDE DEF y
  <2> QED  BY <2>2, <2>3 DEF Keeps
<1>2. discoverOtaServiceCharacteristics(v) \in {a, p}
  BY DEF discoverOtaServiceCharacteristics
<1> HIDE DEF y
<1>3. Leaves(y, x) /\ x.state = "otaServiceDiscover" /\ x.timer /\ x \in Phone
  BY <1>1, TimerLeaves DEF Leaves
<1> HIDE DEF x
<1>4. Leaves(x, a) /\ a.state = x.state /\ a.timer = x.timer
  BY <1>3, BareRequestType, AskLeaves
<1>5. Keeps(x, p) /\ p.state = x.state /\ p.timer = x.timer
  BY <1>3, PostKeeps DEF Events, Results
<1> HIDE DEF a, p
<1>6. Serves(x, a) /\ Serves(x, p)
  BY <1>3, <1>4, <1>5, LeavesKeeps DEF Serves, Ready
<1> QED  BY <1>1, <1>2, <1>3, <1>6, LeavesKeeps, KeepsThrough

LEMMA ConnectServes ==
    ASSUME NEW v \in Phone
    PROVE  Serves(v, otaConnect(v)) /\ otaConnect(v).state # "complete"
<1> DEFINE x == StartTimer([v EXCEPT !.state = "connect"])
           ok == Post(x, "connection", "success")
           no == Post(x, "connection", "error")
           ble == [x EXCEPT !.link = "connecting"]
           y == [x EXCEPT !.peripheral = FALSE]
           none == Post(y, "connection", "error")
           node == [x EXCEPT !.nodeConnecting = TRUE]
<1>1. Leaves(v, x) /\ x.state = "connect" /\ x.timer /\ x \in Phone
  BY EnteredLeaves, StatesListed DEF Leaves
<1>2. /\ otaConnect(v) \in {ok, no, ble, none, node}
      /\ otaConnect(v) = ble => v.adapter = "ble" \/ otaConnect(v) \in {ok, no, none, node}
  BY DEF otaConnect, BleConnect, MeshConnect
<1> HIDE DEF x
<1>3. /\ Serves(x, ok) /\ ok.state = "connect"
      /\ Serves(x, no) /\ no.state = "connect"
  <2>1. Keeps(x, ok) /\ ok.timer = x.timer /\ ok.state = x.state
    BY <1>1, PostKeeps DEF Events, Results
  <2>2. Keeps(x, no) /\ no.timer = x.timer /\ no.state = x.state
    BY <1>1, PostKeeps DEF Events, Results
  <2> HIDE DEF ok, no
  <2> QED  BY <1>1, <2>1, <2>2 DEF Serves, Ready
<1>4. Serves(x, none) /\ none.state = "connect"
  <2>1. Leaves(x, y) /\ y.state = "connect" /\ y.timer /\ y \in Phone
    <3>1. y \in Phone
      BY <1>1 DEF Phone
    <3>2. /\ y.state = x.state /\ y.timer = x.timer /\ y.completeError = x.completeError
          /\ y.isOtaUpgradeRunning = x.isOtaUpgradeRunning
          /\ y.isDeviceConnected = x.isDeviceConnected /\ y.dfuLib = x.dfuLib
          /\ y.adapter = x.adapter /\ y.link = x.link /\ y.mainQ = x.mainQ
      BY <1>1 DEF Phone
    <3> HIDE DEF y
    <3> QED  BY <1>1, <3>1, <3>2 DEF Leaves
  <2> HIDE DEF y
  <2>2. Keeps(y, none) /\ none.timer = y.timer /\ none.state = y.state
    BY <2>1, PostKeeps DEF Events, Results
  <2> HIDE DEF none
  <2>3. Serves(y, none)
    BY <2>1, <2>2 DEF Serves, Ready
  <2> QED  BY <2>1, <2>2, <2>3, LeavesKeeps, KeepsThrough
<1>5. Serves(x, node) /\ node.state = "connect"
  <2>1. Leaves(x, node) /\ node.state = "connect" /\ node.timer
    <3>1. x \in Phone /\ x.state = "connect" /\ x.timer
      BY <1>1
    <3> QED  BY <3>1 DEF Leaves, Phone
  <2> HIDE DEF node
  <2> QED  BY <2>1, LeavesKeeps DEF Serves, Ready
<1>6. v.adapter = "ble" => Serves(x, ble) /\ ble.state = "connect"
  <2>1. ble \in Phone
    BY <1>1 DEF Phone
  <2>2. /\ ble.state = "connect" /\ ble.timer
        /\ ble.completeError = x.completeError /\ ble.isOtaUpgradeRunning = x.isOtaUpgradeRunning
        /\ ble.isDeviceConnected = x.isDeviceConnected /\ ble.dfuLib = x.dfuLib
        /\ ble.adapter = x.adapter /\ ble.mainQ = x.mainQ
    BY <1>1 DEF Phone
  <2> HIDE DEF ble
  <2> QED  BY <1>1, <2>1, <2>2 DEF Serves, Ready, Keeps, Leaves
<1> HIDE DEF ok, no, ble, none, node
<1>7. Serves(x, otaConnect(v)) /\ otaConnect(v).state = "connect"
  BY <1>2, <1>3, <1>4, <1>5, <1>6
<1> QED  BY <1>1, <1>7, LeavesKeeps, KeepsThrough

\* The state machine, run by an event of an upgrade that has begun: every
\* state it can be in does something, and arms the timer for it.
LEMMA StateMachineServes ==
    ASSUME NEW v \in Phone, v.state \notin {"idle", "readAppInfo"},
           v.isDeviceConnected \/ ~v.isOtaUpgradeRunning \/ v.state # "enableNotification"
    PROVE  Serves(v, stateMachineProcess(v))
<1>1. CASE v.state = "enableNotification"
  BY <1>1, EnableNotificationServes DEF stateMachineProcess
<1>2. CASE v.state # "enableNotification"
  <2>1. stateMachineProcess(v) \in
          {otaConnect(v), discoverOtaServiceCharacteristics(v), otaPrepareForDownload(v),
           otaStartDownload(v), otaTransferData(v), otaVerify(v), otaAbort(v), Complete(v)}
    BY <1>2, StatesListed DEF stateMachineProcess, Phone
  <2> QED  BY <2>1, ConnectServes, DiscoverServes, PrepareServes, StartDownloadServes,
              TransferServes, VerifyServes, AbortServes, CompleteServes
<1> QED  BY <1>1, <1>2

LEMMA TransferResponseServes ==
    ASSUME NEW v \in Phone, v.state \notin {"idle", "readAppInfo"}, NEW r \in Results,
           v.isDeviceConnected \/ ~v.isOtaUpgradeRunning
    PROVE  Serves(v, otaTransferDataResponse(v, r))
<1> DEFINE y == StopTimer(v)
           x == [y EXCEPT !.fwOffset = @ + v.transferringSize]
<1>1. Leaves(v, y) /\ y.state = v.state /\ y \in Phone
  BY TimerLeaves DEF Leaves
<1>2. otaTransferDataResponse(v, r) =
        IF r = "error" THEN AbortWith(y, "write")
        ELSE IF LastSent(x) THEN otaVerify(x) ELSE stateMachineProcess(x)
  BY DEF otaTransferDataResponse
<1> HIDE DEF y
<1>3. Leaves(y, x) /\ x.state = y.state /\ x \in Phone
  <2>1. y.fwOffset + v.transferringSize \in Int
    BY <1>1 DEF Phone, Chunks
  <2> QED  BY <1>1, <2>1 DEF Leaves, Phone
<1> HIDE DEF x
<1>4. Leaves(v, x) /\ x.state = v.state
  BY <1>1, <1>3 DEF Leaves
<1>5. Serves(y, AbortWith(y, "write"))
  BY <1>1, AbortWithServes DEF Errors
<1>6. Serves(x, otaVerify(x)) /\ Serves(x, stateMachineProcess(x))
  <2>1. x.isDeviceConnected \/ ~x.isOtaUpgradeRunning
    BY <1>4 DEF Leaves
  <2> QED  BY <1>3, <1>4, <2>1, VerifyServes, StateMachineServes
<1> QED  BY <1>1, <1>2, <1>4, <1>5, <1>6, LeavesKeeps, KeepsThrough

LEMMA CompletionServes ==
    ASSUME NEW v \in Phone, v.state \notin {"idle", "readAppInfo"}, v.isDeviceConnected,
           NEW op \in Commands, NEW r \in Results
    PROVE  Serves(v, RunCompletion(v, op, r)) \/ RunCompletion(v, op, r) = v
<1>1. RunCompletion(v, op, r) \in
        {otaTransferDataResponse(v, r), v, otaPrepareForDownloadResponse(v, r),
         otaStartDownloadResponse(v, r), otaVerifyResponse(v, r), otaAbortResponse(v, r)}
  BY DEF RunCompletion, Commands, Results
<1> QED  BY <1>1, TransferResponseServes, PrepareResponseServes, StartResponseServes,
            VerifyResponseServes, AbortResponseServes

-----------------------------------------------------------------------------
(* The blocks                                                              *)

\* a handler serves the upgrade or has nothing to do
Answers(v, w) == Serves(v, w) \/ (Keeps(v, w) /\ Still(v, w))

LEMMA StopBlockServes ==
    ASSUME NEW v \in Phone
    PROVE  Serves(v, StopBlock(v))
<1> DEFINE flag == IF v.dfuType = "app" THEN v.isOtaAbortForDfu ELSE TRUE
           x == [v EXCEPT !.isOtaAbortForDfu = flag]
<1>1. flag \in BOOLEAN
  BY DEF Phone
<1>2. StopBlock(v) = otaAbort(x)
  BY DEF StopBlock
<1> HIDE DEF flag
<1>3. Leaves(v, x)
  BY <1>1 DEF Leaves, Phone
<1> HIDE DEF x
<1> QED  BY <1>2, <1>3, AbortServes, LeavesKeeps, KeepsThrough DEF Leaves

LEMMA UploadBlockServes ==
    ASSUME NEW v \in Phone, ~v.isOtaUpgradeRunning
    PROVE  Serves(v, UploadBlock(v))
<1> DEFINE x == [v EXCEPT !.isOtaTransferForDfu = TRUE]
<1>1. Leaves(v, x)
  BY DEF Leaves, Phone
<1>2. UploadBlock(v) = otaEnableNotification(x)
  BY DEF UploadBlock
<1> HIDE DEF x
<1>3. Serves(x, otaEnableNotification(x))
  BY <1>1, EnableNotificationServes DEF Leaves
<1> QED  BY <1>1, <1>2, <1>3, LeavesKeeps, KeepsThrough

LEMMA ConnectionAnswers ==
    ASSUME NEW v \in Phone, NEW isConnected \in BOOLEAN
    PROVE  LET w == _didUpdateConnectionState(v, isConnected)
           IN  /\ Answers(v, w)
               /\ v.state = "connect" /\ ~isConnected => w.state \in {"connect", "complete"}
<1> DEFINE s == StopTimer(v)
           g == ForgetServices(v)
           f == ForgetServices(s)
           x == [f EXCEPT !.completeError = "connect"]
           y == otaVerifyResponse(v, "success")
           z == [y EXCEPT !.hasConnected = FALSE]
           c == [s EXCEPT !.hasConnected = TRUE, !.peripheral = (v.link = "up"),
                          !.delayed = @ + 1]
           w == _didUpdateConnectionState(v, isConnected)
<1>1. w = IF ~v.isOtaUpgradeRunning \/ v.state = "idle" THEN g
          ELSE IF v.state = "verify" /\ v.timer /\ ~isConnected THEN z
          ELSE IF ~isConnected
               THEN IF StateNo[v.state] > StateNo.enableNotification
                    THEN otaAbort(x) ELSE Complete(x)
          ELSE c
  BY DEF _didUpdateConnectionState
<1> HIDE DEF w
<1>2. Leaves(v, g) /\ g.state = v.state /\ Still(v, g)
  <2>1. g.timer = v.timer /\ g.delayed = v.delayed
    BY DEF ForgetServices, Phone
  <2> QED  BY <2>1, DeviceLeaves DEF Leaves, Still, Awake
<1>3. Leaves(v, s) /\ s.state = v.state /\ s \in Phone
  BY TimerLeaves DEF Leaves
<1>4. Leaves(v, c) /\ c.state = v.state /\ c.delayed > 0
  <2>1. s.delayed = v.delayed /\ s.link = v.link
    BY DEF StopTimer, Phone
  <2> HIDE DEF s
  <2>2. s.delayed + 1 \in Nat /\ s.delayed + 1 > 0
    BY <1>3 DEF Phone
  <2>3. c \in Phone
    BY <1>3, <2>2 DEF Phone
  <2>4. /\ c.completeError = s.completeError /\ c.isOtaUpgradeRunning = s.isOtaUpgradeRunning
        /\ c.isDeviceConnected = s.isDeviceConnected /\ c.dfuLib = s.dfuLib
        /\ c.adapter = s.adapter /\ c.link = s.link /\ c.mainQ = s.mainQ
        /\ c.state = s.state /\ c.delayed = s.delayed + 1
    BY <1>3 DEF Phone
  <2> HIDE DEF c
  <2> QED  BY <1>3, <2>2, <2>3, <2>4 DEF Leaves
<1> HIDE DEF c, s
<1>5. Leaves(s, f) /\ f \in Phone
  BY <1>3, DeviceLeaves DEF Leaves
<1> HIDE DEF f
<1>6. Leaves(f, x) /\ x \in Phone
  BY <1>5, ErrorLeaves DEF Errors, Leaves
<1> HIDE DEF x
<1>7. Serves(v, otaAbort(x)) /\ Serves(v, Complete(x))
  <2>1. Leaves(v, x)
    BY <1>3, <1>5, <1>6 DEF Leaves
  <2>2. Serves(x, otaAbort(x)) /\ Serves(x, Complete(x))
    BY <1>6, AbortServes, CompleteServes
  <2> QED  BY <2>1, <2>2, LeavesKeeps, KeepsThrough
<1>8. Serves(v, z)
  <2>1. Serves(v, y) /\ y \in Phone
    BY VerifyResponseServes DEF Results, Serves, Keeps
  <2> HIDE DEF y
  <2>2. Leaves(y, z) /\ z.state = y.state /\ z.timer = y.timer
    BY <2>1 DEF Leaves, Phone
  <2> HIDE DEF z
  <2>3. Serves(y, z)
    BY <2>1, <2>2, LeavesKeeps DEF Serves, Ready, Leaves
  <2> QED  BY <2>1, <2>3, KeepsThrough DEF Serves
<1> HIDE DEF z, g
<1>9. Keeps(v, c) /\ Still(v, c)
  BY <1>4, LeavesKeeps DEF Leaves, Still, Awake
<1>10. Keeps(v, g)
  BY <1>2, LeavesKeeps
<1>11. Answers(v, w)
  BY <1>1, <1>2, <1>7, <1>8, <1>9, <1>10 DEF Answers
<1>12. ASSUME v.state = "connect", ~isConnected
       PROVE  w.state \in {"connect", "complete"}
  <2>1. StateNo["connect"] = 1 /\ StateNo.enableNotification = 4
    BY DEF StateNo
  <2>2. w \in {g, Complete(x)}
    BY <1>1, <1>12, <2>1
  <2>3. Complete(x).state = "complete"
    BY <1>6, CompleteEnds
  <2> QED  BY <1>2, <1>12, <2>2, <2>3
<1> QED  BY <1>11, <1>12 DEF w

LEMMA ServiceAnswers ==
    ASSUME NEW v \in Phone, NEW isDiscovered \in BOOLEAN
    PROVE  LET w == _didUpdateOtaServiceCharacteristicState(v, isDiscovered)
           IN  /\ Answers(v, w)
               /\ ~isDiscovered => w.state \in {v.state, "complete"}
<1> DEFINE x == StopTimer(v)
           w == _didUpdateOtaServiceCharacteristicState(v, isDiscovered)
<1>1. Leaves(v, x) /\ x \in Phone
  BY TimerLeaves DEF Leaves
<1>2. w = IF ~v.isOtaUpgradeRunning \/ ~v.isDeviceConnected \/ v.state # "otaServiceDiscover"
          THEN v
          ELSE IF isDiscovered THEN otaEnableNotification(x) ELSE CompleteWith(x, "discover")
  BY DEF _didUpdateOtaServiceCharacteristicState
<1> HIDE DEF w
<1>3. CASE w = v
  BY <1>3, KeepsSelf DEF Answers, w
<1>4. CASE w # v
  <2>1. x.isDeviceConnected
    BY <1>1, <1>2, <1>4 DEF Leaves
  <2> HIDE DEF x
  <2>2. Serves(x, otaEnableNotification(x)) /\ Serves(x, CompleteWith(x, "discover"))
    BY <1>1, <2>1, EnableNotificationServes, CompleteWithServes DEF Errors
  <2>3. CompleteWith(x, "discover").state = "complete"
    BY <1>1, CompleteWithFails DEF Errors, Fails
  <2>4. w \in {otaEnableNotification(x), CompleteWith(x, "discover")}
    BY <1>2, <1>4
  <2>5. Serves(v, w)
    BY <1>1, <2>2, <2>4, LeavesKeeps, KeepsThrough
  <2>6. ~isDiscovered => w.state = "complete"
    BY <1>2, <1>4, <2>3
  <2> QED  BY <2>5, <2>6 DEF Answers, w
<1> QED  BY <1>3, <1>4

LEMMA NotificationAnswers ==
    ASSUME NEW v \in Phone, NEW isEnabled \in BOOLEAN,
           v.isOtaUpgradeRunning => v.isDeviceConnected /\ v.state # "idle"
    PROVE  Answers(v, _didUpdateNotificationState(v, isEnabled))
<1> DEFINE x == StopTimer(v)
           w == _didUpdateNotificationState(v, isEnabled)
<1>1. Leaves(v, x) /\ x.state = v.state /\ x \in Phone
  BY TimerLeaves DEF Leaves
<1>2. w = IF ~v.isOtaUpgradeRunning \/ ~v.isDeviceConnected \/ v.state = "idle" THEN x
          ELSE IF isEnabled THEN otaPrepareForDownload(x) ELSE CompleteWith(x, "notification")
  BY DEF _didUpdateNotificationState
<1> HIDE DEF w, x
<1>3. CASE ~v.isOtaUpgradeRunning
  <2>1. Keeps(v, x) /\ Still(v, x)
    BY <1>1, <1>3, LeavesKeeps DEF Leaves, Still
  <2> QED  BY <1>2, <1>3, <2>1 DEF Answers, w
<1>4. CASE v.isOtaUpgradeRunning
  <2>1. w \in {otaPrepareForDownload(x), CompleteWith(x, "notification")}
    BY <1>2, <1>4
  <2>2. Serves(x, otaPrepareForDownload(x)) /\ Serves(x, CompleteWith(x, "notification"))
    BY <1>1, PrepareServes, CompleteWithServes DEF Errors
  <2> QED  BY <1>1, <2>1, <2>2, LeavesKeeps, KeepsThrough DEF Answers, w
<1> QED  BY <1>3, <1>4

LEMMA ValueAnswers ==
    ASSUME NEW v \in Phone, NEW r \in Results
    PROVE  Answers(v, _didUpdateValueFor(v, r))
<1>1. CASE _didUpdateValueFor(v, r) = v
  BY <1>1, KeepsSelf DEF Answers
<1>2. CASE _didUpdateValueFor(v, r) # v
  <2>1. v.isDeviceConnected
    BY <1>2 DEF _didUpdateValueFor
  <2>2. \/ _didUpdateValueFor(v, r) \in
             {otaPrepareForDownloadResponse(v, r), otaStartDownloadResponse(v, r),
              otaVerifyResponse(v, r), otaAbortResponse(v, r)}
        \/ _didUpdateValueFor(v, r) = otaTransferDataResponse(v, r) /\ v.state = "dataTransfer"
    BY <1>2 DEF _didUpdateValueFor
  <2> QED  BY <2>1, <2>2, TransferResponseServes, PrepareResponseServes, StartResponseServes,
              VerifyResponseServes, AbortResponseServes DEF Answers
<1> QED  BY <1>1, <1>2

LEMMA TimeoutServes ==
    ASSUME NEW v \in Phone, v.state # "readAppInfo"
    PROVE  /\ Serves(v, _onOtaCommandTimeout(v))
           /\ _onOtaCommandTimeout(v).completeError # "none"
<1> DEFINE err == IF v.completeError = "none" THEN "timeout" ELSE v.completeError
           x == [v EXCEPT !.completeError = err]
           c == _didUpdateConnectionState(x, FALSE)
           d == _didUpdateOtaServiceCharacteristicState(x, FALSE)
<1>1. err \in Errors \ {"none"}
  BY DEF Errors, Phone
<1>2. _onOtaCommandTimeout(v) = CASE v.state \in {"idle", "abort"} -> Complete(x)
                                  [] v.state = "connect" -> stateMachineProcess(c)
                                  [] v.state = "otaServiceDiscover" -> stateMachineProcess(d)
                                  [] OTHER -> otaAbort(x)
  <2>1. x = [v EXCEPT !.completeError = IF @ = "none" THEN "timeout" ELSE @]
    BY DEF Phone
  <2> QED  BY <2>1 DEF _onOtaCommandTimeout
<1> HIDE DEF err
<1>3. Leaves(v, x) /\ x.state = v.state /\ x.completeError # "none" /\ x \in Phone
  BY <1>1, ErrorLeaves DEF Leaves
<1> HIDE DEF x
<1>4. Serves(x, Complete(x)) /\ Serves(x, otaAbort(x))
  BY <1>3, CompleteServes, AbortServes
<1>5. ASSUME v.state = "connect" PROVE Serves(x, stateMachineProcess(c))
  <2>1. Keeps(x, c) /\ c \in Phone /\ c.state \in {"connect", "complete"}
    BY <1>3, <1>5, ConnectionAnswers DEF Answers, Serves, Keeps
  <2> HIDE DEF c
  <2>2. Serves(c, stateMachineProcess(c))
    BY <2>1, StateMachineServes
  <2> QED  BY <2>1, <2>2, KeepsThrough
<1>6. ASSUME v.state = "otaServiceDiscover" PROVE Serves(x, stateMachineProcess(d))
  <2>1. Keeps(x, d) /\ d \in Phone /\ d.state \in {"otaServiceDiscover", "complete"}
    BY <1>3, <1>6, ServiceAnswers DEF Answers, Serves, Keeps
  <2> HIDE DEF d
  <2>2. Serves(d, stateMachineProcess(d))
    BY <2>1, StateMachineServes
  <2> QED  BY <2>1, <2>2, KeepsThrough
<1> HIDE DEF c, d
<1>7. Serves(x, _onOtaCommandTimeout(v))
  BY <1>2, <1>4, <1>5, <1>6
<1>8. _onOtaCommandTimeout(v).completeError # "none"
  BY <1>3, <1>7 DEF Serves, Keeps
<1> QED  BY <1>3, <1>7, <1>8, LeavesKeeps, KeepsThrough

-----------------------------------------------------------------------------
(* An upgrade that began quietly never stalls: the steps                   *)

\* a step that keeps the upgrade going and a waiting start quiet
Calm == /\ Keeps(u, u') /\ (Ready(u') \/ Still(u, u'))
        /\ ~u.isOtaUpgradeRunning /\ Fresh(u, air) => Fresh(u, air)'

LEMMA CalmLive ==
    ASSUME LiveInv, hist'.clean = hist.clean, Calm
    PROVE  LiveInv'
<1>1. Basics(u')
  BY DEF LiveInv, Basics, Calm, Keeps, Ready, Still
<1>2. ASSUME hist.clean, u'.isOtaUpgradeRunning
      PROVE  Alive(u')
  <2>1. u.isOtaUpgradeRunning /\ Alive(u)
    BY <1>2 DEF LiveInv, Live, Calm, Keeps
  <2>2. Awake(u')
    BY <1>2, <2>1 DEF Calm, Ready, Still, Alive, Awake
  <2>3. ~Some(u'.mainQ, On({"start"})) /\ ~Some(u'.mainQ, On({"upload"}))
    BY <2>1 DEF Calm, Keeps, Alive, Some, On
  <2>4. ~Some(u'.mainQ, On({"start", "upload"}))
    BY <2>3 DEF Some, On
  <2> QED  BY <1>2, <2>1, <2>2, <2>4 DEF Calm, Keeps, Alive
<1>3. ASSUME hist.clean, ~u'.isOtaUpgradeRunning, Some(u'.mainQ, On({"start"}))
      PROVE  Fresh(u, air)'
  <2>1. Some(u.mainQ, On({"start"}))
    BY <1>3 DEF Calm, Keeps
  <2>2. Some(u.mainQ, On({"start", "upload"}))
    BY <2>1 DEF Some, On
  <2>3. ~u.isOtaUpgradeRunning
    BY <1>3, <2>2 DEF LiveInv, Live, Alive
  <2> QED  BY <1>3, <2>1, <2>3 DEF LiveInv, Live, Calm
<1> QED  BY <1>1, <1>2, <1>3 DEF LiveInv, Live

\* the phone's part in a step that leaves the queue and the link alone
LEMMA LeavesCalm ==
    ASSUME u \in Phone, Leaves(u, u'), u'.state = u.state, u'.timer = u.timer,
           u'.delayed = u.delayed, ~Fresh(u, air)
    PROVE  Calm
BY LeavesKeeps DEF Calm, Still, Awake, Leaves

LEMMA InitLive == Init => LiveInv
<1> SUFFICES ASSUME Init PROVE LiveInv
  OBVIOUS
<1>1. PICK adapter \in Adapters, link \in {"down", "up"} :
        /\ u.state = "idle" /\ ~u.isDeviceConnected /\ u.link = link
        /\ ~u.isOtaUpgradeRunning /\ u.mainQ = <<>>
  BY DEF Init
<1> QED  BY <1>1, SomeEmpty DEF LiveInv, Live, Basics

LEMMA OpenPageLive ==
    ASSUME IInv, LiveInv, OpenPage
    PROVE  LiveInv'
<1> DEFINE x == ResetDevice(u)
<1>1. u \in Phone
  BY DEF IInv, TypeOK
<1>2. /\ x \in Phone /\ x.mainQ = u.mainQ /\ x.delayed = u.delayed /\ x.timer = u.timer
      /\ x.att = u.att /\ x.nodeConnecting = u.nodeConnecting /\ x.dfuLib = u.dfuLib
      /\ x.fwOffset = u.fwOffset /\ x.fwCrc32 = u.fwCrc32
      /\ x.link = u.link /\ x.adapter = u.adapter
  BY <1>1 DEF ResetDevice, Phone
<1>3. u' = [x EXCEPT !.state = "idle", !.completeError = "none",
                     !.isOtaUpgradeRunning = FALSE, !.isDeviceConnected = FALSE,
                     !.meshDfuState = "INIT"]
  BY DEF OpenPage
<1> HIDE DEF x
<1>4. /\ u'.mainQ = u.mainQ /\ u'.delayed = u.delayed /\ u'.timer = u.timer
      /\ u'.att = u.att /\ u'.nodeConnecting = u.nodeConnecting /\ u'.dfuLib = u.dfuLib
      /\ u'.fwOffset = u.fwOffset /\ u'.fwCrc32 = u.fwCrc32
      /\ u'.link = u.link /\ u'.adapter = u.adapter
      /\ u'.state = "idle" /\ u'.completeError = "none"
      /\ ~u'.isOtaUpgradeRunning /\ ~u'.isDeviceConnected
  BY <1>2, <1>3 DEF Phone
<1>5. hist'.clean = hist.clean /\ air' = air
  BY DEF IInv, TypeOK, OpenPage
<1>6. Basics(u')
  BY <1>4 DEF LiveInv, Basics
<1>7. ASSUME hist.clean, Some(u.mainQ, On({"start"}))
      PROVE  Fresh(u, air)'
  <2>1. Some(u.mainQ, On({"start", "upload"}))
    BY <1>7 DEF Some, On
  <2>2. Fresh(u, air)
    BY <1>7, <2>1 DEF LiveInv, Live, Alive
  <2> QED  BY <1>4, <1>5, <2>2 DEF Fresh
<1> QED  BY <1>4, <1>5, <1>6, <1>7 DEF LiveInv, Live

LEMMA StartLive ==
    ASSUME IInv, LiveInv, NEW dfuType \in DfuTypes, NEW new \in BOOLEAN, Start(dfuType, new)
    PROVE  LiveInv'
<1> DEFINE e == [ResetDevice(u) EXCEPT !.peripheral = (u.adapter = "ble"),
                                       !.completion = "none"]
           d == IF new THEN e ELSE u
           x == NewImage(d, dfuType)
           p == Post(x, "start", "success")
           y == [x EXCEPT !.meshDfuState = "INIT", !.dfuLib = "started"]
<1>1. u \in Phone /\ ~u.isOtaUpgradeRunning
  BY DEF IInv, TypeOK, IdleIsNotRunning, Start, isUpgradeIdle
<1>2. /\ d \in Phone /\ d.mainQ = u.mainQ /\ d.delayed = u.delayed /\ d.timer = u.timer
      /\ d.att = u.att /\ d.nodeConnecting = u.nodeConnecting /\ d.dfuLib = u.dfuLib
      /\ d.link = u.link /\ d.adapter = u.adapter /\ d.state = u.state
      /\ d.isDeviceConnected = u.isDeviceConnected
      /\ d.isOtaUpgradeRunning = u.isOtaUpgradeRunning
  <2>1. /\ e \in Phone /\ e.mainQ = u.mainQ /\ e.delayed = u.delayed /\ e.timer = u.timer
        /\ e.att = u.att /\ e.nodeConnecting = u.nodeConnecting /\ e.dfuLib = u.dfuLib
        /\ e.link = u.link /\ e.adapter = u.adapter /\ e.state = u.state
        /\ e.isDeviceConnected = u.isDeviceConnected
        /\ e.isOtaUpgradeRunning = u.isOtaUpgradeRunning
    BY <1>1 DEF ResetDevice, Phone
  <2> HIDE DEF e
  <2> QED  BY <1>1, <2>1
<1> HIDE DEF d
<1>3. /\ dfuType \in {"app", "dfu"} /\ "none" \in Errors /\ 0 \in Int /\ 0 \in Chunks
      /\ <<>> \in Seq(Int) /\ <<>> \in Seq({"success", "failure"})
  BY DeviceAssumption, NoChunk, EmptySeq DEF Errors
<1>4. /\ x \in Phone /\ x.mainQ = u.mainQ /\ x.delayed = u.delayed /\ x.timer = u.timer
      /\ x.att = u.att /\ x.nodeConnecting = u.nodeConnecting /\ x.dfuLib = u.dfuLib
      /\ x.link = u.link /\ x.adapter = u.adapter /\ x.state = u.state
      /\ x.isDeviceConnected = u.isDeviceConnected
      /\ x.isOtaUpgradeRunning = u.isOtaUpgradeRunning
      /\ x.fwOffset = 0 /\ x.fwCrc32 = <<>> /\ x.completeError = "none"
  <2>1. x \in Phone
    BY <1>2, <1>3 DEF Phone, NewImage
  <2>2. /\ x.mainQ = d.mainQ /\ x.delayed = d.delayed /\ x.timer = d.timer
        /\ x.att = d.att /\ x.nodeConnecting = d.nodeConnecting /\ x.dfuLib = d.dfuLib
        /\ x.link = d.link /\ x.adapter = d.adapter /\ x.state = d.state
        /\ x.isDeviceConnected = d.isDeviceConnected
        /\ x.isOtaUpgradeRunning = d.isOtaUpgradeRunning
        /\ x.fwOffset = 0 /\ x.fwCrc32 = <<>> /\ x.completeError = "none"
    BY <1>2 DEF Phone, NewImage
  <2> HIDE DEF x
  <2> QED  BY <1>2, <2>1, <2>2
<1>5. u' \in {p, y, x}
  <2>1. u.adapter \in {"ble", "mesh"}
    BY <1>1, DeviceAssumption DEF Phone
  <2>2. x.network \in BOOLEAN
    BY <1>4 DEF Phone
  <2>3. u' = CASE u.adapter = "ble" \/ (dfuType = "app" /\ x.network) -> p
               [] u.adapter = "mesh" /\ dfuType = "dfu" /\ x.network -> y
               [] u.adapter = "mesh" /\ ~x.network -> x
    BY DEF Start, d
  <2> HIDE DEF x, p, y
  <2> QED  BY <1>3, <2>1, <2>2, <2>3
<1>6. hist'.clean = Quiet /\ air' = air /\ u.state \in {"idle", "complete"}
  BY DEF IInv, TypeOK, Start, isUpgradeIdle
<1> HIDE DEF x
<1>7. /\ p.mainQ = Append(x.mainQ, Block("start", "success"))
      /\ p.delayed = x.delayed /\ p.timer = x.timer
      /\ p.att = x.att /\ p.nodeConnecting = x.nodeConnecting /\ p.dfuLib = x.dfuLib
      /\ p.link = x.link /\ p.adapter = x.adapter /\ p.state = x.state
      /\ p.isDeviceConnected = x.isDeviceConnected
      /\ p.isOtaUpgradeRunning = x.isOtaUpgradeRunning
      /\ p.fwOffset = x.fwOffset /\ p.fwCrc32 = x.fwCrc32
      /\ p.completeError = x.completeError
  BY <1>4 DEF Post, Phone
<1>8. /\ y.mainQ = x.mainQ /\ y.isDeviceConnected = x.isDeviceConnected
      /\ y.isOtaUpgradeRunning = x.isOtaUpgradeRunning
      /\ y.link = x.link /\ y.adapter = x.adapter /\ y.state = x.state
  BY <1>4 DEF Phone
<1> HIDE DEF p, y
<1>9. Basics(u')
  <2>1. /\ u'.state = u.state /\ u'.isDeviceConnected = u.isDeviceConnected
        /\ u'.link = u.link /\ u'.adapter = u.adapter
    BY <1>4, <1>5, <1>7, <1>8
  <2> QED  BY <2>1 DEF LiveInv, Basics
<1>10. ~u'.isOtaUpgradeRunning
  BY <1>1, <1>4, <1>5, <1>7, <1>8
<1>11. ASSUME Quiet, Some(u'.mainQ, On({"start"}))
       PROVE  Fresh(u, air)'
  <2>1. u.mainQ = <<>>
    BY <1>11 DEF Quiet
  <2>2. u' = p
    BY <1>4, <1>5, <1>8, <1>11, <2>1, SomeEmpty
  <2>3. p.mainQ = <<Block("start", "success")>>
    BY <1>4, <1>7, <2>1
  <2>4. ~u.isDeviceConnected
    BY <1>6 DEF LiveInv, Basics
  <2> QED  BY <1>4, <1>6, <1>7, <1>11, <2>2, <2>3, <2>4 DEF Quiet, Fresh
<1> QED  BY <1>6, <1>9, <1>10, <1>11 DEF LiveInv, Live

\* a handler, or a part of one, that has nothing to do
Idles(v, w) == Keeps(v, w) /\ Still(v, w)

LEMMA IdlesThrough ==
    ASSUME NEW v, NEW x, NEW w, Idles(v, x), Idles(x, w)
    PROVE  Idles(v, w)
BY DEF Idles, Keeps, Still

LEMMA LeavesIdles ==
    ASSUME NEW v, NEW w, Leaves(v, w), w.state = v.state, w.timer = v.timer,
           w.delayed = v.delayed
    PROVE  Idles(v, w)
BY LeavesKeeps DEF Leaves, Idles, Still, Awake

LEMMA DeviceIdles == ASSUME NEW v \in Phone PROVE Idles(v, ResetDevice(v))
<1>1. ResetDevice(v).timer = v.timer /\ ResetDevice(v).delayed = v.delayed
  BY DEF ResetDevice, Phone
<1> QED  BY <1>1, DeviceLeaves, LeavesIdles

LEMMA PostIfIdles ==
    ASSUME NEW v \in Phone, NEW cond \in BOOLEAN,
           NEW ev \in Events \ {"start", "upload", "notification"}, NEW r \in Results
    PROVE  Idles(v, PostIf(cond, v, ev, r))
<1>1. Idles(v, Post(v, ev, r)) /\ Idles(v, v)
  BY PostKeeps, KeepsSelf DEF Idles
<1> QED  BY <1>1 DEF PostIf

\* nothing but the device and the link of a waiting start changes
LEMMA FreshStays ==
    ASSUME Fresh(u, air), u'.mainQ = u.mainQ, u'.delayed = u.delayed, u'.timer = u.timer,
           u'.att = <<>>, air' = <<>>, u'.nodeConnecting = u.nodeConnecting,
           u'.dfuLib = u.dfuLib, u'.state = u.state,
           u'.isDeviceConnected = u.isDeviceConnected, u'.fwOffset = u.fwOffset,
           u'.fwCrc32 = u.fwCrc32, u'.completeError = u.completeError
    PROVE  Fresh(u, air)'
BY DEF Fresh

\* the link is made or lost
LEMMA LinkIdles ==
    ASSUME NEW v \in Phone, NEW link \in {"down", "up"}
    PROVE  LET w == [v EXCEPT !.link = link] IN Idles(v, w)
<1> DEFINE w == [v EXCEPT !.link = link]
<1>1. w \in Phone
  BY DEF Phone
<1>2. /\ w.state = v.state /\ w.completeError = v.completeError /\ w.timer = v.timer
      /\ w.isOtaUpgradeRunning = v.isOtaUpgradeRunning /\ w.delayed = v.delayed
      /\ w.isDeviceConnected = v.isDeviceConnected
      /\ w.dfuLib = v.dfuLib /\ w.adapter = v.adapter /\ w.link \in {"down", "up"}
      /\ w.mainQ = v.mainQ
  BY DEF Phone
<1> HIDE DEF w
<1>3. Idles(v, w)
  BY <1>1, <1>2 DEF Idles, Keeps, Still, Awake
<1> QED  BY <1>3 DEF w

LEMMA DidConnectCalm ==
    ASSUME IInv, LiveInv, DidConnect
    PROVE  Calm /\ hist'.clean = hist.clean
<1> DEFINE v == [u EXCEPT !.link = "up"]
           d == ResetDevice(v)
           p == [d EXCEPT !.peripheral = TRUE]
           w == Post(p, "connection", "success")
<1>1. u \in Phone /\ hist'.clean = hist.clean /\ air' = air
  BY DEF IInv, TypeOK, DidConnect
<1>2. u' = IF u.isOtaUpgradeRunning THEN w ELSE v
  BY DEF DidConnect
<1>3. Idles(u, v) /\ v \in Phone
  BY <1>1, LinkIdles DEF Idles, Keeps
<1>4. /\ v.mainQ = u.mainQ /\ v.delayed = u.delayed /\ v.timer = u.timer
      /\ v.att = u.att /\ v.nodeConnecting = u.nodeConnecting /\ v.dfuLib = u.dfuLib
      /\ v.state = u.state /\ v.isDeviceConnected = u.isDeviceConnected
      /\ v.fwOffset = u.fwOffset /\ v.fwCrc32 = u.fwCrc32
      /\ v.completeError = u.completeError
  BY <1>1 DEF Phone
<1> HIDE DEF v
<1>5. Idles(v, d) /\ d \in Phone
  BY <1>3, DeviceIdles DEF Idles, Keeps
<1> HIDE DEF d
<1>6. Leaves(d, p) /\ p.state = d.state /\ p.timer = d.timer /\ p.delayed = d.delayed
      /\ p \in Phone
  BY <1>5 DEF Leaves, Phone
<1> HIDE DEF p
<1>7. Idles(p, w)
  BY <1>6, PostKeeps DEF Idles, Events, Results
<1> HIDE DEF w
<1>8. Idles(u, w)
  <2>1. Idles(d, p)
    BY <1>6, LeavesIdles
  <2> QED  BY <1>3, <1>5, <1>7, <2>1, IdlesThrough
<1>9. Idles(u, u')
  BY <1>2, <1>3, <1>8
<1>10. ~u.isOtaUpgradeRunning /\ Fresh(u, air) => Fresh(u, air)'
  BY <1>1, <1>2, <1>4, FreshStays DEF Fresh
<1> QED  BY <1>1, <1>9, <1>10 DEF Calm, Idles

LEMMA DidFailCalm ==
    ASSUME IInv, LiveInv, DidFailToConnect
    PROVE  Calm /\ hist'.clean = hist.clean
<1> DEFINE v == [u EXCEPT !.link = "down"]
           d == ResetDevice(v)
<1>1. u \in Phone /\ hist'.clean = hist.clean /\ air' = air /\ u.isOtaUpgradeRunning \in BOOLEAN
  BY DEF IInv, TypeOK, DidFailToConnect, Phone
<1>2. u' = PostIf(u.isOtaUpgradeRunning, d, "connection", "error")
  BY DEF DidFailToConnect
<1>3. Idles(u, v) /\ v \in Phone
  BY <1>1, LinkIdles DEF Idles, Keeps
<1>4. /\ d.mainQ = u.mainQ /\ d.delayed = u.delayed /\ d.timer = u.timer
      /\ d.att = u.att /\ d.nodeConnecting = u.nodeConnecting /\ d.dfuLib = u.dfuLib
      /\ d.state = u.state /\ d.isDeviceConnected = u.isDeviceConnected
      /\ d.fwOffset = u.fwOffset /\ d.fwCrc32 = u.fwCrc32
      /\ d.completeError = u.completeError
  BY <1>1 DEF Phone, ResetDevice
<1> HIDE DEF v
<1>5. Idles(v, d) /\ d \in Phone
  BY <1>3, DeviceIdles DEF Idles, Keeps
<1> HIDE DEF d
<1>6. Idles(d, u')
  BY <1>1, <1>2, <1>5, PostIfIdles DEF Events, Results
<1>7. Idles(u, u')
  BY <1>3, <1>5, <1>6, IdlesThrough
<1>8. ~u.isOtaUpgradeRunning => u' = d
  BY <1>2 DEF PostIf
<1>9. ~u.isOtaUpgradeRunning /\ Fresh(u, air) => Fresh(u, air)'
  BY <1>1, <1>4, <1>8, FreshStays DEF Fresh
<1> QED  BY <1>1, <1>7, <1>9 DEF Calm, Idles

LEMMA DidDisconnectCalm ==
    ASSUME IInv, LiveInv, DidDisconnect
    PROVE  Calm /\ hist'.clean = hist.clean
<1> DEFINE l == [u EXCEPT !.link = "down"]
           v == [l EXCEPT !.att = <<>>]
           d == ResetDevice(v)
<1>1. u \in Phone /\ hist'.clean = hist.clean /\ air' = <<>> /\ Routed \in BOOLEAN
  BY RoutedType DEF IInv, TypeOK, DidDisconnect
<1>2. u' = PostIf(Routed, d, "connection", "error")
  <2>1. v = [u EXCEPT !.link = "down", !.att = <<>>]
    BY <1>1 DEF Phone
  <2> QED  BY <2>1 DEF DidDisconnect
<1>3. Idles(u, l) /\ l \in Phone
  BY <1>1, LinkIdles DEF Idles, Keeps
<1>4. /\ d.mainQ = u.mainQ /\ d.delayed = u.delayed /\ d.timer = u.timer
      /\ d.att = <<>> /\ d.nodeConnecting = u.nodeConnecting /\ d.dfuLib = u.dfuLib
      /\ d.state = u.state /\ d.isDeviceConnected = u.isDeviceConnected
      /\ d.fwOffset = u.fwOffset /\ d.fwCrc32 = u.fwCrc32
      /\ d.completeError = u.completeError
  BY <1>1 DEF Phone, ResetDevice
<1> HIDE DEF l
<1>5. Idles(l, v) /\ v \in Phone
  <2>1. <<>> \in Seq(Requests)
    BY EmptySeq
  <2>2. /\ Leaves(l, v) /\ v.state = l.state /\ v.timer = l.timer /\ v.delayed = l.delayed
    BY <1>3, <2>1 DEF Leaves, Phone
  <2> HIDE DEF v
  <2> QED  BY <2>2, LeavesIdles DEF Leaves
<1> HIDE DEF v
<1>6. Idles(v, d) /\ d \in Phone
  BY <1>5, DeviceIdles DEF Idles, Keeps
<1> HIDE DEF d
<1>7. Idles(d, u')
  BY <1>1, <1>2, <1>6, PostIfIdles DEF Events, Results
<1>8. Idles(u, u')
  BY <1>3, <1>5, <1>6, <1>7, IdlesThrough
<1>9. ~u.isOtaUpgradeRunning => u' = d
  BY <1>2 DEF PostIf, Routed
<1>10. ~u.isOtaUpgradeRunning /\ Fresh(u, air) => Fresh(u, air)'
  BY <1>1, <1>4, <1>9, FreshStays DEF Fresh
<1> QED  BY <1>1, <1>8, <1>10 DEF Calm, Idles

LEMMA NodeConnectStateCalm ==
    ASSUME IInv, LiveInv, NodeConnectState
    PROVE  Calm /\ hist'.clean = hist.clean
<1>1. u \in Phone /\ hist'.clean = hist.clean /\ u.nodeConnecting
  BY DEF IInv, TypeOK, NodeConnectState
<1>2. PICK connected \in BOOLEAN :
        LET v == IF u.isOtaUpgradeRunning /\ connected /\ u.link # "up"
                 THEN ResetDevice(u) ELSE u
        IN  u' = Post([v EXCEPT !.nodeConnecting = FALSE, !.peripheral = connected,
                                !.link = IF connected THEN "up" ELSE @],
                      "connection", IF connected THEN "success" ELSE "error")
  BY DEF NodeConnectState
<1> DEFINE v == IF u.isOtaUpgradeRunning /\ connected /\ u.link # "up"
                THEN ResetDevice(u) ELSE u
           n == [v EXCEPT !.nodeConnecting = FALSE, !.peripheral = connected]
           l == IF connected THEN [n EXCEPT !.link = "up"] ELSE n
           r == IF connected THEN "success" ELSE "error"
<1>3. Idles(u, v) /\ v \in Phone
  BY <1>1, DeviceIdles, KeepsSelf DEF Idles, Keeps
<1>4. [v EXCEPT !.nodeConnecting = FALSE, !.peripheral = connected,
                !.link = IF connected THEN "up" ELSE @] = l
  <2> HIDE DEF v
  <2> QED  BY <1>3 DEF Phone
<1>5. u' = Post(l, "connection", r)
  BY <1>2, <1>4
<1> HIDE DEF v
<1>6. Idles(v, n) /\ n \in Phone
  <2>1. Leaves(v, n) /\ n.state = v.state /\ n.timer = v.timer /\ n.delayed = v.delayed
    BY <1>3 DEF Leaves, Phone
  <2> HIDE DEF n
  <2> QED  BY <2>1, LeavesIdles DEF Leaves
<1> HIDE DEF n
<1>7. Idles(n, l) /\ l \in Phone
  BY <1>6, LinkIdles, KeepsSelf DEF Idles, Keeps
<1> HIDE DEF l
<1>8. r \in Results
  BY DEF Results
<1> HIDE DEF r
<1>9. Idles(l, u')
  BY <1>5, <1>7, <1>8, PostKeeps DEF Idles, Events
<1>10. Idles(u, u')
  BY <1>3, <1>6, <1>7, <1>9, IdlesThrough
<1> QED  BY <1>1, <1>10 DEF Calm, Idles, Fresh

LEMMA StopCalm ==
    ASSUME IInv, LiveInv, Stop
    PROVE  Calm /\ hist'.clean = hist.clean
<1>1. u \in Phone /\ hist'.clean = hist.clean /\ air' = air /\ u' = otaUpgradeDfuStop(u)
  BY DEF IInv, TypeOK, Stop
<1>2. Idles(u, u')
  BY <1>1, DfuStopKeeps DEF Idles
<1>3. ASSUME Fresh(u, air) PROVE Fresh(u, air)'
  <2> DEFINE t == [u EXCEPT !.dfuLib = "idle", !.meshDfuState = "INIT"]
  <2>1. StateNo[u.state] \notin StateNo.prepareForDownload .. StateNo.verify
    BY <1>3 DEF Fresh, StateNo
  <2>2. u' \in {u, t}
    BY <1>1, <2>1 DEF otaUpgradeDfuStop, MeshDfuStop
  <2>3. /\ t.mainQ = u.mainQ /\ t.delayed = u.delayed /\ t.timer = u.timer
        /\ t.att = u.att /\ t.nodeConnecting = u.nodeConnecting /\ t.dfuLib = "idle"
        /\ t.state = u.state /\ t.isDeviceConnected = u.isDeviceConnected
        /\ t.fwOffset = u.fwOffset /\ t.fwCrc32 = u.fwCrc32
        /\ t.completeError = u.completeError
    BY <1>1 DEF Phone
  <2> HIDE DEF t
  <2> QED  BY <1>1, <1>3, <2>2, <2>3 DEF Fresh
<1> QED  BY <1>1, <1>2, <1>3 DEF Calm, Idles

\* With the mesh library at work, no upgrade that began quietly is under way.
LEMMA LibraryLive ==
    ASSUME IInv, LiveInv, LibraryStartsUpload \/ LibraryReports
    PROVE  LiveInv'
<1> DEFINE e == [u EXCEPT !.hasConnected = TRUE, !.characteristics = TRUE,
                          !.dfuLib = "uploading", !.meshDfuState = "UPLOAD"]
           w == Post(e, "upload", "success")
           s == IF u.dfuLib = "uploaded" THEN "COMPLETE" ELSE "FAILED"
           d == [u EXCEPT !.meshDfuState = s, !.dfuLib = "idle"]
<1>1. u \in Phone /\ hist' = hist /\ air' = air /\ u.dfuLib # "idle"
  BY DEF IInv, TypeOK, LibraryStartsUpload, LibraryReports
<1>2. \/ u' \in {u, e, w}
      \/ u' = d
  BY DEF LibraryStartsUpload, LibraryReports, PostIf
<1>3. /\ e.state = u.state /\ e.isDeviceConnected = u.isDeviceConnected
      /\ e.link = u.link /\ e.adapter = u.adapter /\ e.mainQ = u.mainQ
      /\ e.isOtaUpgradeRunning = u.isOtaUpgradeRunning /\ e \in Phone
  BY <1>1 DEF Phone
<1>4. /\ d.state = u.state /\ d.isDeviceConnected = u.isDeviceConnected
      /\ d.link = u.link /\ d.adapter = u.adapter /\ d.mainQ = u.mainQ
      /\ d.isOtaUpgradeRunning = u.isOtaUpgradeRunning
  BY <1>1 DEF Phone
<1> HIDE DEF e, d, s
<1>5. /\ w.state = e.state /\ w.isDeviceConnected = e.isDeviceConnected
      /\ w.link = e.link /\ w.adapter = e.adapter
      /\ w.isOtaUpgradeRunning = e.isOtaUpgradeRunning
      /\ w.mainQ = Append(e.mainQ, Block("upload", "success"))
  BY <1>3 DEF Post, Phone
<1> HIDE DEF w
<1>6. /\ u'.state = u.state /\ u'.isDeviceConnected = u.isDeviceConnected
      /\ u'.link = u.link /\ u'.adapter = u.adapter
      /\ u'.isOtaUpgradeRunning = u.isOtaUpgradeRunning
  BY <1>2, <1>3, <1>4, <1>5
<1>7. Basics(u')
  BY <1>6 DEF LiveInv, Basics
<1>8. Some(u'.mainQ, On({"start"})) => Some(u.mainQ, On({"start"}))
  <2>1. u.mainQ \in Seq(Blocks) /\ Block("upload", "success") \in Blocks
    BY <1>1 DEF Phone, Block, Blocks, Results
  <2>2. Block("upload", "success") \notin On({"start"})
    BY DEF Block, On
  <2> QED  BY <1>2, <1>3, <1>4, <1>5, <2>1, <2>2, SomeAppend
<1>9. ASSUME hist.clean
      PROVE  ~u.isOtaUpgradeRunning /\ ~Some(u.mainQ, On({"start"}))
  BY <1>1, <1>9 DEF LiveInv, Live, Alive, Fresh
<1> QED  BY <1>1, <1>6, <1>7, <1>8, <1>9 DEF LiveInv, Live

LEMMA DeviceCalm ==
    ASSUME IInv, LiveInv, DeviceTakesRequest
    PROVE  Calm /\ hist'.clean = hist.clean
<1> DEFINE a == [u.att EXCEPT ![1].done = TRUE]
<1>1. /\ u \in Phone /\ u.att \in Seq(Requests) /\ u.att # <<>>
      /\ hist'.clean = hist.clean
  BY DEF IInv, TypeOK, DeviceTakesRequest, Phone
<1>2. a \in Seq(Requests)
  <2>1. 1 \in 1 .. Len(u.att) /\ u.att[1] \in Requests
    BY <1>1, EmptySeq, ElementOfSeq
  <2>2. [u.att[1] EXCEPT !.done = TRUE] \in Requests
    BY <2>1 DEF Requests
  <2> QED  BY <1>1, <2>1, <2>2, ExceptSeq
<1>3. u' = [u EXCEPT !.att = a]
  BY DEF DeviceTakesRequest
<1> HIDE DEF a
<1>4. /\ Leaves(u, u') /\ u'.state = u.state /\ u'.timer = u.timer
      /\ u'.delayed = u.delayed
  BY <1>1, <1>2, <1>3 DEF Leaves, Phone
<1> QED  BY <1>1, <1>4, LeavesCalm DEF Fresh

\* the reply leaves the requests under way
LEMMA AnsweredIdles ==
    ASSUME u \in Phone, u.att # <<>>
    PROVE  /\ Leaves(u, Answered) /\ Idles(u, Answered)
           /\ Answered.state = u.state
<1>1. Tail(u.att) \in Seq(Requests)
  BY HeadTailProperties DEF Phone
<1>2. /\ Leaves(u, Answered) /\ Answered.state = u.state /\ Answered.timer = u.timer
      /\ Answered.delayed = u.delayed
  BY <1>1 DEF Leaves, Phone, Answered
<1> QED  BY <1>2, LeavesIdles

LEMMA DisconnectIdles ==
    ASSUME NEW v \in Phone
    PROVE  Idles(v, Disconnect(v))
<1>1. (v.adapter = "mesh" \/ ~v.peripheral) \in BOOLEAN
  OBVIOUS
<1> QED  BY <1>1, PostIfIdles DEF Disconnect, Events, Results

\* a callback finds an answer on its way, so no quiet start waits
LEMMA CallbackCalm ==
    ASSUME IInv, LiveInv, hist' = hist, air # <<>>,
           Idles(u, u') \/ Serves(u, u')
    PROVE  Calm /\ hist'.clean = hist.clean
BY DEF Calm, Idles, Serves, Fresh

LEMMA DidDiscoverCalm ==
    ASSUME IInv, LiveInv, DidDiscover
    PROVE  Calm /\ hist'.clean = hist.clean
<1> DEFINE a == Answered
           f == Post(a, "service", "error")
           v == [a EXCEPT !.characteristics = TRUE]
           q == Request("readAppInfo", 0, <<>>)
           x == [v EXCEPT !.att = Append(@, q)]
           y == Post(v, "service", "success")
<1>1. /\ u \in Phone /\ hist' = hist /\ air # <<>> /\ u.att # <<>>
      /\ Head(air).r \in Results /\ Routed \in BOOLEAN
  BY AirTaken, RoutedType DEF IInv, TypeOK, Others, DidDiscover, Replied, Arrives
<1>2. u' \in {a, Disconnect(f), f, x, y}
  BY <1>1 DEF DidDiscover, Results
<1>3. Idles(u, a) /\ a \in Phone
  BY <1>1, AnsweredIdles DEF Leaves
<1> HIDE DEF a
<1>4. Idles(a, f) /\ f \in Phone
  BY <1>3, PostKeeps DEF Idles, Events, Results, Keeps
<1>5. Idles(a, v) /\ v \in Phone
  <2>1. Leaves(a, v) /\ v.state = a.state /\ v.timer = a.timer /\ v.delayed = a.delayed
    BY <1>3 DEF Leaves, Phone
  <2> HIDE DEF v
  <2> QED  BY <2>1, LeavesIdles DEF Leaves
<1> HIDE DEF v, f
<1>6. Idles(f, Disconnect(f))
  BY <1>4, DisconnectIdles
<1>7. Idles(v, x)
  <2>1. Append(v.att, q) \in Seq(Requests)
    BY <1>5, BareRequestType, AppendType DEF Phone
  <2>2. Leaves(v, x) /\ x.state = v.state /\ x.timer = v.timer /\ x.delayed = v.delayed
    BY <1>5, <2>1 DEF Leaves, Phone
  <2> HIDE DEF x
  <2> QED  BY <2>2, LeavesIdles
<1>8. Idles(v, y)
  BY <1>5, PostKeeps DEF Idles, Events, Results
<1> HIDE DEF x, y
<1>9. Idles(u, u')
  BY <1>2, <1>3, <1>4, <1>5, <1>6, <1>7, <1>8, IdlesThrough
<1> QED  BY <1>1, <1>9, CallbackCalm

LEMMA DidUpdateValueCalm ==
    ASSUME IInv, LiveInv, DidUpdateValue
    PROVE  Calm /\ hist'.clean = hist.clean
<1> DEFINE c == Routed /\ u.characteristics
           v == IF Arrives("notify") THEN u ELSE Answered
<1>1. /\ u \in Phone /\ hist' = hist /\ air # <<>>
      /\ Head(air).r \in Results /\ c \in BOOLEAN
  BY AirTaken, RoutedType DEF IInv, TypeOK, Others, DidUpdateValue, Replied, Arrives
<1>2. u' = PostIf(c, v, "value", Head(air).r)
  BY DEF DidUpdateValue
<1>3. Idles(u, v) /\ v \in Phone
  BY <1>1, AnsweredIdles, KeepsSelf DEF DidUpdateValue, Replied, Leaves, Idles
<1> HIDE DEF c, v
<1>4. Idles(v, u')
  BY <1>1, <1>2, <1>3, PostIfIdles DEF Events
<1>5. Idles(u, u')
  BY <1>3, <1>4, IdlesThrough
<1> QED  BY <1>1, <1>5, CallbackCalm

LEMMA DidUpdateNotificationCalm ==
    ASSUME IInv, LiveInv, DidUpdateNotificationState
    PROVE  Calm /\ hist'.clean = hist.clean
<1> DEFINE a == Answered
           g == Post(a, "notification", "success")
           f == Post(a, "notification", "error")
<1>1. /\ u \in Phone /\ hist' = hist /\ air # <<>> /\ u.att # <<>>
      /\ Routed \in BOOLEAN
  BY RoutedType DEF IInv, TypeOK, DidUpdateNotificationState, Replied, Arrives
<1>2. \/ u' = a
      \/ Routed /\ u' \in {g, Disconnect(f)}
  BY DEF DidUpdateNotificationState
<1>3. Leaves(u, a) /\ Idles(u, a) /\ a \in Phone
  BY <1>1, AnsweredIdles DEF Leaves
<1> HIDE DEF a
<1>4. ASSUME Routed
      PROVE  Idles(u, g) /\ Idles(u, Disconnect(f))
  <2>1. a.isDeviceConnected
    BY <1>3, <1>4 DEF Leaves, Routed
  <2>2. Idles(a, g) /\ Idles(a, f) /\ f \in Phone
    BY <1>3, <2>1, PostKeeps DEF Idles, Events, Results, Keeps
  <2> HIDE DEF f, g
  <2>3. Idles(f, Disconnect(f))
    BY <2>2, DisconnectIdles
  <2> QED  BY <1>3, <2>2, <2>3, IdlesThrough
<1> HIDE DEF f, g
<1>5. Idles(u, u')
  BY <1>2, <1>3, <1>4
<1> QED  BY <1>1, <1>5, CallbackCalm

LEMMA DidWriteValueCalm ==
    ASSUME IInv, LiveInv, DidWriteValue
    PROVE  Calm /\ hist'.clean = hist.clean
<1> DEFINE a == Answered
           x == [a EXCEPT !.completion = "none"]
<1>1. /\ u \in Phone /\ hist' = hist /\ air # <<>> /\ u.att # <<>>
      /\ Head(air).r \in Results
  BY AirTaken DEF IInv, TypeOK, Others, DidWriteValue, Replied, Arrives
<1>2. Leaves(u, a) /\ Idles(u, a) /\ a \in Phone /\ a.state = u.state
  BY <1>1, AnsweredIdles DEF Leaves
<1>3. \/ u' = a
      \/ Routed /\ u.completion \in Commands /\ u' = RunCompletion(x, u.completion, Head(air).r)
  BY <1>1 DEF DidWriteValue, Phone
<1> HIDE DEF a
<1>4. Idles(a, x) /\ x \in Phone /\ x.state = a.state
      /\ x.isDeviceConnected = a.isDeviceConnected
  <2>1. Leaves(a, x) /\ x.state = a.state /\ x.timer = a.timer /\ x.delayed = a.delayed
    BY <1>2 DEF Leaves, Phone
  <2> HIDE DEF x
  <2> QED  BY <2>1, LeavesIdles DEF Leaves
<1> HIDE DEF x
<1>5. Idles(u, x)
  BY <1>2, <1>4, IdlesThrough
<1>6. ASSUME Routed, u.completion \in Commands,
             u' = RunCompletion(x, u.completion, Head(air).r)
      PROVE  Idles(u, u') \/ Serves(u, u')
  <2>1. u.state \notin {"idle", "complete", "readAppInfo"}
    BY <1>6 DEF Routed, IInv, IdleIsNotRunning, LiveInv, Basics
  <2>2. x.isDeviceConnected /\ x.state \notin {"idle", "readAppInfo"}
    BY <1>2, <1>4, <1>6, <2>1 DEF Leaves, Routed
  <2>3. Serves(x, u') \/ u' = x
    BY <1>1, <1>4, <1>6, <2>2, CompletionServes
  <2> QED  BY <1>5, <2>3, KeepsThrough DEF Idles
<1>7. Idles(u, u') \/ Serves(u, u')
  BY <1>2, <1>3, <1>6
<1> QED  BY <1>1, <1>7, CallbackCalm

LEMMA RunDelayedCalm ==
    ASSUME IInv, LiveInv, RunDelayed
    PROVE  Calm /\ hist'.clean = hist.clean
<1> DEFINE x == [u EXCEPT !.delayed = @ - 1]
<1>1. u \in Phone /\ hist' = hist /\ u.delayed > 0 /\ u.delayed \in Nat
  BY DEF IInv, TypeOK, RunDelayed, Phone
<1>2. u' = discoverOtaServiceCharacteristics(x)
  BY DEF RunDelayed
<1>3. Leaves(u, x) /\ x \in Phone
  <2>1. u.delayed - 1 \in Nat
    BY <1>1
  <2>2. x \in Phone
    BY <1>1, <2>1 DEF Phone
  <2>3. /\ x.completeError = u.completeError /\ x.isOtaUpgradeRunning = u.isOtaUpgradeRunning
        /\ x.isDeviceConnected = u.isDeviceConnected /\ x.dfuLib = u.dfuLib
        /\ x.adapter = u.adapter /\ x.link = u.link /\ x.mainQ = u.mainQ
    BY <1>1 DEF Phone
  <2> HIDE DEF x
  <2> QED  BY <2>2, <2>3 DEF Leaves
<1> HIDE DEF x
<1>4. Serves(u, u')
  BY <1>2, <1>3, DiscoverServes, LeavesKeeps, KeepsThrough
<1> QED  BY <1>1, <1>4 DEF Calm, Serves, Fresh

LEMMA TimerExpiresCalm ==
    ASSUME IInv, LiveInv, TimerExpires
    PROVE  Calm /\ hist'.clean = hist.clean
<1> DEFINE x == StopTimer(u)
           b == Block("timeout", "success")
<1>1. u \in Phone /\ hist' = hist /\ u.timer /\ u' = Post(x, "timeout", "success")
  BY DEF IInv, TypeOK, TimerExpires
<1>2. Leaves(u, x) /\ x.state = u.state /\ x \in Phone
  BY <1>1, TimerLeaves DEF Leaves
<1> HIDE DEF x
<1>3. Keeps(x, u') /\ u'.state = x.state /\ Still(x, u')
  BY <1>1, <1>2, PostKeeps DEF Events, Results
<1>4. Awake(u')
  <2>1. u'.mainQ = Append(x.mainQ, b)
    BY <1>1, <1>2 DEF Post, Phone
  <2>2. x.mainQ \in Seq(Blocks) /\ b \in Blocks /\ b \in On({"timeout"})
    BY <1>2 DEF Phone, Block, Blocks, Results, On
  <2> QED  BY <2>1, <2>2, SomeAppend DEF Awake
<1>5. Keeps(u, u')
  BY <1>2, <1>3, LeavesKeeps, KeepsThrough
<1>6. Still(u, u')
  BY <1>2, <1>3, <1>4 DEF Still, Leaves
<1> QED  BY <1>1, <1>5, <1>6 DEF Calm, Fresh

\* the block at the head of the queue is taken
Taken == [u EXCEPT !.mainQ = Tail(@)]

LEMMA TakenKeeps ==
    ASSUME u \in Phone, u.mainQ # <<>>
    PROVE  /\ Keeps(u, Taken) /\ Head(u.mainQ) \in Blocks /\ Taken \in Phone
           /\ Taken.mainQ = Tail(u.mainQ)
           /\ Taken.state = u.state /\ Taken.timer = u.timer /\ Taken.delayed = u.delayed
           /\ Taken.isOtaUpgradeRunning = u.isOtaUpgradeRunning
           /\ Taken.isDeviceConnected = u.isDeviceConnected
           /\ Taken.dfuLib = u.dfuLib /\ Taken.adapter = u.adapter /\ Taken.link = u.link
           /\ Taken.completeError = u.completeError
           /\ Head(u.mainQ).ev # "timeout" => Still(u, Taken)
<1>1. /\ u.mainQ \in Seq(Blocks) /\ Head(u.mainQ) \in Blocks /\ Tail(u.mainQ) \in Seq(Blocks)
  BY HeadTailProperties DEF Phone
<1>2. Taken \in Phone
  BY <1>1 DEF Phone, Taken
<1>3. /\ Taken.mainQ = Tail(u.mainQ)
      /\ Taken.state = u.state /\ Taken.timer = u.timer /\ Taken.delayed = u.delayed
      /\ Taken.isOtaUpgradeRunning = u.isOtaUpgradeRunning
      /\ Taken.isDeviceConnected = u.isDeviceConnected
      /\ Taken.dfuLib = u.dfuLib /\ Taken.adapter = u.adapter /\ Taken.link = u.link
      /\ Taken.completeError = u.completeError
  BY DEF Phone, Taken
<1>4. \A E : Some(u.mainQ, E) <=> Head(u.mainQ) \in E \/ Some(Taken.mainQ, E)
  BY <1>1, <1>3, SomeTail
<1>5. Keeps(u, Taken)
  BY <1>2, <1>3, <1>4 DEF Keeps
<1>6. ASSUME Head(u.mainQ).ev # "timeout" PROVE Still(u, Taken)
  BY <1>3, <1>4, <1>6 DEF Still, Awake, On
<1> QED  BY <1>1, <1>2, <1>3, <1>5, <1>6

\* Outside of a quiet session only Basics is at stake.
LEMMA UncleanLive ==
    ASSUME hist' = hist, ~hist.clean, Basics(u')
    PROVE  LiveInv'
BY DEF LiveInv

LEMMA RunBlockLive ==
    ASSUME IInv, LiveInv, RunMainQueue
    PROVE  /\ LiveInv' /\ hist' = hist
           /\ Calm \/ ~hist.clean \/ Head(u.mainQ).ev = "start"
<1> DEFINE x == Taken
           b == Head(u.mainQ)
<1>1. u \in Phone /\ hist' = hist /\ air' = air /\ u.mainQ # <<>>
  BY DEF IInv, TypeOK, RunMainQueue
<1>2. u' = RunBlock(x, b)
  BY DEF RunMainQueue, Taken
<1>3. /\ Keeps(u, x) /\ b \in Blocks /\ x \in Phone /\ x.mainQ = Tail(u.mainQ)
      /\ x.state = u.state /\ x.timer = u.timer /\ x.delayed = u.delayed
      /\ x.isOtaUpgradeRunning = u.isOtaUpgradeRunning
      /\ x.isDeviceConnected = u.isDeviceConnected
      /\ x.dfuLib = u.dfuLib /\ x.adapter = u.adapter /\ x.link = u.link
      /\ x.completeError = u.completeError
      /\ b.ev # "timeout" => Still(u, x)
  BY <1>1, TakenKeeps
<1>4. b.ev \in Events /\ b.r \in Results
  BY <1>3 DEF Blocks, Events
<1>5. Basics(u) /\ (u.isOtaUpgradeRunning => u.state \notin {"idle", "complete", "readAppInfo"})
  BY DEF LiveInv, Basics, IInv, IdleIsNotRunning
<1>6. u.mainQ \in Seq(Blocks)
  BY <1>1 DEF Phone
<1>7. \A evs : b.ev \in evs => Some(u.mainQ, On(evs))
  BY <1>1, <1>3, <1>6, SomeTail DEF On
<1> HIDE DEF x
\* a start that waits quietly is taken by none but its own block
<1>8. Fresh(u, air) => b.ev = "start" /\ Tail(u.mainQ) = <<>>
  BY DEF Fresh, Block
<1>9. ASSUME b.ev # "start",
             Serves(x, u') \/ (Answers(x, u') /\ b.ev # "timeout")
      PROVE  LiveInv' /\ hist' = hist /\ Calm
  <2>1. Keeps(u, u')
    BY <1>3, <1>9, KeepsThrough DEF Answers, Serves
  <2>2. Ready(u') \/ Still(u, u')
    BY <1>3, <1>9 DEF Answers, Serves, Keeps, Still
  <2> QED  BY <1>1, <1>8, <1>9, <2>1, <2>2, CalmLive DEF Calm
<1>10. CASE b.ev = "start"
  <2> DEFINE i == [x EXCEPT !.state = "idle"]
             y == [i EXCEPT !.isOtaUpgradeRunning = TRUE]
  <2>1. u' = otaConnect(y)
    <3>1. i.state = "idle"
      BY <1>3 DEF Phone
    <3>2. u' = stateMachineProcess(i)
      BY <1>2, <1>10 DEF RunBlock, StartBlock
    <3> HIDE DEF i
    <3> QED  BY <3>1, <3>2 DEF stateMachineProcess
  <2>2. y \in Phone
    <3>1. "idle" \in OtaState
      BY StatesListed
    <3>2. i \in Phone
      BY <1>3, <3>1 DEF Phone
    <3> HIDE DEF i
    <3> QED  BY <3>2 DEF Phone
  <2>3. /\ y.mainQ = x.mainQ /\ y.dfuLib = x.dfuLib /\ y.adapter = x.adapter
        /\ y.link = x.link /\ y.isDeviceConnected = x.isDeviceConnected
    BY <1>3 DEF Phone
  <2> HIDE DEF y
  <2>4. Serves(y, u') /\ u'.state # "complete"
    BY <2>1, <2>2, ConnectServes
  <2>5. Basics(u')
    BY <1>3, <1>5, <2>3, <2>4 DEF Basics, Serves, Keeps, Ready
  <2>6. ASSUME hist.clean PROVE LiveInv'
    <3>1. ~u.isOtaUpgradeRunning
      <4>1. Some(u.mainQ, On({"start", "upload"}))
        BY <1>7, <1>10
      <4> QED  BY <2>6, <4>1 DEF LiveInv, Live, Alive
    <3>2. Fresh(u, air)
      BY <1>7, <1>10, <2>6, <3>1 DEF LiveInv, Live
    <3>3. y.mainQ = <<>>
      BY <1>3, <1>8, <2>3, <3>2
    <3>4. /\ ~Some(u'.mainQ, On({"start"})) /\ ~Some(u'.mainQ, On({"upload"}))
          /\ (Some(u'.mainQ, On({"notification"})) =>
                u'.isDeviceConnected \/ ~u'.isOtaUpgradeRunning)
      BY <2>4, <3>3, SomeEmpty DEF Serves, Keeps
    <3>5. u'.dfuLib = "idle" /\ (u'.isOtaUpgradeRunning => u'.timer)
      BY <1>3, <2>3, <2>4, <3>2 DEF Serves, Keeps, Ready, Fresh
    <3>6. ~Some(u'.mainQ, On({"start", "upload"}))
      BY <3>4 DEF Some, On
    <3>7. u'.isOtaUpgradeRunning => Alive(u')
      BY <3>4, <3>5, <3>6 DEF Alive, Awake
    <3> QED  BY <2>5, <3>4, <3>7 DEF LiveInv, Live
  <2> QED  BY <1>1, <1>10, <2>5, <2>6, UncleanLive
<1>11. CASE b.ev = "stop"
  <2>1. u' = StopBlock(x)
    BY <1>2, <1>11 DEF RunBlock
  <2> QED  BY <1>3, <1>9, <1>11, <2>1, StopBlockServes DEF Answers
<1>12. CASE b.ev = "upload"
  <2>1. u' = UploadBlock(x)
    BY <1>2, <1>12 DEF RunBlock
  <2>2. CASE ~x.isOtaUpgradeRunning
    BY <1>3, <1>9, <1>12, <2>1, <2>2, UploadBlockServes DEF Answers
  <2>3. CASE x.isOtaUpgradeRunning
    <3> DEFINE y == [x EXCEPT !.isOtaTransferForDfu = TRUE]
               s == [y EXCEPT !.state = "enableNotification"]
               z == StartTimer(s)
    <3>1. ~hist.clean
      <4>1. Some(u.mainQ, On({"start", "upload"}))
        BY <1>7, <1>12
      <4> QED  BY <1>3, <2>3, <4>1 DEF LiveInv, Live, Alive
    <3>2. u' = otaEnableNotification(y)
      BY <2>1 DEF UploadBlock
    <3>3. y \in Phone /\ y.link = x.link /\ y.adapter = x.adapter
      BY <1>3 DEF Phone
    <3> HIDE DEF y
    <3>4. Leaves(y, z) /\ z.state = "enableNotification"
      BY <3>3, EnteredLeaves, StatesListed
    <3>5. \/ u' = [z EXCEPT !.att = Append(@, Request("subscribe", 0, <<>>))]
          \/ u' = Post(z, "notification", "error")
      BY <3>2 DEF otaEnableNotification
    <3> HIDE DEF z
    <3>6. u'.state = "enableNotification" /\ u'.link = z.link /\ u'.adapter = z.adapter
      BY <3>4, <3>5 DEF Leaves, Phone, Post
    <3>7. Basics(u')
      BY <1>3, <1>5, <3>3, <3>4, <3>6 DEF Basics, Leaves
    <3> QED  BY <1>1, <3>1, <3>7, UncleanLive
  <2> QED  BY <2>2, <2>3
<1>13. CASE b.ev = "connection"
  <2>1. u' = _didUpdateConnectionState(x, b.r = "success")
    BY <1>2, <1>13 DEF RunBlock
  <2>2. (b.r = "success") \in BOOLEAN
    OBVIOUS
  <2> QED  BY <1>3, <1>9, <1>13, <2>1, <2>2, ConnectionAnswers
<1>14. CASE b.ev = "service"
  <2>1. u' = _didUpdateOtaServiceCharacteristicState(x, b.r = "success")
    BY <1>2, <1>14 DEF RunBlock
  <2>2. (b.r = "success") \in BOOLEAN
    OBVIOUS
  <2> QED  BY <1>3, <1>9, <1>14, <2>1, <2>2, ServiceAnswers
<1>15. CASE b.ev = "notification"
  <2>1. u' = _didUpdateNotificationState(x, b.r = "success")
    BY <1>2, <1>15 DEF RunBlock
  <2>2. (b.r = "success") \in BOOLEAN
    OBVIOUS
  <2>3. CASE x.isOtaUpgradeRunning => x.isDeviceConnected
    <3>1. Answers(x, u')
      BY <1>3, <1>5, <2>1, <2>2, <2>3, NotificationAnswers
    <3> QED  BY <1>9, <1>15, <3>1
  <2>4. CASE x.isOtaUpgradeRunning /\ ~x.isDeviceConnected
    <3>1. ~hist.clean
      <4>1. Some(u.mainQ, On({"notification"}))
        BY <1>7, <1>15
      <4> QED  BY <1>3, <2>4, <4>1 DEF LiveInv, Live, Alive
    <3>2. u' = StopTimer(x)
      BY <2>1, <2>4 DEF _didUpdateNotificationState
    <3>3. Leaves(x, u') /\ u'.state = x.state
      BY <1>3, <3>2, TimerLeaves
    <3>4. Basics(u')
      BY <1>3, <1>5, <3>3 DEF Basics, Leaves
    <3> QED  BY <1>1, <3>1, <3>4, UncleanLive
  <2> QED  BY <2>3, <2>4
<1>16. CASE b.ev = "value"
  <2>1. u' = _didUpdateValueFor(x, b.r)
    BY <1>2, <1>16 DEF RunBlock
  <2> QED  BY <1>3, <1>4, <1>9, <1>16, <2>1, ValueAnswers
<1>17. CASE b.ev = "timeout"
  <2>1. u' = _onOtaCommandTimeout(x)
    BY <1>2, <1>17 DEF RunBlock
  <2>2. x.state # "readAppInfo"
    BY <1>3, <1>5 DEF Basics
  <2> QED  BY <1>3, <1>9, <1>17, <2>1, <2>2, TimeoutServes
<1> QED  BY <1>4, <1>10, <1>11, <1>12, <1>13, <1>14, <1>15, <1>16, <1>17 DEF Events

LEMMA StepLive == IInv /\ LiveInv /\ [Next]_vars => LiveInv'
<1> SUFFICES ASSUME IInv, LiveInv, [Next]_vars PROVE LiveInv'
  OBVIOUS
<1>1. CASE User
  BY <1>1, OpenPageLive, StartLive, StopCalm, CalmLive DEF User
<1>2. CASE MeshLibrary
  BY <1>2, LibraryLive, NodeConnectStateCalm, CalmLive DEF MeshLibrary
<1>3. CASE CoreBluetooth
  BY <1>3, DidConnectCalm, DidFailCalm, DidDisconnectCalm, DeviceCalm, DidDiscoverCalm,
     DidUpdateNotificationCalm, DidWriteValueCalm, DidUpdateValueCalm, CalmLive
     DEF CoreBluetooth
<1>4. CASE RunLoop
  BY <1>4, RunBlockLive, RunDelayedCalm, TimerExpiresCalm, CalmLive DEF RunLoop
<1>5. CASE UNCHANGED vars
  BY <1>5 DEF vars, LiveInv, Live, Basics, Fresh, Alive, Awake
<1> QED  BY <1>1, <1>2, <1>3, <1>4, <1>5 DEF Next

\* An upgrade that was begun with nothing of an earlier one under way always
\* has a next event of the phone's own until it has ended: its timer is armed,
\* its delayed discovery is to come, or a block of the time-out waits.  No
\* guard of a handler returns after the timer was stopped.
THEOREM CleanNeverStalls == Spec => [](hist.clean => NeverStalls)
<1>1. IInv /\ LiveInv => (hist.clean => NeverStalls)
  <2> SUFFICES ASSUME IInv, LiveInv, hist.clean, u.isOtaUpgradeRunning
               PROVE  u.timer \/ u.delayed > 0 \/ u.mainQ # <<>>
    BY DEF NeverStalls
  <2>1. Awake(u)
    BY DEF LiveInv, Live, Alive
  <2> QED  BY <2>1, SomeEmpty DEF Awake
<1> QED  BY InitIInv, StepIInv, InitLive, StepLive, <1>1, PTL DEF Spec

-----------------------------------------------------------------------------
(* The image and its packets                                               *)

LEMMA Division ==
    ASSUME NEW a \in Nat, NEW m \in Nat \ {0}, NEW k \in Nat, k * m =< a, a < (k + 1) * m
    PROVE  a \div m = k
<1> DEFINE q == a \div m
<1>1. q \in Int /\ m * q =< a /\ a < m * q + m
  BY SMTT(30)
<1> HIDE DEF q
<1>2. m * q = q * m /\ (k + 1) * m = k * m + m /\ (q + 1) * m = q * m + m
  BY <1>1
<1>3. ASSUME q < k PROVE FALSE
  <2>1. (q + 1) * m =< k * m
    BY <1>1, <1>3
  <2> QED  BY <1>1, <1>2, <2>1
<1>4. ASSUME k < q PROVE FALSE
  <2>1. (k + 1) * m =< q * m
    BY <1>1, <1>4
  <2> QED  BY <1>1, <1>2, <2>1
<1> QED  BY <1>1, <1>3, <1>4 DEF q

\* The answer to a packet advances the offset to the next one, or to the end
\* of the image if it was the last.
LEMMA PacketAnswered ==
    ASSUME NEW k \in Nat \ {0}, (k - 1) * MaxPacket < ImageSize
    PROVE  LET off == (k - 1) * MaxPacket
               end == off + ChunkSize(off)
           IN  \/ end = k * MaxPacket /\ end < ImageSize
               \/ end = ImageSize /\ Packets(k) = ImageChunks
<1> DEFINE off == (k - 1) * MaxPacket
           p == k * MaxPacket
           end == off + ChunkSize(off)
<1>1. /\ ImageSize \in Nat \ {0} /\ MaxPacket \in Nat \ {0} /\ off \in Nat /\ p \in Nat
      /\ p = off + MaxPacket /\ (k + 1) * MaxPacket = p + MaxPacket
  BY ImageAssumption
<1> HIDE DEF off, p
<1>2. off < ImageSize
  BY DEF off
<1>3. CASE p < ImageSize
  <2>1. ChunkSize(off) = MaxPacket
    BY <1>1, <1>3 DEF ChunkSize, RestOfImage
  <2> QED  BY <1>1, <1>3, <2>1 DEF off, p
<1>4. CASE p >= ImageSize
  <2>1. end = ImageSize
    BY <1>1, <1>2, <1>4 DEF ChunkSize, RestOfImage
  <2>2. (ImageSize + MaxPacket - 1) \div MaxPacket = k
    <3>1. ImageSize + MaxPacket - 1 \in Nat
      BY <1>1
    <3>2. k * MaxPacket =< ImageSize + MaxPacket - 1
      BY <1>1, <1>2 DEF p
    <3>3. ImageSize + MaxPacket - 1 < (k + 1) * MaxPacket
      BY <1>1, <1>4
    <3> QED  BY <1>1, <3>1, <3>2, <3>3, Division
  <2> QED  BY <2>1, <2>2 DEF off, Packets, ImageChunks
<1> QED  BY <1>1, <1>3, <1>4

\* a packet is added
LEMMA PacketAdded ==
    ASSUME NEW k \in Nat
    PROVE  /\ Packets(k) \in Seq(Int) /\ Len(Packets(k)) = k
           /\ Append(Packets(k), k * MaxPacket) = Packets(k + 1)
<1>1. \A i \in 1 .. k + 1 : (i - 1) * MaxPacket \in Int
  BY ImageAssumption
<1>2. Packets(k) \in Seq(Int) /\ Len(Packets(k)) = k
  BY <1>1, SeqDef, LenProperties DEF Packets
<1>3. Packets(k + 1) \in Seq(Int) /\ Len(Packets(k + 1)) = k + 1
  BY <1>1 DEF Packets
<1>4. k * MaxPacket \in Int
  BY ImageAssumption
<1> DEFINE s == Append(Packets(k), k * MaxPacket)
<1>5. /\ s \in Seq(Int) /\ Len(s) = k + 1 /\ s[k + 1] = k * MaxPacket
      /\ \A i \in 1 .. k : s[i] = Packets(k)[i]
  BY <1>2, <1>4, AppendProperties
<1> HIDE DEF s
<1>6. \A i \in 1 .. k + 1 : s[i] = Packets(k + 1)[i]
  <2> TAKE i \in 1 .. k + 1
  <2>1. CASE i \in 1 .. k
    BY <1>5, <2>1 DEF Packets
  <2>2. CASE i = k + 1
    BY <1>5, <2>2 DEF Packets
  <2> QED  BY <2>1, <2>2
<1>7. s = Packets(k + 1)
  BY <1>3, <1>5, <1>6, SeqEqual
<1> QED  BY <1>2, <1>7 DEF s

LEMMA NoPackets == Packets(0) = <<>>
BY DEF Packets

-----------------------------------------------------------------------------
(* The commands of an upgrade, entered with nothing undecided              *)

LEMMA SomeMore ==
    ASSUME NEW S, NEW s \in Seq(S), NEW E, NEW F, S \cap E \subseteq F, Some(s, E)
    PROVE  Some(s, F)
<1>1. \A i \in 1 .. Len(s) : s[i] \in S
  BY ElementOfSeq
<1> QED  BY <1>1 DEF Some

LEMMA NoneOnce == \A s, E : ~Some(s, E) => Once(s, E)
BY DEF Some, Once

Failed(w) == w.completeError # "none"

\* all that Flow reads is the same
Alike(v, w) ==
    /\ w \in Phone
    /\ w.state = v.state /\ w.att = v.att /\ w.completion = v.completion
    /\ w.mainQ = v.mainQ /\ w.delayed = v.delayed /\ w.nodeConnecting = v.nodeConnecting
    /\ w.link = v.link /\ w.isDeviceConnected = v.isDeviceConnected
    /\ w.fwOffset = v.fwOffset /\ w.fwCrc32 = v.fwCrc32
    /\ w.transferringSize = v.transferringSize

\* a command was written
Sent(v, w, s, op) ==
    /\ w \in Phone /\ w.state = s /\ w.completion = op
    /\ \E q \in Ask({op}) \cap Undone : w.att = Append(v.att, q)
    /\ w.mainQ = v.mainQ /\ w.delayed = v.delayed /\ w.nodeConnecting = v.nodeConnecting
    /\ w.link = v.link /\ w.isDeviceConnected = v.isDeviceConnected

SameImage(v, w) == w.fwOffset = v.fwOffset /\ w.fwCrc32 = v.fwCrc32

LEMMA WriteSent ==
    ASSUME NEW v \in Phone, NEW op \in Commands
    PROVE  /\ Sent(v, Write(v, op), v.state, op) /\ SameImage(v, Write(v, op))
           /\ Write(v, op).transferringSize = v.transferringSize
<1> DEFINE w == Write(v, op)
           off == IF op = "data" THEN v.fwOffset ELSE 0
           crc == IF op = "verify" THEN v.fwCrc32 ELSE <<>>
           q == Request(op, off, crc)
<1>1. w \in Phone
  BY WriteKept DEF Kept
<1>2. off \in Int /\ crc \in Seq(Int)
  BY EmptySeq DEF Phone
<1>3. w.att = Append(v.att, q)
  BY DEF Write, Phone
<1>4. /\ w.state = v.state /\ w.completion = op
      /\ w.mainQ = v.mainQ /\ w.delayed = v.delayed /\ w.nodeConnecting = v.nodeConnecting
      /\ w.link = v.link /\ w.isDeviceConnected = v.isDeviceConnected
      /\ w.fwOffset = v.fwOffset /\ w.fwCrc32 = v.fwCrc32
      /\ w.transferringSize = v.transferringSize
  BY DEF Write, Phone
<1> HIDE DEF w, off, crc
<1>5. q \in Ask({op}) \cap Undone
  <2>1. q \in Requests
    BY <1>2, RequestType
  <2> QED  BY <2>1 DEF Ask, Undone, Request
<1> QED  BY <1>1, <1>3, <1>4, <1>5 DEF Sent, SameImage, w

LEMMA SentThrough ==
    ASSUME NEW v, NEW x, NEW w, NEW s, NEW op, x.att = v.att, x.mainQ = v.mainQ,
           x.delayed = v.delayed, x.nodeConnecting = v.nodeConnecting, x.link = v.link,
           x.isDeviceConnected = v.isDeviceConnected, Sent(x, w, s, op)
    PROVE  Sent(v, w, s, op)
BY DEF Sent

\* a command is entered with a device that can be written to
LEMMA EnteredSent ==
    ASSUME NEW v \in Phone, NEW s \in OtaState, NEW op \in Commands
    PROVE  LET w == Write(StartTimer([v EXCEPT !.state = s]), op)
           IN  /\ Sent(v, w, s, op) /\ SameImage(v, w)
               /\ w.transferringSize = v.transferringSize
<1> DEFINE e == [v EXCEPT !.state = s]
           x == StartTimer(e)
           w == Write(x, op)
<1>1. x \in Phone
  BY EnteredLeaves DEF Leaves
<1>2. /\ x.state = s /\ x.att = v.att /\ x.mainQ = v.mainQ
      /\ x.delayed = v.delayed /\ x.nodeConnecting = v.nodeConnecting /\ x.link = v.link
      /\ x.isDeviceConnected = v.isDeviceConnected
      /\ x.fwOffset = v.fwOffset /\ x.fwCrc32 = v.fwCrc32
      /\ x.transferringSize = v.transferringSize
  BY DEF StartTimer, Phone
<1> HIDE DEF x
<1>3. /\ Sent(x, w, x.state, op) /\ SameImage(x, w)
      /\ w.transferringSize = x.transferringSize
  BY <1>1, WriteSent
<1> HIDE DEF w
<1>4. Sent(v, w, s, op)
  BY <1>2, <1>3, SentThrough
<1> QED  BY <1>2, <1>3, <1>4 DEF SameImage, w, x

LEMMA FailedStays ==
    ASSUME NEW v, NEW w, Keeps(v, w), Failed(v)
    PROVE  Failed(w)
BY DEF Keeps, Failed

LEMMA AbortWithFails ==
    ASSUME NEW v \in Phone, NEW err \in Errors \ {"none"}
    PROVE  Failed(AbortWith(v, err))
<1> DEFINE x == [v EXCEPT !.completeError = err]
<1>1. x \in Phone /\ Failed(x)
  BY ErrorLeaves DEF Leaves, Failed
<1>2. AbortWith(v, err) = otaAbort(x)
  BY DEF AbortWith
<1> HIDE DEF x
<1> QED  BY <1>1, <1>2, AbortServes, FailedStays DEF Serves

LEMMA AbortSends ==
    ASSUME NEW v \in Phone
    PROVE  Failed(otaAbort(v)) \/ Sent(v, otaAbort(v), "abort", "abort")
<1> DEFINE x == StartTimer([v EXCEPT !.state = "abort"])
<1>1. x \in Phone
  BY EnteredLeaves, StatesListed DEF Leaves
<1>2. Sent(v, Write(x, "abort"), "abort", "abort")
  BY EnteredSent, StatesListed DEF Commands
<1>3. otaAbort(v) \in {Write(x, "abort"), otaAbortResponse(x, "error")}
  BY DEF otaAbort
<1> HIDE DEF x
<1>4. Failed(otaAbortResponse(x, "error"))
  BY <1>1, AbortResponseFails DEF Fails, Failed, Results
<1> QED  BY <1>2, <1>3, <1>4

LEMMA VerifySends ==
    ASSUME NEW v \in Phone
    PROVE  LET w == otaVerify(v)
           IN  Failed(w) \/ (Sent(v, w, "verify", "verify") /\ SameImage(v, w))
<1> DEFINE x == StartTimer([v EXCEPT !.state = "verify"])
<1>1. x \in Phone
  BY EnteredLeaves, StatesListed DEF Leaves
<1>2. Sent(v, Write(x, "verify"), "verify", "verify") /\ SameImage(v, Write(x, "verify"))
  BY EnteredSent, StatesListed DEF Commands
<1>3. otaVerify(v) \in {Write(x, "verify"), otaVerifyResponse(x, "error")}
  BY DEF otaVerify
<1> HIDE DEF x
<1>4. Failed(otaVerifyResponse(x, "error"))
  <2>1. StopTimer(x) \in Phone
    BY <1>1, TimerLeaves DEF Leaves
  <2>2. otaVerifyResponse(x, "error") = AbortWith(StopTimer(x), "write")
    BY DEF otaVerifyResponse
  <2> QED  BY <2>1, <2>2, AbortWithFails DEF Errors
<1> QED  BY <1>2, <1>3, <1>4

LEMMA TransferSends ==
    ASSUME NEW v \in Phone, ChunkSize(v.fwOffset) > 0
    PROVE  LET w == otaTransferData(v)
           IN  \/ Failed(w)
               \/ /\ Sent(v, w, "dataTransfer", "data")
                  /\ w.fwOffset = v.fwOffset /\ w.fwCrc32 = Append(v.fwCrc32, v.fwOffset)
                  /\ w.transferringSize = ChunkSize(v.fwOffset)
<1> DEFINE n == ChunkSize(v.fwOffset)
           y == [v EXCEPT !.state = "dataTransfer", !.transferringSize = n]
           h == [y EXCEPT !.fwCrc32 = Append(@, v.fwOffset)]
           x == StartTimer(h)
           w == otaTransferData(v)
<1>1. n \in Chunks /\ "dataTransfer" \in OtaState /\ Append(v.fwCrc32, v.fwOffset) \in Seq(Int)
  BY ChunkInt, StatesListed, AppendType DEF Phone
<1>2. w \in {Write(x, "data"), AbortWith(StopTimer(x), "write")}
  BY DEF otaTransferData
<1> HIDE DEF w, n
<1>3. y \in Phone
  BY <1>1 DEF Phone
<1>4. /\ y.state = "dataTransfer" /\ y.att = v.att /\ y.mainQ = v.mainQ
      /\ y.delayed = v.delayed /\ y.nodeConnecting = v.nodeConnecting /\ y.link = v.link
      /\ y.isDeviceConnected = v.isDeviceConnected
      /\ y.fwOffset = v.fwOffset /\ y.fwCrc32 = v.fwCrc32 /\ y.transferringSize = n
  BY DEF Phone
<1> HIDE DEF y
<1>5. h \in Phone
  BY <1>1, <1>3, <1>4 DEF Phone
<1>6. /\ h.state = y.state /\ h.att = y.att /\ h.mainQ = y.mainQ
      /\ h.delayed = y.delayed /\ h.nodeConnecting = y.nodeConnecting /\ h.link = y.link
      /\ h.isDeviceConnected = y.isDeviceConnected
      /\ h.fwOffset = y.fwOffset /\ h.fwCrc32 = Append(y.fwCrc32, v.fwOffset)
      /\ h.transferringSize = y.transferringSize
  BY <1>3 DEF Phone
<1> HIDE DEF h
<1>7. x \in Phone
  BY <1>5, TimerLeaves DEF Leaves
<1>8. /\ x.state = h.state /\ x.att = h.att /\ x.mainQ = h.mainQ
      /\ x.delayed = h.delayed /\ x.nodeConnecting = h.nodeConnecting /\ x.link = h.link
      /\ x.isDeviceConnected = h.isDeviceConnected
      /\ x.fwOffset = h.fwOffset /\ x.fwCrc32 = h.fwCrc32
      /\ x.transferringSize = h.transferringSize
  BY <1>5 DEF StartTimer, Phone
<1> HIDE DEF x
<1>9. CASE w = Write(x, "data")
  <2>1. /\ Sent(x, w, x.state, "data") /\ SameImage(x, w)
        /\ w.transferringSize = x.transferringSize
    BY <1>7, <1>9, WriteSent DEF Commands
  <2>2. Sent(v, w, "dataTransfer", "data")
    BY <1>4, <1>6, <1>8, <2>1, SentThrough
  <2> QED  BY <1>4, <1>6, <1>8, <2>1, <2>2 DEF SameImage, w, n
<1>10. CASE w = AbortWith(StopTimer(x), "write")
  <2>1. StopTimer(x) \in Phone
    BY <1>7, TimerLeaves DEF Leaves
  <2>2. Failed(w)
    BY <1>10, <2>1, AbortWithFails DEF Errors
  <2> QED  BY <2>2 DEF w
<1> QED  BY <1>2, <1>9, <1>10

LEMMA StartSends ==
    ASSUME NEW v \in Phone
    PROVE  LET w == otaStartDownload(v)
           IN  Failed(w) \/ (Sent(v, w, "startDownload", "start") /\ SameImage(v, w))
<1> DEFINE x == StartTimer([v EXCEPT !.state = "startDownload"])
<1>1. x \in Phone
  BY EnteredLeaves, StatesListed DEF Leaves
<1>2. Sent(v, Write(x, "start"), "startDownload", "start") /\ SameImage(v, Write(x, "start"))
  BY EnteredSent, StatesListed DEF Commands
<1>3. otaStartDownload(v) \in {Write(x, "start"), otaStartDownloadResponse(x, "error")}
  BY DEF otaStartDownload
<1> HIDE DEF x
<1>4. Failed(otaStartDownloadResponse(x, "error"))
  <2>1. StopTimer(x) \in Phone
    BY <1>1, TimerLeaves DEF Leaves
  <2>2. otaStartDownloadResponse(x, "error") = AbortWith(StopTimer(x), "write")
    BY DEF otaStartDownloadResponse
  <2> QED  BY <2>1, <2>2, AbortWithFails DEF Errors
<1> QED  BY <1>2, <1>3, <1>4

LEMMA PrepareSends ==
    ASSUME NEW v \in Phone
    PROVE  LET w == otaPrepareForDownload(v)
           IN  Failed(w) \/ (Sent(v, w, "prepareForDownload", "prepare") /\ SameImage(v, w))
<1> DEFINE x == StartTimer([v EXCEPT !.state = "prepareForDownload"])
<1>1. x \in Phone
  BY EnteredLeaves, StatesListed DEF Leaves
<1>2. /\ Sent(v, Write(x, "prepare"), "prepareForDownload", "prepare")
      /\ SameImage(v, Write(x, "prepare"))
  BY EnteredSent, StatesListed DEF Commands
<1>3. otaPrepareForDownload(v) \in
        {Write(x, "prepare"), otaPrepareForDownloadResponse(x, "error")}
  BY DEF otaPrepareForDownload
<1> HIDE DEF x
<1>4. Failed(otaPrepareForDownloadResponse(x, "error"))
  <2>1. StopTimer(x) \in Phone
    BY <1>1, TimerLeaves DEF Leaves
  <2>2. otaPrepareForDownloadResponse(x, "error") = CompleteWith(StopTimer(x), "write")
    BY DEF otaPrepareForDownloadResponse
  <2> QED  BY <2>1, <2>2, CompleteWithFails DEF Errors, Fails, Failed
<1> QED  BY <1>2, <1>3, <1>4

\* nothing is undecided: no verdict is to come and no answer waits
Bare(v, a) ==
    /\ Settled(v)
    /\ ~Some(v.mainQ, Blocks \ (On({"timeout", "stop"}) \cup Lost(v)))
    /\ ~Some(v.att, Requests \ Ask(Commands \ {"abort"})) /\ ~Some(v.att, Deciding)
    /\ ~Some(a, Notices)

LEMMA AlikeBare ==
    ASSUME NEW v, NEW w, NEW a, Alike(v, w), Bare(v, a)
    PROVE  Bare(w, a)
BY DEF Alike, Bare, Settled, Lost

LEMMA EnterLoading ==
    ASSUME NEW v \in Phone, NEW w, NEW d, NEW a, NEW s \in Late,
           Bare(v, a), Sent(v, w, s, Command[s]), Loaded(w)
    PROVE  Loading(w, d, a)
<1>1. PICK q \in Ask({Command[s]}) \cap Undone : w.att = Append(v.att, q)
  BY DEF Sent
<1>2. /\ w \in Phone /\ w.state = s /\ w.completion = Command[s] /\ w.mainQ = v.mainQ
      /\ Settled(w) /\ Lost(w) = Lost(v)
  BY DEF Sent, Bare, Settled, Lost
<1>3. /\ v.att \in Seq(Requests) /\ v.mainQ \in Seq(Blocks) /\ q \in Requests
      /\ q.op = Command[s] /\ Command[s] \in Commands \ {"abort"}
  BY <1>1 DEF Phone, Ask, Late, Command, Commands
<1>4. \A E : Some(w.att, E) <=> Some(v.att, E) \/ q \in E
  BY <1>1, <1>3, SomeAppend
<1>5. Clear(w)
  <2>1. Expected(w) = On({"timeout"}) \cup (On({"value", "stop"}) \cup Lost(v))
    BY <1>2 DEF Expected, Late
  <2> SUFFICES ASSUME Some(w.mainQ, Blocks \ Expected(w)) PROVE FALSE
    BY DEF Clear
  <2>2. Blocks \cap (Blocks \ Expected(w)) \subseteq
          Blocks \ (On({"timeout", "stop"}) \cup Lost(v))
    BY <2>1 DEF On
  <2> QED  BY <1>2, <1>3, <2>2, SomeMore DEF Bare
<1>6. ~Some(w.att, Requests \ Ask(Commands \ {"abort"}))
  BY <1>3, <1>4 DEF Bare, Ask
<1>7. ~Some(w.mainQ, On({"value"})) /\ ~Some(w.mainQ, Good("value"))
  <2>1. On({"value"}) \subseteq Blocks \ (On({"timeout", "stop"}) \cup Lost(v))
    BY DEF On, Lost, Bad
  <2>2. Good("value") \subseteq Blocks \ (On({"timeout", "stop"}) \cup Lost(v))
    BY DEF On, Lost, Bad, Good
  <2> QED  BY <1>2, <1>3, <2>1, <2>2, SomeMore DEF Bare
<1>8. ~Some(a, GoodNotices)
  BY DEF Bare, GoodNotices, Some
<1>9. OneVerdict(w, a)
  <2>1. ~Some(v.att, Deciding \ Ask({Command[s]}))
    BY <1>3, SomeMore DEF Bare
  <2>2. ~Some(w.att, Deciding \ Ask({Command[s]}))
    BY <1>1, <1>4, <2>1
  <2>3. ASSUME NEW i \in 1 .. Len(w.att), w.att[i] \in Deciding
        PROVE  i = Len(w.att)
    <3>1. /\ Len(v.att) \in Nat /\ Len(w.att) = Len(v.att) + 1
          /\ \A j \in 1 .. Len(v.att) : w.att[j] = v.att[j]
      BY <1>1, <1>3, AppendProperties, LenProperties
    <3>2. ~(i \in 1 .. Len(v.att))
      BY <2>3, <3>1 DEF Bare, Some
    <3> QED  BY <2>3, <3>1, <3>2
  <2> QED  BY <1>2, <1>7, <2>2, <2>3, NoneOnce DEF OneVerdict, Bare
<1>10. Verified(w, d, a)
  BY <1>7, <1>8 DEF Verified
<1> QED  BY <1>2, <1>5, <1>6, <1>9, <1>10 DEF Loading

\* what an abort may find
Stopping(v) ==
    /\ Settled(v)
    /\ ~Some(v.mainQ, Blocks \ (On({"timeout", "value", "stop"}) \cup Bad("connection")))
    /\ ~Some(v.att, Requests \ Ask(Commands))

LEMMA AbortAborts ==
    ASSUME NEW v \in Phone, Stopping(v)
    PROVE  Failed(otaAbort(v)) \/ Aborting(otaAbort(v))
<1> DEFINE w == otaAbort(v)
<1>1. SUFFICES ASSUME Sent(v, w, "abort", "abort") PROVE Aborting(w)
  BY AbortSends
<1> HIDE DEF w
<1>2. PICK q \in Ask({"abort"}) \cap Undone : w.att = Append(v.att, q)
  BY <1>1 DEF Sent
<1>3. w.state = "abort" /\ w.completion = "abort" /\ w.mainQ = v.mainQ /\ Settled(w)
  BY <1>1 DEF Sent, Stopping, Settled
<1>4. Clear(w)
  <2>1. Expected(w) = On({"timeout"}) \cup (On({"value", "stop"}) \cup Bad("connection"))
    BY <1>3 DEF Expected, Late
  <2>2. Blocks \cap (Blocks \ Expected(w)) \subseteq
          Blocks \ (On({"timeout", "value", "stop"}) \cup Bad("connection"))
    BY <2>1 DEF On
  <2>3. v.mainQ \in Seq(Blocks)
    BY DEF Phone
  <2> QED  BY <1>3, <2>2, <2>3, SomeMore DEF Stopping, Clear
<1>5. ~Some(w.att, Requests \ Ask(Commands))
  <2>1. v.att \in Seq(Requests) /\ q \in Requests /\ q.op \in Commands
    BY <1>2 DEF Phone, Ask, Commands
  <2> QED  BY <1>2, <2>1, SomeAppend DEF Stopping, Ask
<1> QED  BY <1>3, <1>4, <1>5 DEF Aborting

\* what a handler that was given a settled upgrade leaves
Loads(w, d, a) == Failed(w) \/ Loading(w, d, a)

LEMMA PrepareLoads ==
    ASSUME NEW v \in Phone, NEW d, NEW a, Bare(v, a), v.fwOffset = 0, v.fwCrc32 = <<>>
    PROVE  Loads(otaPrepareForDownload(v), d, a)
<1> DEFINE w == otaPrepareForDownload(v)
<1>1. SUFFICES ASSUME Sent(v, w, "prepareForDownload", "prepare"), SameImage(v, w)
               PROVE  Loading(w, d, a)
  BY PrepareSends DEF Loads
<1> HIDE DEF w
<1>2. "prepareForDownload" \in Late /\ Command["prepareForDownload"] = "prepare"
  BY DEF Late, Command
<1>3. Loaded(w)
  BY <1>1 DEF Sent, SameImage, Loaded
<1> QED  BY <1>1, <1>2, <1>3, EnterLoading

LEMMA StartLoads ==
    ASSUME NEW v \in Phone, NEW d, NEW a, Bare(v, a), v.fwOffset = 0, v.fwCrc32 = <<>>
    PROVE  Loads(otaStartDownload(v), d, a)
<1> DEFINE w == otaStartDownload(v)
<1>1. SUFFICES ASSUME Sent(v, w, "startDownload", "start"), SameImage(v, w)
               PROVE  Loading(w, d, a)
  BY StartSends DEF Loads
<1> HIDE DEF w
<1>2. "startDownload" \in Late /\ Command["startDownload"] = "start"
  BY DEF Late, Command
<1>3. Loaded(w)
  BY <1>1 DEF Sent, SameImage, Loaded
<1> QED  BY <1>1, <1>2, <1>3, EnterLoading

LEMMA VerifyLoads ==
    ASSUME NEW v \in Phone, NEW d, NEW a, Bare(v, a),
           v.fwOffset = ImageSize, v.fwCrc32 = ImageChunks
    PROVE  Loads(otaVerify(v), d, a)
<1> DEFINE w == otaVerify(v)
<1>1. SUFFICES ASSUME Sent(v, w, "verify", "verify"), SameImage(v, w)
               PROVE  Loading(w, d, a)
  BY VerifySends DEF Loads
<1> HIDE DEF w
<1>2. "verify" \in Late /\ Command["verify"] = "verify"
  BY DEF Late, Command
<1>3. Loaded(w)
  BY <1>1 DEF Sent, SameImage, Loaded
<1> QED  BY <1>1, <1>2, <1>3, EnterLoading

\* the packets before the one at the offset were answered
LEMMA TransferLoads ==
    ASSUME NEW v \in Phone, NEW d, NEW a, Bare(v, a), NEW k \in Nat,
           v.fwCrc32 = Packets(k), v.fwOffset = k * MaxPacket, v.fwOffset < ImageSize
    PROVE  Loads(otaTransferData(v), d, a)
<1> DEFINE w == otaTransferData(v)
<1>1. ImageSize \in Nat \ {0} /\ MaxPacket \in Nat \ {0} /\ v.fwOffset \in Int
  BY ImageAssumption DEF Phone
<1>2. ChunkSize(v.fwOffset) > 0
  BY <1>1 DEF ChunkSize, RestOfImage
<1>3. SUFFICES ASSUME Sent(v, w, "dataTransfer", "data"), w.fwOffset = v.fwOffset,
                      w.fwCrc32 = Append(v.fwCrc32, v.fwOffset),
                      w.transferringSize = ChunkSize(v.fwOffset)
               PROVE  Loading(w, d, a)
  BY <1>2, TransferSends DEF Loads
<1> HIDE DEF w
<1>4. "dataTransfer" \in Late /\ Command["dataTransfer"] = "data"
  BY DEF Late, Command
<1>5. w.fwCrc32 = Packets(k + 1) /\ Len(w.fwCrc32) = k + 1
  <2>1. k + 1 \in Nat /\ w.fwCrc32 = Append(Packets(k), k * MaxPacket)
    BY <1>3
  <2>2. Append(Packets(k), k * MaxPacket) = Packets(k + 1)
    BY PacketAdded
  <2> QED  BY <2>1, <2>2, PacketAdded
<1>6. Loaded(w)
  <2>1. w.state = "dataTransfer" /\ k + 1 > 0 /\ w.fwOffset = (k + 1 - 1) * MaxPacket
    BY <1>3 DEF Sent
  <2> QED  BY <1>3, <1>5, <2>1 DEF Loaded
<1> QED  BY <1>3, <1>4, <1>6, EnterLoading

-----------------------------------------------------------------------------
(* What the blocks do to an upgrade that began quietly                     *)

\* the queue and the fields the block is run on
LEMMA TakenRest ==
    ASSUME u \in Phone, u.mainQ # <<>>
    PROVE  /\ \A E : /\ Some(u.mainQ, E) <=> Head(u.mainQ) \in E \/ Some(Taken.mainQ, E)
                     /\ Once(u.mainQ, E) => Once(Taken.mainQ, E)
                     /\ Once(u.mainQ, E) /\ Head(u.mainQ) \in E => ~Some(Taken.mainQ, E)
           /\ Clear(u) => Clear(Taken) /\ Head(u.mainQ) \in Expected(u)
           /\ Taken.att = u.att /\ Taken.completion = u.completion
           /\ Taken.nodeConnecting = u.nodeConnecting
           /\ Taken.fwOffset = u.fwOffset /\ Taken.fwCrc32 = u.fwCrc32
           /\ Taken.transferringSize = u.transferringSize
<1>1. u.mainQ \in Seq(Blocks)
  BY DEF Phone
<1>2. /\ Taken.mainQ = Tail(u.mainQ) /\ Head(u.mainQ) \in Blocks
      /\ Taken.state = u.state /\ Taken.link = u.link
  BY TakenKeeps
<1>3. /\ Taken.att = u.att /\ Taken.completion = u.completion
      /\ Taken.nodeConnecting = u.nodeConnecting
      /\ Taken.fwOffset = u.fwOffset /\ Taken.fwCrc32 = u.fwCrc32
      /\ Taken.transferringSize = u.transferringSize
  BY DEF Taken, Phone
<1>4. \A E : /\ Some(u.mainQ, E) <=> Head(u.mainQ) \in E \/ Some(Taken.mainQ, E)
             /\ Once(u.mainQ, E) => Once(Taken.mainQ, E)
             /\ Once(u.mainQ, E) /\ Head(u.mainQ) \in E => ~Some(Taken.mainQ, E)
  BY <1>1, <1>2, SomeTail
<1>5. Expected(Taken) = Expected(u)
  BY <1>2 DEF Expected, Lost
<1>6. Clear(u) => Clear(Taken) /\ Head(u.mainQ) \in Expected(u)
  BY <1>2, <1>4, <1>5 DEF Clear
<1> QED  BY <1>3, <1>4, <1>6

\* a link that could not be made, or was lost
LEMMA ConnectionFails ==
    ASSUME NEW v \in Phone, v.isOtaUpgradeRunning, v.state \notin {"idle", "verify"}
    PROVE  Failed(_didUpdateConnectionState(v, FALSE))
<1> DEFINE f == ForgetServices(StopTimer(v))
           x == [f EXCEPT !.completeError = "connect"]
           w == _didUpdateConnectionState(v, FALSE)
<1>1. w \in {otaAbort(x), Complete(x)}
  BY DEF _didUpdateConnectionState
<1>2. f \in Phone
  BY TimerLeaves, DeviceLeaves DEF Leaves
<1> HIDE DEF f, w
<1>3. x \in Phone /\ Failed(x)
  BY <1>2, ErrorLeaves DEF Leaves, Errors, Failed
<1> HIDE DEF x
<1>4. Keeps(x, otaAbort(x)) /\ Keeps(x, Complete(x))
  BY <1>3, AbortServes, CompleteServes DEF Serves
<1> QED  BY <1>1, <1>3, <1>4, FailedStays DEF w

\* The link was lost while the image is verified: the end, or an abort.
LEMMA VerifyingLost ==
    ASSUME NEW v \in Phone, v.isOtaUpgradeRunning, v.state = "verify"
    PROVE  LET w == _didUpdateConnectionState(v, FALSE)
           IN  Failed(w) \/ ~w.isOtaUpgradeRunning
<1> DEFINE f == ForgetServices(StopTimer(v))
           x == [f EXCEPT !.completeError = "connect"]
           s == StopTimer(v)
           y == Complete(s)
           z == [y EXCEPT !.hasConnected = FALSE]
           w == _didUpdateConnectionState(v, FALSE)
<1>1. w \in {otaAbort(x), Complete(x), z}
  BY DEF _didUpdateConnectionState, otaVerifyResponse
<1>2. s \in Phone /\ f \in Phone
  BY TimerLeaves, DeviceLeaves DEF Leaves
<1> HIDE DEF f, w, s
<1>3. x \in Phone /\ Failed(x)
  BY <1>2, ErrorLeaves DEF Leaves, Errors, Failed
<1> HIDE DEF x
<1>4. Failed(otaAbort(x)) /\ Failed(Complete(x))
  BY <1>3, AbortServes, CompleteServes, FailedStays DEF Serves
<1>5. y \in Phone /\ ~y.isOtaUpgradeRunning
  BY <1>2, CompleteEnds
<1> HIDE DEF y
<1>6. ~z.isOtaUpgradeRunning
  BY <1>5 DEF Phone
<1> QED  BY <1>1, <1>4, <1>6 DEF w

\* the link was made; the discovery is given its 500 ms
LEMMA ConnectionMade ==
    ASSUME NEW v \in Phone, v.isOtaUpgradeRunning, v.state = "connect"
    PROVE  LET w == _didUpdateConnectionState(v, TRUE)
           IN  /\ w.state = v.state /\ w.att = v.att /\ w.mainQ = v.mainQ
               /\ w.delayed = v.delayed + 1 /\ w.nodeConnecting = v.nodeConnecting
               /\ w.link = v.link /\ w.isDeviceConnected = v.isDeviceConnected
               /\ SameImage(v, w)
BY DEF _didUpdateConnectionState, StopTimer, SameImage, Phone

\* What ends an upgrade that has not reached its commands does so with an
\* error.
LEMMA DoomedRuns ==
    ASSUME IInv, LiveInv, Going(u), Doomed(u), RunMainQueue
    PROVE  Failed(u')
<1> DEFINE b == Head(u.mainQ)
<1>1. u \in Phone /\ u.mainQ # <<>>
  BY DEF IInv, TypeOK, RunMainQueue
<1>2. u' = RunBlock(Taken, b)
  BY DEF RunMainQueue, Taken
<1>3. /\ Taken \in Phone /\ Taken.state = u.state /\ b \in Blocks
      /\ Taken.isOtaUpgradeRunning /\ Taken.isDeviceConnected = u.isDeviceConnected
  BY <1>1, TakenKeeps DEF Going
<1>4. u.state \in {"connect", "otaServiceDiscover", "enableNotification"} /\ b \in Final(u)
  BY DEF Doomed, Early
<1>5. CASE b.ev = "timeout"
  <2>1. u' = _onOtaCommandTimeout(Taken)
    BY <1>2, <1>5 DEF RunBlock
  <2> QED  BY <1>3, <1>4, <2>1, TimeoutServes DEF Failed
<1>6. CASE b \in Bad("connection")
  <2>1. u' = _didUpdateConnectionState(Taken, FALSE)
    BY <1>2, <1>6 DEF RunBlock, Bad
  <2> QED  BY <1>3, <1>4, <2>1, ConnectionFails
<1>7. StopTimer(Taken) \in Phone
  BY <1>3, TimerLeaves DEF Leaves
<1>8. CASE u.state = "otaServiceDiscover" /\ b \in Bad("service")
  <2>1. u' = _didUpdateOtaServiceCharacteristicState(Taken, FALSE)
    BY <1>2, <1>8 DEF RunBlock, Bad
  <2>2. Taken.isDeviceConnected
    BY <1>3, <1>8 DEF Doomed
  <2>3. u' = CompleteWith(StopTimer(Taken), "discover")
    BY <1>3, <1>8, <2>1, <2>2 DEF _didUpdateOtaServiceCharacteristicState
  <2> QED  BY <1>7, <2>3, CompleteWithFails DEF Errors, Fails, Failed
<1>9. CASE u.state = "enableNotification" /\ b \in Bad("notification")
  <2>1. u' = _didUpdateNotificationState(Taken, FALSE)
    BY <1>2, <1>9 DEF RunBlock, Bad
  <2>2. Taken.isDeviceConnected
    BY <1>3, <1>9 DEF Doomed
  <2>3. u' = CompleteWith(StopTimer(Taken), "notification")
    BY <1>3, <1>9, <2>1, <2>2 DEF _didUpdateNotificationState
  <2> QED  BY <1>7, <2>3, CompleteWithFails DEF Errors, Fails, Failed
<1> QED  BY <1>3, <1>4, <1>5, <1>6, <1>8, <1>9 DEF Final, On

\* a time-out, or a link that is lost before the verification
LEMMA EndRuns ==
    ASSUME IInv, LiveInv, Going(u), RunMainQueue, u.state \notin {"idle", "readAppInfo"},
           \/ Head(u.mainQ) \in On({"timeout"})
           \/ Head(u.mainQ) \in Bad("connection") /\ u.state # "verify"
    PROVE  Failed(u')
<1> DEFINE b == Head(u.mainQ)
<1>1. u \in Phone /\ u.mainQ # <<>>
  BY DEF IInv, TypeOK, RunMainQueue
<1>2. u' = RunBlock(Taken, b)
  BY DEF RunMainQueue, Taken
<1>3. Taken \in Phone /\ Taken.state = u.state /\ Taken.isOtaUpgradeRunning
  BY <1>1, TakenKeeps DEF Going
<1>4. CASE b \in On({"timeout"})
  <2>1. u' = _onOtaCommandTimeout(Taken)
    BY <1>2, <1>4 DEF RunBlock, On
  <2> QED  BY <1>3, <2>1, TimeoutServes DEF Failed
<1>5. CASE b \in Bad("connection") /\ u.state # "verify"
  <2>1. u' = _didUpdateConnectionState(Taken, FALSE)
    BY <1>2, <1>5 DEF RunBlock, Bad
  <2> QED  BY <1>3, <1>5, <2>1, ConnectionFails
<1> QED  BY <1>4, <1>5

LEMMA ConnectingRuns ==
    ASSUME IInv, LiveInv, Going(u), Connecting(u, air), RunMainQueue
    PROVE  Failed(u') \/ Connecting(u', air)
<1> DEFINE b == Head(u.mainQ)
           x == Taken
<1>1. u \in Phone /\ u.mainQ # <<>> /\ u.state = "connect"
  BY DEF IInv, TypeOK, RunMainQueue, Connecting
<1>2. u' = RunBlock(x, b)
  BY DEF RunMainQueue, Taken
<1>3. /\ x \in Phone /\ x.state = u.state /\ b \in Blocks /\ x.link = u.link
      /\ x.isOtaUpgradeRunning /\ x.isDeviceConnected = u.isDeviceConnected
      /\ x.delayed = u.delayed
  BY <1>1, TakenKeeps DEF Going
<1>4. /\ \A E : Once(u.mainQ, E) => Once(x.mainQ, E)
      /\ \A E : Once(u.mainQ, E) /\ b \in E => ~Some(x.mainQ, E)
      /\ \A E : b \in E => Some(u.mainQ, E)
      /\ Clear(x) /\ b \in Expected(u)
      /\ x.att = u.att /\ x.nodeConnecting = u.nodeConnecting
      /\ x.fwOffset = u.fwOffset /\ x.fwCrc32 = u.fwCrc32
  BY <1>1, TakenRest DEF Connecting
<1> HIDE DEF x
<1>5. b \in On({"timeout"}) \/ b \in On({"connection"})
  BY <1>1, <1>4 DEF Expected, Late
<1>6. CASE b \in On({"timeout"}) \/ b \in Bad("connection")
  BY <1>1, <1>6, EndRuns
<1>7. CASE b \in Good("connection")
  <2>1. u' = _didUpdateConnectionState(x, TRUE)
    BY <1>2, <1>7 DEF RunBlock, Good
  <2>2. /\ u'.state = x.state /\ u'.att = x.att /\ u'.mainQ = x.mainQ
        /\ u'.delayed = x.delayed + 1 /\ u'.nodeConnecting = x.nodeConnecting
        /\ u'.link = x.link /\ u'.isDeviceConnected = x.isDeviceConnected
        /\ u'.fwOffset = x.fwOffset /\ u'.fwCrc32 = x.fwCrc32
    BY <1>1, <1>3, <2>1, ConnectionMade DEF SameImage
  <2>3. b \in On({"connection"})
    BY <1>3, <1>7 DEF On, Good
  <2>4. u.delayed = 0 /\ ~u.nodeConnecting /\ u.link # "connecting"
        /\ ~Some(x.mainQ, On({"connection"}))
    BY <1>4, <2>3 DEF Connecting
  <2>5. Clear(u')
    <3>1. Expected(u') = Expected(x)
      BY <2>2 DEF Expected, Lost
    <3> QED  BY <1>4, <2>2, <3>1 DEF Clear
  <2> QED  BY <1>1, <1>3, <1>4, <2>2, <2>4, <2>5, NoneOnce DEF Connecting
<1> QED  BY <1>3, <1>5, <1>6, <1>7 DEF On, Bad, Good

LEMMA SomeMinus ==
    ASSUME NEW S, NEW s \in Seq(S), NEW E, NEW F, NEW G, ~Some(s, E), ~Some(s, F),
           S \cap G \subseteq E \cup F
    PROVE  ~Some(s, G)
<1>1. \A i \in 1 .. Len(s) : s[i] \in S
  BY ElementOfSeq
<1> QED  BY <1>1 DEF Some

LEMMA TimerAlike ==
    ASSUME NEW v \in Phone
    PROVE  Alike(v, StopTimer(v))
<1>1. StopTimer(v) \in Phone
  BY TimerLeaves DEF Leaves
<1> QED  BY <1>1 DEF Alike, StopTimer, Phone

LEMMA AlikeFlow ==
    ASSUME NEW v, NEW w, NEW d, NEW a, Alike(v, w)
    PROVE  /\ Settled(v) => Settled(w)
           /\ Discovering(v, a) => Discovering(w, a)
           /\ Subscribing(v, a) => Subscribing(w, a)
           /\ Loading(v, d, a) => Loading(w, d, a)
           /\ Connecting(v, a) => Connecting(w, a)
           /\ Aborting(v) => Aborting(w)
           /\ Doomed(v) => Doomed(w)
           /\ Stopping(v) => Stopping(w)
<1>1. /\ w.state = v.state /\ w.att = v.att /\ w.completion = v.completion
      /\ w.mainQ = v.mainQ /\ w.delayed = v.delayed /\ w.nodeConnecting = v.nodeConnecting
      /\ w.link = v.link /\ w.isDeviceConnected = v.isDeviceConnected
      /\ w.fwOffset = v.fwOffset /\ w.fwCrc32 = v.fwCrc32
      /\ w.transferringSize = v.transferringSize
  BY DEF Alike
<1>2. Expected(w) = Expected(v) /\ Final(w) = Final(v)
  BY <1>1 DEF Expected, Final, Lost
<1>3. Settled(w) <=> Settled(v)
  BY <1>1 DEF Settled
<1>4. Clear(w) <=> Clear(v)
  BY <1>1, <1>2 DEF Clear
<1>5. (Loaded(w) <=> Loaded(v)) /\ (OneVerdict(w, a) <=> OneVerdict(v, a))
  BY <1>1 DEF Loaded, OneVerdict
<1>6. Verified(w, d, a) <=> Verified(v, d, a)
  BY <1>1 DEF Verified
<1>7. (Connecting(v, a) => Connecting(w, a)) /\ (Doomed(v) => Doomed(w))
  BY <1>1, <1>2, <1>4 DEF Connecting, Doomed
<1>8. Discovering(v, a) => Discovering(w, a)
  BY <1>1, <1>3, <1>4 DEF Discovering
<1>9. Subscribing(v, a) => Subscribing(w, a)
  BY <1>1, <1>3, <1>4 DEF Subscribing
<1>10. Loading(v, d, a) => Loading(w, d, a)
  BY <1>1, <1>3, <1>4, <1>5, <1>6 DEF Loading
<1>11. (Aborting(v) => Aborting(w)) /\ (Stopping(v) => Stopping(w))
  BY <1>1, <1>3, <1>4 DEF Aborting, Stopping
<1> QED  BY <1>3, <1>7, <1>8, <1>9, <1>10, <1>11

\* the subscription is asked for, or fails at once
LEMMA EnterSubscribing ==
    ASSUME NEW v \in Phone, NEW a, Settled(v), v.att = <<>>, ~Some(a, Notices),
           ~Some(v.mainQ, Blocks \ (On({"timeout"}) \cup Lost(v))),
           v.fwOffset = 0, v.fwCrc32 = <<>>
    PROVE  Subscribing(otaEnableNotification(v), a)
<1> DEFINE e == [v EXCEPT !.state = "enableNotification"]
           x == StartTimer(e)
           q == Request("subscribe", 0, <<>>)
           b == Block("notification", "error")
           y == [x EXCEPT !.att = Append(@, q)]
           z == Post(x, "notification", "error")
           w == otaEnableNotification(v)
<1>1. w \in {y, z}
  BY DEF otaEnableNotification
<1>2. x \in Phone
  BY EnteredLeaves, StatesListed DEF Leaves
<1>3. /\ x.state = "enableNotification" /\ x.att = <<>> /\ x.mainQ = v.mainQ
      /\ x.delayed = v.delayed /\ x.nodeConnecting = v.nodeConnecting /\ x.link = v.link
      /\ x.isDeviceConnected = v.isDeviceConnected /\ x.fwOffset = 0 /\ x.fwCrc32 = <<>>
  BY DEF StartTimer, Phone
<1> HIDE DEF x, w
<1>4. /\ y.state = x.state /\ y.att = Append(<<>>, q) /\ y.mainQ = x.mainQ
      /\ y.delayed = x.delayed /\ y.nodeConnecting = x.nodeConnecting /\ y.link = x.link
      /\ y.isDeviceConnected = x.isDeviceConnected
      /\ y.fwOffset = x.fwOffset /\ y.fwCrc32 = x.fwCrc32
  BY <1>2, <1>3 DEF Phone
<1>5. /\ z.state = x.state /\ z.att = x.att /\ z.mainQ = Append(x.mainQ, b)
      /\ z.delayed = x.delayed /\ z.nodeConnecting = x.nodeConnecting /\ z.link = x.link
      /\ z.isDeviceConnected = x.isDeviceConnected
      /\ z.fwOffset = x.fwOffset /\ z.fwCrc32 = x.fwCrc32
  BY <1>2 DEF Post, Phone
<1> HIDE DEF y, z
<1>6. /\ v.mainQ \in Seq(Blocks) /\ b \in Blocks /\ q \in Requests
      /\ b \in On({"notification"}) /\ q \in Ask({"subscribe"})
      /\ <<>> \in Seq(Requests)
  <2>1. q \in Requests /\ q.op = "subscribe"
    BY BareRequestType DEF Request
  <2> QED  BY <2>1, EmptySeq DEF Phone, Block, Blocks, Results, On, Ask
<1> HIDE DEF q, b
<1>7. Settled(w)
  BY <1>1, <1>3, <1>4, <1>5 DEF Settled
<1>8. Expected(w) = On({"timeout"}) \cup (On({"notification"}) \cup Lost(v))
  BY <1>1, <1>3, <1>4, <1>5 DEF Expected, Late, Lost
<1>9. ~Some(v.mainQ, Blocks \ Expected(w))
  <2>1. Blocks \cap (Blocks \ Expected(w)) \subseteq Blocks \ (On({"timeout"}) \cup Lost(v))
    BY <1>8
  <2> QED  BY <1>6, <2>1, SomeMore
<1>10. ~Some(v.mainQ, On({"notification"}))
  <2>1. Blocks \cap On({"notification"}) \subseteq Blocks \ (On({"timeout"}) \cup Lost(v))
    BY DEF On, Lost, Bad
  <2> QED  BY <1>6, <2>1, SomeMore
<1>11. CASE w = y
  <2>1. Len(w.att) =< 1 /\ ~Some(w.att, Requests \ Ask({"subscribe"})) /\ w.mainQ = v.mainQ
    <3>1. w.att = Append(<<>>, q) /\ w.mainQ = v.mainQ
      BY <1>3, <1>4, <1>11
    <3>2. Len(Append(<<>>, q)) = 1
      <4>1. Len(<<>>) = 0
        OBVIOUS
      <4>2. Len(Append(<<>>, q)) = Len(<<>>) + 1
        BY <1>6, AppendProperties
      <4> QED  BY <4>1, <4>2
    <3>3. ~Some(Append(<<>>, q), Requests \ Ask({"subscribe"}))
      <4>1. q \notin Requests \ Ask({"subscribe"}) /\ <<>> \in Seq(Requests) /\ q \in Requests
        BY <1>6
      <4> QED  BY <4>1, SomeAppend, SomeEmpty
    <3> QED  BY <3>1, <3>2, <3>3
  <2> QED  BY <1>3, <1>4, <1>7, <1>9, <1>10, <1>11, <2>1, NoneOnce
           DEF Subscribing, Clear, w
<1>12. CASE w = z
  <2>1. /\ w.att = <<>> /\ w.mainQ = Append(v.mainQ, b) /\ w.state = "enableNotification"
        /\ w.fwOffset = 0 /\ w.fwCrc32 = <<>>
    BY <1>3, <1>5, <1>12
  <2>2. ~Some(w.mainQ, Blocks \ Expected(w))
    BY <1>6, <1>8, <1>9, <2>1, SomeAppend
  <2>3. Once(w.mainQ, On({"notification"}))
    BY <1>6, <1>10, <2>1, SomeAppend, NoneOnce
  <2>4. Len(w.att) =< 1 /\ ~Some(w.att, Requests \ Ask({"subscribe"}))
    BY <2>1, SomeEmpty
  <2> QED  BY <1>7, <2>1, <2>2, <2>3, <2>4 DEF Subscribing, Clear, w
<1> QED  BY <1>1, <1>11, <1>12

LEMMA DiscoveringRuns ==
    ASSUME IInv, LiveInv, Going(u), Discovering(u, air), RunMainQueue
    PROVE  Failed(u') \/ Discovering(u', air) \/ Subscribing(u', air)
<1> DEFINE b == Head(u.mainQ)
           x == Taken
           s == StopTimer(x)
<1>1. /\ u \in Phone /\ u.mainQ # <<>> /\ u.state = "otaServiceDiscover"
      /\ u.isDeviceConnected /\ u.mainQ \in Seq(Blocks)
  BY DEF IInv, TypeOK, RunMainQueue, Discovering, Settled, Phone
<1>2. u' = RunBlock(x, b)
  BY DEF RunMainQueue, Taken
<1>3. /\ x \in Phone /\ x.state = u.state /\ b \in Blocks /\ x.link = u.link
      /\ x.isOtaUpgradeRunning /\ x.isDeviceConnected = u.isDeviceConnected
      /\ x.delayed = u.delayed /\ x.mainQ \in Seq(Blocks)
  BY <1>1, TakenKeeps DEF Going, Phone
<1>4. /\ \A E : Once(u.mainQ, E) => Once(x.mainQ, E)
      /\ \A E : Once(u.mainQ, E) /\ b \in E => ~Some(x.mainQ, E)
      /\ \A E : b \in E \/ Some(x.mainQ, E) => Some(u.mainQ, E)
      /\ Clear(x) /\ b \in Expected(u)
      /\ x.att = u.att /\ x.nodeConnecting = u.nodeConnecting
      /\ x.fwOffset = u.fwOffset /\ x.fwCrc32 = u.fwCrc32
  BY <1>1, TakenRest DEF Discovering
<1> HIDE DEF x
<1>5. \/ b \in On({"timeout"}) \cup On({"service", "value"})
      \/ b \in Bad("connection")
  BY <1>1, <1>4 DEF Expected, Late, Lost
<1>6. CASE b \in On({"timeout"}) \/ b \in Bad("connection")
  BY <1>1, <1>6, EndRuns
<1>7. CASE b \in On({"service"})
  <2>1. u' = _didUpdateOtaServiceCharacteristicState(x, b.r = "success")
    BY <1>2, <1>7 DEF RunBlock, On
  <2>2. u' = IF b.r = "success" THEN otaEnableNotification(s) ELSE CompleteWith(s, "discover")
    BY <1>1, <1>3, <2>1 DEF _didUpdateOtaServiceCharacteristicState
  <2>3. Alike(x, s) /\ s \in Phone
    BY <1>3, TimerAlike DEF Alike
  <2> HIDE DEF s
  <2>4. Failed(CompleteWith(s, "discover"))
    BY <2>3, CompleteWithFails DEF Errors, Fails, Failed
  <2>5. u.att = <<>> /\ ~Some(x.mainQ, On({"service"})) /\ ~Some(x.mainQ, On({"value"}))
    BY <1>4, <1>7 DEF Discovering
  <2>6. Subscribing(otaEnableNotification(s), air)
    <3>1. s.att = <<>> /\ s.fwOffset = 0 /\ s.fwCrc32 = <<>> /\ s.mainQ = x.mainQ
      BY <1>4, <2>3, <2>5 DEF Alike, Discovering
    <3>2. Settled(s)
      BY <1>3, <1>4, <2>3 DEF Alike, Discovering, Settled
    <3>3. ~Some(air, Notices)
      BY DEF Discovering
    <3>4. ~Some(x.mainQ, Blocks \ (On({"timeout"}) \cup Lost(s)))
      <4>1. ~Some(x.mainQ, Blocks \ Expected(x))
        BY <1>4 DEF Clear
      <4>2. ~Some(x.mainQ, On({"service", "value"}))
        BY <2>5 DEF Some, On
      <4>3. Expected(x) = On({"timeout"}) \cup (On({"service", "value"}) \cup Lost(x))
        BY <1>1, <1>3 DEF Expected, Late
      <4>4. Lost(s) = Lost(x)
        BY <2>3 DEF Lost, Alike
      <4>5. Blocks \cap (Blocks \ (On({"timeout"}) \cup Lost(s))) \subseteq
              (Blocks \ Expected(x)) \cup On({"service", "value"})
        BY <4>3, <4>4
      <4> QED  BY <1>3, <4>1, <4>2, <4>5, SomeMinus
    <3> QED  BY <2>3, <3>1, <3>2, <3>3, <3>4, EnterSubscribing
  <2> QED  BY <2>2, <2>4, <2>6
<1>8. CASE b \in On({"value"})
  <2>1. u' = x
    BY <1>1, <1>2, <1>3, <1>8 DEF RunBlock, On, _didUpdateValueFor
  <2>2. Settled(x)
    BY <1>3, <1>4 DEF Settled, Discovering
  <2> QED  BY <1>3, <1>4, <2>1, <2>2 DEF Discovering
<1> QED  BY <1>3, <1>5, <1>6, <1>7, <1>8 DEF On

LEMMA SubscribingRuns ==
    ASSUME IInv, LiveInv, Going(u), Subscribing(u, air), RunMainQueue
    PROVE  Loads(u', dev, air)
<1> DEFINE b == Head(u.mainQ)
           x == Taken
           s == StopTimer(x)
<1>1. /\ u \in Phone /\ u.mainQ # <<>> /\ u.state = "enableNotification"
      /\ u.isDeviceConnected /\ u.mainQ \in Seq(Blocks)
  BY DEF IInv, TypeOK, RunMainQueue, Subscribing, Settled, Phone
<1>2. u' = RunBlock(x, b)
  BY DEF RunMainQueue, Taken
<1>3. /\ x \in Phone /\ x.state = u.state /\ b \in Blocks /\ x.link = u.link
      /\ x.isOtaUpgradeRunning /\ x.isDeviceConnected = u.isDeviceConnected
      /\ x.delayed = u.delayed /\ x.mainQ \in Seq(Blocks)
  BY <1>1, TakenKeeps DEF Going, Phone
<1>4. /\ \A E : Once(u.mainQ, E) /\ b \in E => ~Some(x.mainQ, E)
      /\ \A E : b \in E \/ Some(x.mainQ, E) => Some(u.mainQ, E)
      /\ Clear(x) /\ b \in Expected(u)
      /\ x.att = u.att /\ x.nodeConnecting = u.nodeConnecting
      /\ x.fwOffset = u.fwOffset /\ x.fwCrc32 = u.fwCrc32
  BY <1>1, TakenRest DEF Subscribing
<1> HIDE DEF x
<1>5. \/ b \in On({"timeout"}) \cup On({"notification"})
      \/ b \in Bad("connection")
  BY <1>1, <1>4 DEF Expected, Late, Lost
<1>6. CASE b \in On({"timeout"}) \/ b \in Bad("connection")
  BY <1>1, <1>6, EndRuns DEF Loads
<1>7. CASE b \in On({"notification"})
  <2>1. u' = _didUpdateNotificationState(x, b.r = "success")
    BY <1>2, <1>7 DEF RunBlock, On
  <2>2. u' = IF b.r = "success" THEN otaPrepareForDownload(s)
             ELSE CompleteWith(s, "notification")
    BY <1>1, <1>3, <2>1 DEF _didUpdateNotificationState
  <2>3. Alike(x, s) /\ s \in Phone
    BY <1>3, TimerAlike DEF Alike
  <2> HIDE DEF s
  <2>4. Failed(CompleteWith(s, "notification"))
    BY <2>3, CompleteWithFails DEF Errors, Fails, Failed
  <2>5. u.att = <<>> /\ ~Some(x.mainQ, On({"notification"}))
    BY <1>4, <1>7 DEF Subscribing
  <2>6. Bare(x, air)
    <3>1. Settled(x)
      BY <1>3, <1>4 DEF Subscribing, Settled
    <3>2. ~Some(x.mainQ, Blocks \ (On({"timeout", "stop"}) \cup Lost(x)))
      <4>1. ~Some(x.mainQ, Blocks \ Expected(x))
        BY <1>4 DEF Clear
      <4>2. Expected(x) = On({"timeout"}) \cup (On({"notification"}) \cup Lost(x))
        BY <1>1, <1>3 DEF Expected, Late
      <4>3. Blocks \cap (Blocks \ (On({"timeout", "stop"}) \cup Lost(x))) \subseteq
              (Blocks \ Expected(x)) \cup On({"notification"})
        BY <4>2 DEF On
      <4> QED  BY <1>3, <2>5, <4>1, <4>3, SomeMinus
    <3> QED  BY <1>4, <2>5, <3>1, <3>2, SomeEmpty DEF Bare, Subscribing
  <2>7. Loads(otaPrepareForDownload(s), dev, air)
    <3>1. Bare(s, air) /\ s.fwOffset = 0 /\ s.fwCrc32 = <<>>
      BY <1>4, <2>3, <2>6, AlikeBare DEF Subscribing, Alike
    <3> QED  BY <2>3, <3>1, PrepareLoads
  <2> QED  BY <2>2, <2>4, <2>7 DEF Loads
<1> QED  BY <1>3, <1>5, <1>6, <1>7

\* the device holds the image, or all of it was sent before the link was lost
HasImage == \/ dev.mode = "verified"
            \/ u.link = "down" /\ u.fwOffset = ImageSize /\ u.fwCrc32 = ImageChunks

LEMMA ResponsesFail ==
    ASSUME NEW v \in Phone, NEW r \in {"failure", "error"}
    PROVE  /\ Failed(otaPrepareForDownloadResponse(v, r))
           /\ Failed(otaStartDownloadResponse(v, r)) /\ Failed(otaVerifyResponse(v, r))
<1> DEFINE s == StopTimer(v)
<1>1. s \in Phone
  BY TimerLeaves DEF Leaves
<1>2. /\ otaPrepareForDownloadResponse(v, r) \in
           {CompleteWith(s, "response"), CompleteWith(s, "write")}
      /\ otaStartDownloadResponse(v, r) \in {AbortWith(s, "response"), AbortWith(s, "write")}
      /\ otaVerifyResponse(v, r) \in {AbortWith(s, "verification"), AbortWith(s, "write")}
  BY DEF otaPrepareForDownloadResponse, otaStartDownloadResponse, otaVerifyResponse
<1> HIDE DEF s
<1>3. /\ Failed(CompleteWith(s, "response")) /\ Failed(CompleteWith(s, "write"))
      /\ Failed(AbortWith(s, "response")) /\ Failed(AbortWith(s, "write"))
      /\ Failed(AbortWith(s, "verification"))
  BY <1>1, CompleteWithFails, AbortWithFails DEF Errors, Fails, Failed
<1> QED  BY <1>2, <1>3

\* an abort by the user, in any state after the subscription
LEMMA StopAborts ==
    ASSUME NEW v \in Phone, Stopping(v)
    PROVE  Failed(StopBlock(v)) \/ Aborting(StopBlock(v))
<1> DEFINE flag == IF v.dfuType = "app" THEN v.isOtaAbortForDfu ELSE TRUE
           x == [v EXCEPT !.isOtaAbortForDfu = flag]
<1>1. flag \in BOOLEAN
  BY DEF Phone
<1>2. StopBlock(v) = otaAbort(x)
  BY DEF StopBlock
<1> HIDE DEF flag
<1>3. x \in Phone
  BY <1>1 DEF Phone
<1>4. Alike(v, x)
  BY <1>3 DEF Alike, Phone
<1> HIDE DEF x
<1> QED  BY <1>2, <1>3, <1>4, AlikeFlow, AbortAborts

\* with the only answer taken, nothing is undecided
LEMMA ValueTaken ==
    ASSUME u \in Phone, u.mainQ # <<>>, Loading(u, dev, air), Head(u.mainQ) \in On({"value"})
    PROVE  Bare(Taken, air)
<1> DEFINE b == Head(u.mainQ)
           x == Taken
<1>1. /\ x \in Phone /\ x.state = u.state /\ b \in Blocks /\ x.link = u.link
      /\ x.isDeviceConnected = u.isDeviceConnected
      /\ x.delayed = u.delayed /\ x.mainQ \in Seq(Blocks)
  BY TakenKeeps DEF Phone
<1>2. /\ \A E : Once(u.mainQ, E) /\ b \in E => ~Some(x.mainQ, E)
      /\ \A E : b \in E \/ Some(x.mainQ, E) => Some(u.mainQ, E)
      /\ Clear(x) /\ x.att = u.att /\ x.nodeConnecting = u.nodeConnecting
  BY TakenRest DEF Loading
<1> HIDE DEF x
<1>3. Some(u.mainQ, On({"value"}))
  BY <1>2
<1>4. ~Some(u.att, Deciding) /\ ~Some(air, Notices) /\ ~Some(x.mainQ, On({"value"}))
  BY <1>2, <1>3 DEF Loading, OneVerdict
<1>5. Settled(x)
  BY <1>1, <1>2 DEF Loading, Settled
<1>6. ~Some(x.mainQ, Blocks \ (On({"timeout", "stop"}) \cup Lost(x)))
  <2>1. ~Some(x.mainQ, Blocks \ Expected(x))
    BY <1>2 DEF Clear
  <2>2. Expected(x) = On({"timeout"}) \cup (On({"value", "stop"}) \cup Lost(x))
    <3>1. x.state \in Late
      BY <1>1 DEF Loading
    <3> QED  BY <3>1 DEF Expected, Late
  <2>3. Blocks \cap (Blocks \ (On({"timeout", "stop"}) \cup Lost(x))) \subseteq
          (Blocks \ Expected(x)) \cup On({"value"})
    BY <2>2 DEF On
  <2> QED  BY <1>1, <1>4, <2>1, <2>3, SomeMinus
<1> DEFINE F == Requests \ Ask(Commands \ {"abort"})
           G == Blocks \ (On({"timeout", "stop"}) \cup Lost(x))
<1>7. ~Some(u.att, F) /\ ~Some(x.mainQ, G)
  BY <1>6 DEF Loading
<1>8. Bare(x, air) <=> /\ Settled(x) /\ ~Some(x.mainQ, G)
                       /\ ~Some(x.att, F) /\ ~Some(x.att, Deciding) /\ ~Some(air, Notices)
  BY DEF Bare
<1> HIDE DEF F, G
<1>9. x.att = u.att
  BY <1>2
<1>10. Bare(x, air)
  BY <1>4, <1>5, <1>7, <1>8, <1>9
<1> QED  BY <1>10 DEF x

LEMMA LoadingRuns ==
    ASSUME IInv, LiveInv, Going(u), Loading(u, dev, air), RunMainQueue
    PROVE  Loads(u', dev, air) \/ Aborting(u') \/ (~u'.isOtaUpgradeRunning /\ HasImage)
<1> DEFINE b == Head(u.mainQ)
           x == Taken
           s == StopTimer(x)
<1>1. u \in Phone /\ u.mainQ # <<>> /\ u.state \in Late /\ u.isDeviceConnected
  BY DEF IInv, TypeOK, RunMainQueue, Loading, Settled
<1>2. u' = RunBlock(x, b)
  BY DEF RunMainQueue, Taken
<1>3. /\ x \in Phone /\ x.state = u.state /\ b \in Blocks /\ x.link = u.link
      /\ x.isOtaUpgradeRunning /\ x.isDeviceConnected = u.isDeviceConnected
      /\ x.delayed = u.delayed
  BY <1>1, TakenKeeps DEF Going
<1>4. /\ \A E : b \in E \/ Some(x.mainQ, E) => Some(u.mainQ, E)
      /\ Clear(x) /\ b \in Expected(u)
      /\ x.att = u.att /\ x.nodeConnecting = u.nodeConnecting
      /\ x.fwOffset = u.fwOffset /\ x.fwCrc32 = u.fwCrc32
  BY <1>1, TakenRest DEF Loading
<1>5. b \in On({"value"}) => Bare(x, air)
  BY <1>1, ValueTaken
<1> HIDE DEF x
<1>6. \/ b \in On({"timeout"}) \cup On({"value", "stop"})
      \/ b \in Bad("connection") /\ u.link = "down"
  BY <1>1, <1>4 DEF Expected, Late, Lost
<1>7. CASE b \in On({"timeout"}) \/ (b \in Bad("connection") /\ u.state # "verify")
  BY <1>1, <1>7, EndRuns DEF Loads, Late
<1>8. CASE b \in Bad("connection") /\ u.link = "down" /\ u.state = "verify"
  <2>1. u' = _didUpdateConnectionState(x, FALSE)
    BY <1>2, <1>8 DEF RunBlock, Bad
  <2>2. Failed(u') \/ ~u'.isOtaUpgradeRunning
    BY <1>3, <1>8, <2>1, VerifyingLost
  <2>3. HasImage
    BY <1>8 DEF Loading, Loaded, HasImage
  <2> QED  BY <2>2, <2>3 DEF Loads
<1>9. CASE b.ev = "stop"
  <2>1. u' = StopBlock(x)
    BY <1>2, <1>9 DEF RunBlock
  <2>2. Stopping(x)
    <3>1. Settled(x)
      BY <1>3, <1>4 DEF Loading, Settled
    <3>2. ~Some(x.mainQ, Blocks \ (On({"timeout", "value", "stop"}) \cup Bad("connection")))
      <4>1. ~Some(x.mainQ, Blocks \ Expected(x)) /\ x.mainQ \in Seq(Blocks)
        BY <1>3, <1>4 DEF Clear, Phone
      <4>2. Expected(x) = On({"timeout"}) \cup (On({"value", "stop"}) \cup Lost(x))
        BY <1>1, <1>3 DEF Expected, Late
      <4>3. Blocks \cap (Blocks \ (On({"timeout", "value", "stop"}) \cup Bad("connection")))
              \subseteq Blocks \ Expected(x)
        BY <4>2 DEF On, Lost
      <4> QED  BY <4>1, <4>3, SomeMore
    <3>3. ~Some(x.att, Requests \ Ask(Commands))
      <4> DEFINE E == Requests \ Ask(Commands)
                 F == Requests \ Ask(Commands \ {"abort"})
      <4>1. x.att \in Seq(Requests) /\ ~Some(x.att, F)
        BY <1>3, <1>4 DEF Phone, Loading
      <4>2. Requests \cap E \subseteq F
        BY DEF Ask
      <4> HIDE DEF E, F
      <4>3. ~Some(x.att, E)
        BY <4>1, <4>2, SomeMore
      <4> QED  BY <4>3 DEF E
    <3> QED  BY <3>1, <3>2, <3>3 DEF Stopping
  <2> QED  BY <1>3, <2>1, <2>2, StopAborts DEF Loads
<1>10. CASE b \in On({"value"})
  <2>1. u' = _didUpdateValueFor(x, b.r)
    BY <1>2, <1>10 DEF RunBlock, On
  <2>2. b.r \in Results
    BY <1>3 DEF Blocks
  <2>3. Alike(x, s) /\ s \in Phone
    BY <1>3, TimerAlike DEF Alike
  <2>4. Bare(s, air) /\ s.fwOffset = u.fwOffset /\ s.fwCrc32 = u.fwCrc32
    BY <1>4, <1>5, <1>10, <2>3, AlikeBare DEF Alike
  <2>5. CASE u.state = "prepareForDownload"
    <3>1. u' = otaPrepareForDownloadResponse(x, b.r)
      BY <1>1, <1>3, <2>1, <2>5 DEF _didUpdateValueFor
    <3>2. CASE b.r # "success"
      BY <1>3, <2>2, <3>1, <3>2, ResponsesFail DEF Results, Loads
    <3>3. CASE b.r = "success"
      <4>1. u' = otaStartDownload(s)
        BY <3>1, <3>3 DEF otaPrepareForDownloadResponse
      <4>2. s.fwOffset = 0 /\ s.fwCrc32 = <<>>
        BY <2>4, <2>5 DEF Loading, Loaded
      <4> HIDE DEF s
      <4> QED  BY <2>3, <2>4, <4>1, <4>2, StartLoads
    <3> QED  BY <3>2, <3>3
  <2>6. CASE u.state = "startDownload"
    <3>1. u' = otaStartDownloadResponse(x, b.r)
      BY <1>1, <1>3, <2>1, <2>6 DEF _didUpdateValueFor
    <3>2. CASE b.r # "success"
      BY <1>3, <2>2, <3>1, <3>2, ResponsesFail DEF Results, Loads
    <3>3. CASE b.r = "success"
      <4>1. u' = otaTransferData(s)
        BY <3>1, <3>3 DEF otaStartDownloadResponse
      <4>2. s.fwOffset = 0 /\ s.fwCrc32 = <<>>
        BY <2>4, <2>6 DEF Loading, Loaded
      <4> HIDE DEF s
      <4>3. s.fwCrc32 = Packets(0) /\ s.fwOffset = 0 * MaxPacket /\ s.fwOffset < ImageSize
        BY <4>2, NoPackets, ImageAssumption
      <4> QED  BY <2>3, <2>4, <4>1, <4>3, TransferLoads
    <3> QED  BY <3>2, <3>3
  <2>7. CASE u.state = "dataTransfer"
    BY <1>4, <1>10, <2>7 DEF Loading, OneVerdict
  <2>8. CASE u.state = "verify"
    <3>1. u' = otaVerifyResponse(x, b.r)
      BY <1>1, <1>3, <2>1, <2>8 DEF _didUpdateValueFor
    <3>2. CASE b.r # "success"
      BY <1>3, <2>2, <3>1, <3>2, ResponsesFail DEF Results, Loads
    <3>3. CASE b.r = "success"
      <4>1. u' = Complete(s)
        BY <3>1, <3>3 DEF otaVerifyResponse
      <4>2. ~u'.isOtaUpgradeRunning
        BY <2>3, <4>1, CompleteEnds
      <4>3. b \in Good("value")
        BY <1>3, <1>10, <3>3 DEF On, Good
      <4>4. HasImage
        BY <1>4, <2>8, <4>3 DEF Loading, Verified, HasImage
      <4> QED  BY <4>2, <4>4
    <3> QED  BY <3>2, <3>3
  <2> QED  BY <1>1, <2>5, <2>6, <2>7, <2>8 DEF Late
<1> QED  BY <1>3, <1>6, <1>7, <1>8, <1>9, <1>10 DEF On

LEMMA AbortingRuns ==
    ASSUME IInv, LiveInv, Going(u), Aborting(u), RunMainQueue
    PROVE  Failed(u') \/ Aborting(u')
<1> DEFINE b == Head(u.mainQ)
           x == Taken
<1>1. u \in Phone /\ u.mainQ # <<>> /\ u.state = "abort" /\ u.isDeviceConnected
  BY DEF IInv, TypeOK, RunMainQueue, Aborting, Settled
<1>2. u' = RunBlock(x, b)
  BY DEF RunMainQueue, Taken
<1>3. /\ x \in Phone /\ x.state = u.state /\ b \in Blocks /\ x.link = u.link
      /\ x.isOtaUpgradeRunning /\ x.isDeviceConnected = u.isDeviceConnected
      /\ x.delayed = u.delayed
  BY <1>1, TakenKeeps DEF Going
<1>4. /\ Clear(x) /\ b \in Expected(u)
      /\ x.att = u.att /\ x.nodeConnecting = u.nodeConnecting
  BY <1>1, TakenRest DEF Aborting
<1> HIDE DEF x
<1>5. b \in On({"timeout"}) \cup On({"value", "stop"}) \/ b \in Bad("connection")
  BY <1>1, <1>4 DEF Expected, Late
<1>6. CASE b \in On({"timeout"}) \/ b \in Bad("connection")
  BY <1>1, <1>6, EndRuns
<1>7. CASE b.ev = "stop"
  <2>1. u' = StopBlock(x)
    BY <1>2, <1>7 DEF RunBlock
  <2>2. Stopping(x)
    <3>1. Settled(x)
      BY <1>3, <1>4 DEF Aborting, Settled
    <3>2. Expected(x) = On({"timeout"}) \cup (On({"value", "stop"}) \cup Bad("connection"))
      BY <1>1, <1>3 DEF Expected, Late
    <3>3. Blocks \cap (Blocks \ (On({"timeout", "value", "stop"}) \cup Bad("connection")))
            \subseteq Blocks \ Expected(x)
      BY <3>2 DEF On
    <3>4. ~Some(x.mainQ, Blocks \ Expected(x)) /\ x.mainQ \in Seq(Blocks)
      BY <1>3, <1>4 DEF Clear, Phone
    <3>5. ~Some(x.mainQ, Blocks \ (On({"timeout", "value", "stop"}) \cup Bad("connection")))
      BY <3>3, <3>4, SomeMore
    <3> QED  BY <1>4, <3>1, <3>5 DEF Stopping, Aborting
  <2> QED  BY <1>3, <2>1, <2>2, StopAborts
<1>8. CASE b \in On({"value"})
  <2>1. u' = _didUpdateValueFor(x, b.r)
    BY <1>2, <1>8 DEF RunBlock, On
  <2>2. u' = otaAbortResponse(x, b.r)
    BY <1>1, <1>3, <2>1 DEF _didUpdateValueFor
  <2>3. b.r \in Results
    BY <1>3 DEF Blocks
  <2> QED  BY <1>3, <2>2, <2>3, AbortResponseFails DEF Fails, Failed
<1> QED  BY <1>3, <1>5, <1>6, <1>7, <1>8 DEF On

-----------------------------------------------------------------------------
(* The other steps of an upgrade that began quietly                        *)

Advances == \/ Failed(u') \/ Flow(u, dev, air)'
            \/ ~u'.isOtaUpgradeRunning /\ HasImage

\* a block joined the queue, and nothing else changed that Flow reads
Appended(v, w, b) ==
    /\ w \in Phone /\ w.mainQ = Append(v.mainQ, b)
    /\ w.state = v.state /\ w.att = v.att /\ w.completion = v.completion
    /\ w.delayed = v.delayed /\ w.nodeConnecting = v.nodeConnecting
    /\ w.link = v.link /\ w.isDeviceConnected = v.isDeviceConnected
    /\ w.fwOffset = v.fwOffset /\ w.fwCrc32 = v.fwCrc32
    /\ w.transferringSize = v.transferringSize

LEMMA PostAppended ==
    ASSUME NEW v \in Phone, NEW ev \in Events, NEW r \in Results
    PROVE  /\ Appended(v, Post(v, ev, r), Block(ev, r))
           /\ Block(ev, r) \in Blocks /\ Block(ev, r).ev = ev /\ Block(ev, r).r = r
<1> DEFINE b == Block(ev, r)
           w == Post(v, ev, r)
<1>1. w \in Phone
  BY PostKept DEF Kept
<1>2. /\ w.mainQ = Append(v.mainQ, b)
      /\ w.state = v.state /\ w.att = v.att /\ w.completion = v.completion
      /\ w.delayed = v.delayed /\ w.nodeConnecting = v.nodeConnecting
      /\ w.link = v.link /\ w.isDeviceConnected = v.isDeviceConnected
      /\ w.fwOffset = v.fwOffset /\ w.fwCrc32 = v.fwCrc32
      /\ w.transferringSize = v.transferringSize
  BY DEF Post, Phone
<1>3. b \in Blocks /\ b.ev = ev /\ b.r = r
  BY DEF Block, Blocks, Events
<1> HIDE DEF w, b
<1> QED  BY <1>1, <1>2, <1>3 DEF Appended, w, b

\* An upgrade that is doomed by the block at the head of the queue stays so.
LEMMA DoomedStays ==
    ASSUME NEW v \in Phone, NEW w, Doomed(v), w.state = v.state, w.att = <<>>,
           w.delayed = v.delayed, w.isDeviceConnected = v.isDeviceConnected,
           w.mainQ = v.mainQ \/ \E b \in Blocks : w.mainQ = Append(v.mainQ, b)
    PROVE  Doomed(w)
<1>1. v.mainQ \in Seq(Blocks) /\ v.mainQ # <<>>
  BY DEF Phone, Doomed
<1>2. w.mainQ # <<>> /\ Head(w.mainQ) = Head(v.mainQ)
  BY <1>1, HeadTailAppend, AppendProperties
<1>3. Final(w) = Final(v)
  BY DEF Final
<1> QED  BY <1>2, <1>3 DEF Doomed

\* the queue after a block has joined it
LEMMA AppendedQueue ==
    ASSUME NEW v \in Phone, NEW w, NEW b \in Blocks, w.mainQ = Append(v.mainQ, b),
           w.state = v.state, v.link = "down" => w.link = "down"
    PROVE  /\ \A E : /\ Some(w.mainQ, E) <=> Some(v.mainQ, E) \/ b \in E
                     /\ Once(v.mainQ, E) /\ ~(Some(v.mainQ, E) /\ b \in E) => Once(w.mainQ, E)
           /\ Clear(v) /\ b \in Expected(w) => Clear(w)
<1>1. v.mainQ \in Seq(Blocks)
  BY DEF Phone
<1>2. \A E : /\ Some(w.mainQ, E) <=> Some(v.mainQ, E) \/ b \in E
             /\ Once(v.mainQ, E) /\ ~(Some(v.mainQ, E) /\ b \in E) => Once(w.mainQ, E)
  BY <1>1, SomeAppend
<1>3. Lost(v) \subseteq Lost(w)
  BY DEF Lost
<1>4. Expected(v) \subseteq Expected(w)
  BY <1>3 DEF Expected
<1>5. ASSUME Clear(v), b \in Expected(w) PROVE Clear(w)
  <2>1. Blocks \cap (Blocks \ Expected(w)) \subseteq Blocks \ Expected(v)
    BY <1>4
  <2>2. ~Some(v.mainQ, Blocks \ Expected(w))
    BY <1>1, <1>5, <2>1, SomeMore DEF Clear
  <2> QED  BY <1>2, <1>5, <2>2 DEF Clear
<1> QED  BY <1>2, <1>5

\* a time-out, or a stop after the subscription, may wait in the queue
LEMMA HarmlessStays ==
    ASSUME NEW v \in Phone, NEW w, NEW d, NEW a, NEW b \in Blocks, Appended(v, w, b),
           \/ b.ev = "timeout"
           \/ b.ev = "stop" /\ v.state \in Late,
           Flow(v, d, a)
    PROVE  Flow(w, d, a)
<1>1. /\ w.mainQ = Append(v.mainQ, b)
      /\ w.state = v.state /\ w.att = v.att /\ w.completion = v.completion
      /\ w.delayed = v.delayed /\ w.nodeConnecting = v.nodeConnecting
      /\ w.link = v.link /\ w.isDeviceConnected = v.isDeviceConnected
      /\ w.fwOffset = v.fwOffset /\ w.fwCrc32 = v.fwCrc32
      /\ w.transferringSize = v.transferringSize
  BY DEF Appended
<1>2. /\ \A E : /\ Some(w.mainQ, E) <=> Some(v.mainQ, E) \/ b \in E
                /\ Once(v.mainQ, E) /\ ~(Some(v.mainQ, E) /\ b \in E) => Once(w.mainQ, E)
      /\ Clear(v) /\ b \in Expected(w) => Clear(w)
  BY <1>1, AppendedQueue
<1>3. /\ b \notin On({"connection"}) /\ b \notin On({"service"}) /\ b \notin On({"value"})
      /\ b \notin On({"notification"}) /\ b \notin Good("value")
  BY DEF On, Good
<1>4. Clear(v) => Clear(w)
  <2>1. b \in Expected(w)
    <3>1. CASE b.ev = "timeout"
      BY <3>1 DEF Expected, On
    <3>2. CASE b.ev = "stop" /\ v.state \in Late
      <4>1. Expected(w) = On({"timeout"}) \cup (On({"value", "stop"}) \cup Lost(w))
        BY <1>1, <3>2 DEF Expected, Late
      <4> QED  BY <3>2, <4>1 DEF On
    <3> QED  BY <3>1, <3>2
  <2> QED  BY <1>2, <2>1
<1>5. Settled(v) => Settled(w)
  BY <1>1 DEF Settled
<1>6. CASE Doomed(v)
  <2>1. Doomed(w)
    BY <1>1, <1>6, DoomedStays DEF Doomed
  <2> QED  BY <2>1 DEF Flow
<1>7. CASE Connecting(v, a)
  <2>1. Connecting(w, a)
    BY <1>1, <1>2, <1>3, <1>4, <1>7 DEF Connecting
  <2> QED  BY <2>1 DEF Flow
<1>8. CASE Discovering(v, a)
  <2>1. Discovering(w, a)
    BY <1>1, <1>2, <1>3, <1>4, <1>5, <1>8 DEF Discovering
  <2> QED  BY <2>1 DEF Flow
<1>9. CASE Subscribing(v, a)
  <2>1. Subscribing(w, a)
    BY <1>1, <1>2, <1>3, <1>4, <1>5, <1>9 DEF Subscribing
  <2> QED  BY <2>1 DEF Flow
<1>10. CASE Loading(v, d, a)
  <2>1. OneVerdict(w, a)
    <3>1. OneVerdict(v, a)
      BY <1>10 DEF Loading
    <3> QED  BY <1>1, <1>2, <1>3, <3>1 DEF OneVerdict
  <2>2. v.state = "verify" => Verified(w, d, a)
    <3>1. v.state = "verify" => Verified(v, d, a)
      BY <1>10 DEF Loading
    <3> QED  BY <1>1, <1>2, <1>3, <3>1 DEF Verified
  <2>3. Loaded(w)
    BY <1>1, <1>10 DEF Loading, Loaded
  <2>4. Loading(w, d, a)
    BY <1>1, <1>4, <1>5, <1>10, <2>1, <2>2, <2>3 DEF Loading
  <2> QED  BY <2>4 DEF Flow
<1>11. CASE Aborting(v)
  <2>1. Aborting(w)
    BY <1>1, <1>4, <1>5, <1>11 DEF Aborting
  <2> QED  BY <2>1 DEF Flow
<1> QED  BY <1>6, <1>7, <1>8, <1>9, <1>10, <1>11 DEF Flow

LEMMA AlikeStays ==
    ASSUME NEW v, NEW w, NEW d, NEW a, Alike(v, w), Flow(v, d, a)
    PROVE  Flow(w, d, a)
BY AlikeFlow DEF Flow

LEMMA TimerExpiresFlow ==
    ASSUME IInv, Flow(u, dev, air), TimerExpires
    PROVE  Advances
<1>1. u \in Phone /\ dev' = dev /\ air' = air /\ u' = Post(StopTimer(u), "timeout", "success")
  BY DEF IInv, TypeOK, TimerExpires
<1>2. Alike(u, StopTimer(u)) /\ StopTimer(u) \in Phone
  BY <1>1, TimerAlike DEF Alike
<1>3. Flow(StopTimer(u), dev, air)
  BY <1>2, AlikeStays
<1>4. Flow(u', dev, air)
  BY <1>1, <1>2, <1>3, PostAppended, HarmlessStays DEF Events, Results
<1> QED  BY <1>1, <1>4 DEF Advances

LEMMA StopFlow ==
    ASSUME IInv, Flow(u, dev, air), Stop
    PROVE  Advances
<1> DEFINE c == u.hasConnected
                /\ StateNo[u.state] \in StateNo.prepareForDownload .. StateNo.verify
           x == IF c THEN Post(u, "stop", "success") ELSE u
           t == [x EXCEPT !.dfuLib = "idle", !.meshDfuState = "INIT"]
<1>1. u \in Phone /\ dev' = dev /\ air' = air /\ u' = otaUpgradeDfuStop(u)
  BY DEF IInv, TypeOK, Stop
<1>2. u' \in {u, x, t}
  BY <1>1 DEF otaUpgradeDfuStop, MeshDfuStop
<1>3. x \in Phone /\ Flow(x, dev, air)
  <2>1. CASE c
    <3>1. u.state \in Late
      BY <1>1, <2>1, StatesListed DEF Late, StateNo, Phone
    <3>2. Appended(u, x, Block("stop", "success")) /\ Block("stop", "success") \in Blocks
          /\ Block("stop", "success").ev = "stop"
      BY <1>1, <2>1, PostAppended DEF Events, Results
    <3> HIDE DEF x
    <3> QED  BY <1>1, <3>1, <3>2, HarmlessStays DEF Appended
  <2>2. CASE ~c
    BY <1>1, <2>2
  <2> QED  BY <2>1, <2>2
<1> HIDE DEF x
<1>4. Alike(x, t)
  <2>1. t \in Phone
    BY <1>3 DEF Phone
  <2>2. /\ t.state = x.state /\ t.att = x.att /\ t.completion = x.completion
        /\ t.mainQ = x.mainQ /\ t.delayed = x.delayed /\ t.nodeConnecting = x.nodeConnecting
        /\ t.link = x.link /\ t.isDeviceConnected = x.isDeviceConnected
        /\ t.fwOffset = x.fwOffset /\ t.fwCrc32 = x.fwCrc32
        /\ t.transferringSize = x.transferringSize
    BY <1>3 DEF Phone
  <2> HIDE DEF t
  <2> QED  BY <2>1, <2>2 DEF Alike
<1>5. Flow(t, dev, air)
  BY <1>3, <1>4, AlikeStays
<1> QED  BY <1>1, <1>2, <1>3, <1>5 DEF Advances

-----------------------------------------------------------------------------
(* The run loop                                                            *)

LEMMA RunQueueFlow ==
    ASSUME IInv, LiveInv, Going(u), Flow(u, dev, air), RunMainQueue
    PROVE  Advances
<1>1. dev' = dev /\ air' = air
  BY DEF RunMainQueue
<1>2. \/ Failed(u') \/ Loading(u', dev, air) \/ Aborting(u') \/ Connecting(u', air)
      \/ Discovering(u', air) \/ Subscribing(u', air)
      \/ ~u'.isOtaUpgradeRunning /\ HasImage
  <2>1. CASE Doomed(u)
    BY <2>1, DoomedRuns
  <2>2. CASE Connecting(u, air)
    BY <2>2, ConnectingRuns
  <2>3. CASE Discovering(u, air)
    BY <2>3, DiscoveringRuns
  <2>4. CASE Subscribing(u, air)
    BY <2>4, SubscribingRuns DEF Loads
  <2>5. CASE Loading(u, dev, air)
    BY <2>5, LoadingRuns DEF Loads
  <2>6. CASE Aborting(u)
    BY <2>6, AbortingRuns
  <2> QED  BY <2>1, <2>2, <2>3, <2>4, <2>5, <2>6 DEF Flow
<1>3. Flow(u, dev, air)' <=> Flow(u', dev, air)
  BY <1>1
<1> QED  BY <1>2, <1>3 DEF Advances, Flow

\* how an upgrade begins when nothing of an earlier one is left
LEMMA ConnectFlow ==
    ASSUME NEW v \in Phone, NEW d, v.mainQ = <<>>, v.att = <<>>, v.delayed = 0,
           ~v.nodeConnecting, ~v.isDeviceConnected, v.fwOffset = 0, v.fwCrc32 = <<>>,
           v.link = "connecting" => v.adapter = "ble"
    PROVE  Flow(otaConnect(v), d, <<>>)
<1> DEFINE w == StartTimer([v EXCEPT !.state = "connect"])
           Plain(x) == /\ x \in Phone /\ x.state = "connect" /\ x.mainQ = <<>> /\ x.att = <<>>
                       /\ x.delayed = 0 /\ ~x.isDeviceConnected
                       /\ x.fwOffset = 0 /\ x.fwCrc32 = <<>>
           e == <<>>
           ble == [w EXCEPT !.link = "connecting"]
           node == [w EXCEPT !.nodeConnecting = TRUE]
           none == [w EXCEPT !.peripheral = FALSE]
<1>0. ~Some(e, Notices) /\ ~Some(e, On({"connection"})) /\ Once(e, On({"connection"}))
      /\ \A E : ~Some(e, E)
  BY SomeEmpty
<1>1. /\ Plain(w) /\ ~w.nodeConnecting /\ w.link = v.link /\ w.adapter = v.adapter
  <2>1. w \in Phone
    BY EnteredLeaves DEF Leaves, OtaState, StateNo
  <2>2. /\ w.state = "connect" /\ w.mainQ = <<>> /\ w.att = <<>>
        /\ w.delayed = 0 /\ ~w.isDeviceConnected
        /\ w.fwOffset = 0 /\ w.fwCrc32 = <<>>
        /\ ~w.nodeConnecting /\ w.link = v.link /\ w.adapter = v.adapter
    BY DEF StartTimer, Phone
  <2> HIDE DEF w
  <2> QED  BY <2>1, <2>2
<1>2. \/ /\ otaConnect(v) = Post(w, "connection", "success")
         /\ w.link = "up" \/ w.adapter # "ble"
      \/ otaConnect(v) \in {Post(w, "connection", "error"), Post(none, "connection", "error")}
      \/ otaConnect(v) = ble
      \/ otaConnect(v) = node /\ w.adapter # "ble"
  <2>1. otaConnect(v) = IF v.adapter = "ble" THEN BleConnect(w) ELSE MeshConnect(w)
    BY DEF otaConnect
  <2>2. \/ BleConnect(w) = Post(w, "connection", "success") /\ w.link = "up"
        \/ BleConnect(w) = Post(w, "connection", "error")
        \/ BleConnect(w) = ble
    BY DEF BleConnect
  <2>3. MeshConnect(w) \in {Post(w, "connection", "success"), Post(none, "connection", "error"),
                            node}
    BY DEF MeshConnect
  <2> HIDE DEF w, ble, none, node
  <2> QED  BY <1>1, <2>1, <2>2, <2>3
<1> HIDE DEF w
<1>3. ASSUME NEW x, Plain(x), x.nodeConnecting => x.link # "connecting"
      PROVE  Flow(x, d, e)
  <2>1. Clear(x) /\ Once(x.mainQ, On({"connection"})) /\ ~Some(x.mainQ, On({"connection"}))
    BY <1>0, <1>3 DEF Clear
  <2> QED  BY <1>0, <1>3, <2>1 DEF Connecting, Flow
<1>4. ASSUME NEW x, Plain(x), NEW r \in {"success", "error"},
             r = "success" => ~x.nodeConnecting /\ x.link # "connecting"
      PROVE  Flow(Post(x, "connection", r), d, e)
  <2> DEFINE b == Block("connection", r)
             y == Post(x, "connection", r)
  <2>1. Appended(x, y, b) /\ b \in Blocks /\ b.ev = "connection" /\ b.r = r
    BY <1>4, PostAppended DEF Events, Results
  <2> HIDE DEF b, y
  <2>2. /\ y.mainQ = Append(x.mainQ, b) /\ y.state = "connect" /\ y.att = <<>>
        /\ y.delayed = 0 /\ ~y.isDeviceConnected /\ y.fwOffset = 0 /\ y.fwCrc32 = <<>>
        /\ y.nodeConnecting = x.nodeConnecting /\ y.link = x.link
    BY <1>4, <2>1 DEF Appended
  <2>3. CASE r = "error"
    <3>1. y.mainQ # <<>> /\ Head(y.mainQ) = b
      BY <1>4, <2>2, AppendProperties
    <3>2. b \in Final(y)
      BY <2>1, <2>3 DEF Final, Bad
    <3> QED  BY <2>2, <3>1, <3>2 DEF Doomed, Early, Flow, y
  <2>4. CASE r = "success"
    <3>1. Clear(x)
      BY <1>0, <1>4 DEF Clear
    <3>2. b \in Expected(y)
      <4>1. Expected(y) = On({"timeout"}) \cup On({"connection"})
        BY <2>2 DEF Expected, Late
      <4> QED  BY <2>1, <4>1 DEF On
    <3>3. Clear(y) /\ Once(y.mainQ, On({"connection"}))
      <4>1. x \in Phone /\ x.state = y.state /\ y.link = x.link
            /\ ~Some(x.mainQ, On({"connection"})) /\ Once(x.mainQ, On({"connection"}))
        BY <1>0, <1>4, <2>2
      <4> HIDE DEF e, Plain
      <4> QED  BY <2>1, <2>2, <3>1, <3>2, <4>1, AppendedQueue
    <3>4. Connecting(y, e)
      BY <1>0, <1>4, <2>2, <2>4, <3>3 DEF Connecting
    <3> QED  BY <3>4 DEF Flow, y
  <2> QED  BY <1>4, <2>3, <2>4
<1>5. Plain(ble) /\ ~ble.nodeConnecting
  <2>1. ble \in Phone
    BY <1>1 DEF Phone
  <2>2. /\ ble.state = "connect" /\ ble.mainQ = <<>> /\ ble.att = <<>>
        /\ ble.delayed = 0 /\ ~ble.isDeviceConnected
        /\ ble.fwOffset = 0 /\ ble.fwCrc32 = <<>> /\ ~ble.nodeConnecting
    BY <1>1 DEF Phone
  <2> HIDE DEF ble
  <2> QED  BY <2>1, <2>2
<1>6. Plain(none)
  <2>1. none \in Phone
    BY <1>1 DEF Phone
  <2>2. /\ none.state = "connect" /\ none.mainQ = <<>> /\ none.att = <<>>
        /\ none.delayed = 0 /\ ~none.isDeviceConnected
        /\ none.fwOffset = 0 /\ none.fwCrc32 = <<>>
    BY <1>1 DEF Phone
  <2> HIDE DEF none
  <2> QED  BY <2>1, <2>2
<1>7. Plain(node) /\ node.link = w.link
  <2>1. node \in Phone
    BY <1>1 DEF Phone
  <2>2. /\ node.state = "connect" /\ node.mainQ = <<>> /\ node.att = <<>>
        /\ node.delayed = 0 /\ ~node.isDeviceConnected
        /\ node.fwOffset = 0 /\ node.fwCrc32 = <<>> /\ node.link = w.link
    BY <1>1 DEF Phone
  <2> HIDE DEF node
  <2> QED  BY <2>1, <2>2
<1> HIDE DEF ble, none, node, Plain
<1>8. w.adapter # "ble" => w.link # "connecting"
  BY <1>1
<1> QED  BY <1>1, <1>2, <1>3, <1>4, <1>5, <1>6, <1>7, <1>8 DEF e

LEMMA BeginFlow ==
    ASSUME IInv, LiveInv, hist.clean, ~u.isOtaUpgradeRunning, RunMainQueue,
           Head(u.mainQ).ev = "start"
    PROVE  Advances
<1>1. u \in Phone /\ u.mainQ # <<>> /\ dev' = dev /\ air' = air
      /\ u' = RunBlock(Taken, Head(u.mainQ))
  BY DEF IInv, TypeOK, RunMainQueue, Taken
<1>2. Fresh(u, air)
  <2>1. Some(u.mainQ, On({"start"}))
    <3>1. Head(u.mainQ) \in On({"start"})
      BY <1>1, TakenKeeps DEF On
    <3> QED  BY <1>1, <3>1, TakenRest
  <2> QED  BY <2>1 DEF LiveInv, Live
<1> DEFINE v == [Taken EXCEPT !.state = "idle"]
           x == [v EXCEPT !.isOtaUpgradeRunning = TRUE]
<1>3. u' = otaConnect(x)
  <2>1. u' = stateMachineProcess(v)
    BY <1>1 DEF RunBlock, StartBlock
  <2>2. v.state = "idle"
    BY <1>1, TakenKeeps DEF Phone
  <2> HIDE DEF v
  <2> QED  BY <2>1, <2>2 DEF stateMachineProcess
<1>4. /\ Taken \in Phone /\ Taken.mainQ = <<>> /\ Taken.att = <<>> /\ Taken.delayed = 0
      /\ ~Taken.nodeConnecting /\ ~Taken.isDeviceConnected
      /\ Taken.fwOffset = 0 /\ Taken.fwCrc32 = <<>>
      /\ Taken.link = "connecting" => Taken.adapter = "ble"
  <2>1. u.mainQ = <<Block("start", "success")>> /\ Tail(u.mainQ) = <<>>
    BY <1>2 DEF Fresh
  <2> QED  BY <1>1, <1>2, <2>1, TakenKeeps, TakenRest DEF Fresh, LiveInv, Basics
<1>5. /\ x \in Phone /\ x.mainQ = <<>> /\ x.att = <<>> /\ x.delayed = 0
      /\ ~x.nodeConnecting /\ ~x.isDeviceConnected
      /\ x.fwOffset = 0 /\ x.fwCrc32 = <<>>
      /\ x.link = "connecting" => x.adapter = "ble"
  <2>1. x \in Phone
    <3>1. v \in Phone
      BY <1>4, StateLeaves, StatesListed DEF Leaves
    <3> HIDE DEF v
    <3> QED  BY <3>1 DEF Phone
  <2>2. /\ x.mainQ = <<>> /\ x.att = <<>> /\ x.delayed = 0
        /\ ~x.nodeConnecting /\ ~x.isDeviceConnected
        /\ x.fwOffset = 0 /\ x.fwCrc32 = <<>>
        /\ x.link = "connecting" => x.adapter = "ble"
    BY <1>4 DEF Phone
  <2> HIDE DEF x
  <2> QED  BY <2>1, <2>2
<1> HIDE DEF x
<1>6. Flow(u', dev', <<>>)
  BY <1>3, <1>5, ConnectFlow
<1>7. air' = <<>>
  BY <1>1, <1>2 DEF Fresh
<1> QED  BY <1>6, <1>7 DEF Advances

LEMMA RunDelayedFlow ==
    ASSUME IInv, Flow(u, dev, air), RunDelayed
    PROVE  Advances
<1> DEFINE v == [u EXCEPT !.delayed = @ - 1]
           w == StartTimer([v EXCEPT !.state = "otaServiceDiscover", !.isDeviceConnected = TRUE])
           q == Request("discover", 0, <<>>)
           x == [w EXCEPT !.att = Append(@, q)]
           b == Block("service", "error")
           y == Post(w, "service", "error")
<1>1. /\ u \in Phone /\ u.delayed > 0 /\ dev' = dev /\ air' = air
      /\ u' = discoverOtaServiceCharacteristics(v)
  BY DEF IInv, TypeOK, RunDelayed
<1>2. Connecting(u, air)
  BY <1>1 DEF Flow, Doomed, Discovering, Subscribing, Loading, Aborting, Settled
<1>3. /\ u.state = "connect" /\ u.delayed = 1 /\ ~u.nodeConnecting /\ u.link # "connecting"
      /\ u.att = <<>> /\ ~Some(air, Notices) /\ u.fwOffset = 0 /\ u.fwCrc32 = <<>>
      /\ ~Some(u.mainQ, On({"connection"})) /\ Clear(u)
  BY <1>1, <1>2 DEF Connecting
<1>4. ~Some(u.mainQ, Blocks \ On({"timeout"}))
  <2>1. Blocks \cap (Blocks \ On({"timeout"})) \subseteq (Blocks \ Expected(u)) \cup On({"connection"})
    <3>1. Expected(u) = On({"timeout"}) \cup On({"connection"})
      BY <1>3 DEF Expected, Late
    <3> QED  BY <3>1
  <2>2. u.mainQ \in Seq(Blocks)
    BY <1>1 DEF Phone
  <2> QED  BY <1>3, <2>1, <2>2, SomeMinus DEF Clear
<1>5. u' \in {x, y}
  BY <1>1 DEF discoverOtaServiceCharacteristics
<1>6. /\ w \in Phone /\ w.state = "otaServiceDiscover" /\ w.isDeviceConnected
      /\ w.delayed = 0 /\ ~w.nodeConnecting /\ w.link # "connecting"
      /\ w.att = <<>> /\ w.mainQ = u.mainQ /\ w.fwOffset = 0 /\ w.fwCrc32 = <<>>
  <2>1. v \in Phone
    <3>1. u.delayed - 1 \in Nat
      BY <1>3
    <3> QED  BY <1>1, <3>1 DEF Phone
  <2>2. w \in Phone
    <3> DEFINE z == [v EXCEPT !.state = "otaServiceDiscover"]
               zz == [v EXCEPT !.state = "otaServiceDiscover", !.isDeviceConnected = TRUE]
    <3>1. z \in Phone
      BY <2>1, StateLeaves, StatesListed DEF Leaves
    <3>2. zz = [z EXCEPT !.isDeviceConnected = TRUE]
      BY <2>1 DEF Phone
    <3>3. zz \in Phone
      <4> HIDE DEF z, zz
      <4> QED  BY <3>1, <3>2 DEF Phone
    <3> HIDE DEF zz
    <3> QED  BY <3>3, TimerLeaves DEF Leaves, zz
  <2>3. /\ w.state = "otaServiceDiscover" /\ w.isDeviceConnected
        /\ w.delayed = u.delayed - 1 /\ w.nodeConnecting = u.nodeConnecting /\ w.link = u.link
        /\ w.att = u.att /\ w.mainQ = u.mainQ /\ w.fwOffset = u.fwOffset
        /\ w.fwCrc32 = u.fwCrc32
    BY <1>1 DEF StartTimer, Phone
  <2> HIDE DEF w
  <2> QED  BY <1>3, <2>2, <2>3
<1> HIDE DEF w
<1>7. Settled(w) /\ Clear(w)
  <2>1. Blocks \cap (Blocks \ Expected(w)) \subseteq Blocks \ On({"timeout"})
    BY DEF Expected
  <2>2. u.mainQ \in Seq(Blocks)
    BY <1>1 DEF Phone
  <2> QED  BY <1>4, <1>6, <2>1, <2>2, SomeMore DEF Clear, Settled
<1>8. ~Some(w.mainQ, On({"service", "value"})) /\ ~Some(w.mainQ, On({"service"}))
      /\ ~Some(w.mainQ, On({"value"})) /\ Once(w.mainQ, On({"service"}))
  <2>1. /\ Blocks \cap On({"service", "value"}) \subseteq Blocks \ On({"timeout"})
        /\ Blocks \cap On({"service"}) \subseteq Blocks \ On({"timeout"})
        /\ Blocks \cap On({"value"}) \subseteq Blocks \ On({"timeout"})
    BY DEF On
  <2>2. w.mainQ \in Seq(Blocks)
    BY <1>6 DEF Phone
  <2>3. ~Some(w.mainQ, Blocks \ On({"timeout"}))
    BY <1>4, <1>6
  <2> QED  BY <2>1, <2>2, <2>3, SomeMore, NoneOnce
<1>9. Discovering(x, air)
  <2>1. q \in Requests /\ q.op = "discover"
    BY BareRequestType DEF Request
  <2>2. x \in Phone /\ x.att = <<q>> /\ x.state = w.state /\ x.isDeviceConnected
        /\ x.delayed = 0 /\ ~x.nodeConnecting /\ x.link = w.link /\ x.mainQ = w.mainQ
        /\ x.fwOffset = 0 /\ x.fwCrc32 = <<>>
    <3>0. Append(w.att, q) = <<q>> /\ <<q>> \in Seq(Requests)
      BY <1>6, <2>1
    <3>1. x \in Phone
      BY <1>6, <3>0 DEF Phone
    <3>2. x.att = <<q>> /\ x.state = w.state /\ x.isDeviceConnected
          /\ x.delayed = 0 /\ ~x.nodeConnecting /\ x.link = w.link /\ x.mainQ = w.mainQ
          /\ x.fwOffset = 0 /\ x.fwCrc32 = <<>>
      BY <1>6, <3>0 DEF Phone
    <3> HIDE DEF x
    <3> QED  BY <3>1, <3>2
  <2> HIDE DEF x, q
  <2>3. Settled(x) /\ Clear(x)
    BY <1>6, <1>7, <2>2 DEF Settled, Clear, Expected, Lost
  <2>4. Len(x.att) = 1 /\ ~Some(x.att, Requests \ Ask({"discover", "readAppInfo"}))
    <3>1. q \in Ask({"discover", "readAppInfo"})
      BY <2>1 DEF Ask
    <3> QED  BY <2>2, <3>1 DEF Some
  <2> QED  BY <1>3, <1>6, <1>8, <2>2, <2>3, <2>4 DEF Discovering
<1>10. Discovering(y, air)
  <2>1. Appended(w, y, b) /\ b \in Blocks /\ b.ev = "service"
    BY <1>6, PostAppended DEF Events, Results
  <2> HIDE DEF b, y
  <2>2. /\ y.mainQ = Append(w.mainQ, b) /\ y.state = w.state /\ y.att = <<>>
        /\ y.delayed = 0 /\ y.isDeviceConnected /\ y.fwOffset = 0 /\ y.fwCrc32 = <<>>
        /\ ~y.nodeConnecting /\ y.link = w.link
    BY <1>6, <2>1 DEF Appended
  <2>3. b \in Expected(y) /\ b \notin On({"value"})
    <3>1. Expected(y) = On({"timeout"}) \cup (On({"service", "value"}) \cup Lost(y))
      BY <1>6, <2>2 DEF Expected, Late
    <3> QED  BY <2>1, <3>1 DEF On
  <2>4. Clear(y) /\ Once(y.mainQ, On({"service"})) /\ ~Some(y.mainQ, On({"value"}))
    BY <1>6, <1>7, <1>8, <2>1, <2>2, <2>3, AppendedQueue
  <2>5. Settled(y) /\ Len(y.att) = 0 /\ ~Some(y.att, Ask({"discover"}))
        /\ ~Some(y.att, Requests \ Ask({"discover", "readAppInfo"}))
    BY <1>6, <2>2, SomeEmpty DEF Settled
  <2> QED  BY <1>3, <1>6, <2>2, <2>4, <2>5 DEF Discovering
<1> HIDE DEF x, y
<1> QED  BY <1>1, <1>5, <1>9, <1>10 DEF Advances, Flow

-----------------------------------------------------------------------------
(* The link                                                                *)

LEMMA ResetAlike == ASSUME NEW v \in Phone PROVE Alike(v, ResetDevice(v))
<1>1. ResetDevice(v) \in Phone
  BY DeviceLeaves DEF Leaves
<1>2. LET w == ResetDevice(v)
      IN  /\ w.state = v.state /\ w.att = v.att /\ w.completion = v.completion
          /\ w.mainQ = v.mainQ /\ w.delayed = v.delayed
          /\ w.nodeConnecting = v.nodeConnecting
          /\ w.link = v.link /\ w.isDeviceConnected = v.isDeviceConnected
          /\ w.fwOffset = v.fwOffset /\ w.fwCrc32 = v.fwCrc32
          /\ w.transferringSize = v.transferringSize
  BY DEF ResetDevice, Phone
<1> QED  BY <1>1, <1>2 DEF Alike

\* the connection that was waited for is made, or it is not
LEMMA ConnectingReported ==
    ASSUME NEW v \in Phone, NEW w, NEW a, NEW r \in Results, Connecting(v, a),
           ~Some(v.mainQ, On({"connection"})), v.delayed = 0,
           w.mainQ = Append(v.mainQ, Block("connection", r)), w.state = v.state,
           w.att = v.att, w.delayed = v.delayed, w.isDeviceConnected = v.isDeviceConnected,
           w.fwOffset = v.fwOffset, w.fwCrc32 = v.fwCrc32,
           ~w.nodeConnecting, w.link # "connecting"
    PROVE  Connecting(w, a)
<1> DEFINE b == Block("connection", r)
<1>1. b \in Blocks /\ b \in On({"connection"})
  BY DEF Block, Blocks, On
<1> HIDE DEF b
<1>2. v.mainQ \in Seq(Blocks) /\ w.mainQ = Append(v.mainQ, b)
  BY DEF Phone, b
<1>3. Expected(w) = Expected(v) /\ b \in Expected(w)
  <2>1. /\ Expected(v) = On({"timeout"}) \cup On({"connection"})
        /\ Expected(w) = On({"timeout"}) \cup On({"connection"})
    BY DEF Connecting, Expected, Late
  <2> QED  BY <1>1, <2>1
<1>4. Clear(w)
  BY <1>1, <1>2, <1>3, SomeAppend DEF Clear, Connecting
<1>5. Once(w.mainQ, On({"connection"}))
  BY <1>1, <1>2, SomeAppend DEF Connecting
<1> QED  BY <1>4, <1>5 DEF Connecting

LEMMA NodeConnectStateFlow ==
    ASSUME IInv, Flow(u, dev, air), NodeConnectState
    PROVE  Advances
<1>1. /\ u \in Phone /\ u.nodeConnecting /\ dev' = dev /\ air' = air
  BY DEF IInv, TypeOK, NodeConnectState
<1>2. PICK connected \in BOOLEAN :
         LET v == IF u.isOtaUpgradeRunning /\ connected /\ u.link # "up"
                  THEN ResetDevice(u) ELSE u
         IN  u' = Post([v EXCEPT !.nodeConnecting = FALSE, !.peripheral = connected,
                                 !.link = IF connected THEN "up" ELSE @],
                       "connection", IF connected THEN "success" ELSE "error")
  BY DEF NodeConnectState
<1> DEFINE v == IF u.isOtaUpgradeRunning /\ connected /\ u.link # "up"
                THEN ResetDevice(u) ELSE u
           x == [v EXCEPT !.nodeConnecting = FALSE, !.peripheral = connected,
                          !.link = IF connected THEN "up" ELSE @]
           r == IF connected THEN "success" ELSE "error"
<1>3. u' = Post(x, "connection", r) /\ r \in Results
  BY <1>2 DEF Results
<1>4. Alike(u, v)
  BY <1>1, ResetAlike DEF Alike
<1> HIDE DEF v, r
<1>5. /\ x \in Phone /\ x.mainQ = u.mainQ /\ x.state = u.state /\ x.att = u.att
      /\ x.delayed = u.delayed /\ x.isDeviceConnected = u.isDeviceConnected
      /\ x.fwOffset = u.fwOffset /\ x.fwCrc32 = u.fwCrc32
      /\ ~x.nodeConnecting /\ x.link \in {"up", u.link}
  <2>1. v \in Phone
    BY <1>4 DEF Alike
  <2>2. (IF connected THEN "up" ELSE v.link) \in {"down", "connecting", "up"}
    BY <2>1 DEF Phone
  <2>3. x \in Phone
    BY <2>1, <2>2 DEF Phone
  <2>4. /\ x.mainQ = v.mainQ /\ x.state = v.state /\ x.att = v.att
        /\ x.delayed = v.delayed /\ x.isDeviceConnected = v.isDeviceConnected
        /\ x.fwOffset = v.fwOffset /\ x.fwCrc32 = v.fwCrc32
        /\ ~x.nodeConnecting /\ x.link \in {"up", v.link}
    BY <2>1 DEF Phone
  <2> HIDE DEF x
  <2> QED  BY <1>4, <2>3, <2>4 DEF Alike
<1> HIDE DEF x
<1>6. Appended(x, u', Block("connection", r)) /\ Block("connection", r) \in Blocks
  BY <1>3, <1>5, PostAppended DEF Events
<1>7. CASE Connecting(u, air)
  <2>1. /\ u.link # "connecting" /\ u.delayed = 0 /\ ~Some(u.mainQ, On({"connection"}))
    BY <1>1, <1>7 DEF Connecting
  <2>2. Connecting(u', air)
    BY <1>1, <1>3, <1>5, <1>6, <1>7, <2>1, ConnectingReported DEF Appended
  <2> QED  BY <1>1, <2>2 DEF Advances, Flow
<1>8. CASE Doomed(u)
  <2>1. Doomed(u')
    BY <1>1, <1>5, <1>6, <1>8, DoomedStays DEF Appended, Doomed
  <2> QED  BY <1>1, <2>1 DEF Advances, Flow
<1> QED  BY <1>1, <1>7, <1>8 DEF Flow, Discovering, Subscribing, Loading, Aborting, Settled

LEMMA ConnectionFlow ==
    ASSUME IInv, Flow(u, dev, air), Going(u), DidConnect \/ DidFailToConnect
    PROVE  Advances
<1>1. u \in Phone /\ u.link = "connecting" /\ u.isOtaUpgradeRunning
      /\ dev' = dev /\ air' = air
  BY DEF IInv, TypeOK, DidConnect, DidFailToConnect, Going
<1>2. PICK link \in {"up", "down"}, r \in Results, x \in Phone :
         /\ u' = Post(x, "connection", r)
         /\ Alike([u EXCEPT !.link = link], x)
  <2>1. CASE DidConnect
    <3> DEFINE v == [u EXCEPT !.link = "up"]
               y == ResetDevice(v)
               x == [y EXCEPT !.peripheral = TRUE]
    <3>1. u' = Post(x, "connection", "success")
      BY <1>1, <2>1 DEF DidConnect
    <3>2. v \in Phone
      BY <1>1 DEF Phone
    <3>3. Alike(v, y)
      <4> HIDE DEF v
      <4> QED  BY <3>2, ResetAlike
    <3>4. x \in Phone /\ Alike(y, x)
      <4>1. y \in Phone
        BY <3>3 DEF Alike
      <4> HIDE DEF y
      <4>2. x \in Phone
        BY <4>1 DEF Phone
      <4>3. /\ x.state = y.state /\ x.att = y.att /\ x.completion = y.completion
            /\ x.mainQ = y.mainQ /\ x.delayed = y.delayed
            /\ x.nodeConnecting = y.nodeConnecting
            /\ x.link = y.link /\ x.isDeviceConnected = y.isDeviceConnected
            /\ x.fwOffset = y.fwOffset /\ x.fwCrc32 = y.fwCrc32
            /\ x.transferringSize = y.transferringSize
        BY <4>1 DEF Phone
      <4> HIDE DEF x
      <4> QED  BY <4>2, <4>3 DEF Alike
    <3> HIDE DEF y, x
    <3>5. Alike(v, x)
      BY <3>3, <3>4 DEF Alike
    <3> QED  BY <3>1, <3>4, <3>5 DEF Results
  <2>2. CASE DidFailToConnect
    <3> DEFINE v == [u EXCEPT !.link = "down"]
               x == ResetDevice(v)
    <3>1. u' = Post(x, "connection", "error")
      BY <1>1, <2>2 DEF DidFailToConnect, PostIf
    <3>2. v \in Phone
      BY <1>1 DEF Phone
    <3>3. Alike(v, x) /\ x \in Phone
      <4> HIDE DEF v
      <4> QED  BY <3>2, ResetAlike DEF Alike
    <3> HIDE DEF x
    <3> QED  BY <3>1, <3>3 DEF Results
  <2> QED  BY <2>1, <2>2
<1>3. /\ x.mainQ = u.mainQ /\ x.state = u.state /\ x.att = u.att
      /\ x.delayed = u.delayed /\ x.isDeviceConnected = u.isDeviceConnected
      /\ x.fwOffset = u.fwOffset /\ x.fwCrc32 = u.fwCrc32
      /\ x.nodeConnecting = u.nodeConnecting /\ x.link = link
  BY <1>1, <1>2 DEF Alike, Phone
<1>4. Appended(x, u', Block("connection", r)) /\ Block("connection", r) \in Blocks
  BY <1>2, PostAppended DEF Events
<1>5. CASE Connecting(u, air)
  <2>1. ~u.nodeConnecting /\ u.delayed = 0 /\ ~Some(u.mainQ, On({"connection"}))
    BY <1>1, <1>5 DEF Connecting
  <2>2. Connecting(u', air)
    BY <1>1, <1>2, <1>3, <1>4, <1>5, <2>1, ConnectingReported DEF Appended
  <2> QED  BY <1>1, <2>2 DEF Advances, Flow
<1>6. CASE Doomed(u)
  <2>1. Doomed(u')
    BY <1>1, <1>3, <1>4, <1>6, DoomedStays DEF Appended, Doomed
  <2> QED  BY <1>1, <2>1 DEF Advances, Flow
<1> QED  BY <1>1, <1>5, <1>6 DEF Flow, Discovering, Subscribing, Loading, Aborting, Settled

LEMMA DidDisconnectFlow ==
    ASSUME IInv, Flow(u, dev, air), Going(u), DidDisconnect
    PROVE  Advances
<1> DEFINE v == [u EXCEPT !.link = "down", !.att = <<>>]
           x == ResetDevice(v)
           b == Block("connection", "error")
<1>1. /\ u \in Phone /\ u.isOtaUpgradeRunning /\ u' = PostIf(Routed, x, "connection", "error")
      /\ air' = <<>>
      /\ dev.mode = "verified" => dev' = dev
  BY DEF IInv, TypeOK, DidDisconnect, Going
<1>2. /\ x \in Phone /\ x.mainQ = u.mainQ /\ x.state = u.state /\ x.att = <<>>
      /\ x.completion = u.completion /\ x.delayed = u.delayed
      /\ x.isDeviceConnected = u.isDeviceConnected
      /\ x.fwOffset = u.fwOffset /\ x.fwCrc32 = u.fwCrc32
      /\ x.transferringSize = u.transferringSize
      /\ x.nodeConnecting = u.nodeConnecting /\ x.link = "down"
  <2>1. v \in Phone
    BY <1>1, EmptySeq DEF Phone
  <2>2. /\ v.mainQ = u.mainQ /\ v.state = u.state /\ v.att = <<>>
        /\ v.completion = u.completion /\ v.delayed = u.delayed
        /\ v.isDeviceConnected = u.isDeviceConnected
        /\ v.fwOffset = u.fwOffset /\ v.fwCrc32 = u.fwCrc32
        /\ v.transferringSize = u.transferringSize
        /\ v.nodeConnecting = u.nodeConnecting /\ v.link = "down"
    BY <1>1 DEF Phone
  <2> HIDE DEF v
  <2> QED  BY <2>1, <2>2, ResetAlike DEF Alike
<1> HIDE DEF x
<1>3. \/ u' = x /\ ~u.isDeviceConnected
      \/ Appended(x, u', b)
  BY <1>1, <1>2, PostAppended DEF PostIf, Routed, Events, Results
<1>4. b \in Blocks /\ b \in Bad("connection")
  BY DEF Block, Blocks, Bad, Results
<1>5. /\ b \notin On({"service"}) /\ b \notin On({"value"}) /\ b \notin On({"notification"})
      /\ b \notin Good("value")
  BY DEF On, Good, Block
<1> HIDE DEF b
<1>6. ~Some(<<>>, Notices) /\ Once(<<>>, Notices) /\ \A E : ~Some(<<>>, E)
  BY SomeEmpty
<1>7. CASE Connecting(u, air)
  <2>1. ~u.isDeviceConnected /\ u.state = "connect" /\ u.att = <<>>
    BY <1>7 DEF Connecting
  <2>2. u' = x
    BY <1>1, <2>1 DEF PostIf, Routed
  <2>3. Clear(x)
    <3>1. Expected(x) = Expected(u)
      BY <1>2, <2>1 DEF Expected, Late
    <3> QED  BY <1>2, <1>7, <3>1 DEF Clear, Connecting
  <2>4. Connecting(x, <<>>)
    BY <1>2, <1>6, <1>7, <2>1, <2>3 DEF Connecting
  <2> QED  BY <1>1, <2>2, <2>4 DEF Advances, Flow
<1>8. CASE Doomed(u)
  <2>1. Doomed(u')
    <3>1. /\ u'.state = u.state /\ u'.att = <<>> /\ u'.delayed = u.delayed
          /\ u'.isDeviceConnected = u.isDeviceConnected
          /\ u'.mainQ = u.mainQ \/ u'.mainQ = Append(u.mainQ, b)
      BY <1>2, <1>3 DEF Appended
    <3> QED  BY <1>1, <1>4, <1>8, <3>1, DoomedStays
  <2> QED  BY <2>1 DEF Advances, Flow
<1>9. ASSUME Settled(u), Clear(u), u.state \in {"otaServiceDiscover", "enableNotification",
                                                "abort"} \cup Late
      PROVE  /\ Settled(u') /\ Clear(u') /\ u'.att = <<>>
             /\ u'.state = u.state /\ u'.completion = u.completion
             /\ u'.fwOffset = u.fwOffset /\ u'.fwCrc32 = u.fwCrc32
             /\ u'.transferringSize = u.transferringSize
             /\ \A E : /\ Some(u'.mainQ, E) <=> Some(u.mainQ, E) \/ b \in E
                       /\ Once(u.mainQ, E) /\ ~(Some(u.mainQ, E) /\ b \in E)
                             => Once(u'.mainQ, E)
  <2>1. Appended(x, u', b)
    BY <1>3, <1>9 DEF Settled
  <2>2. /\ u'.mainQ = Append(u.mainQ, b) /\ u'.state = u.state /\ u'.att = <<>>
        /\ u'.completion = u.completion /\ u'.delayed = u.delayed
        /\ u'.isDeviceConnected = u.isDeviceConnected
        /\ u'.fwOffset = u.fwOffset /\ u'.fwCrc32 = u.fwCrc32
        /\ u'.transferringSize = u.transferringSize
        /\ u'.nodeConnecting = u.nodeConnecting /\ u'.link = "down"
    BY <1>2, <2>1 DEF Appended
  <2>3. Settled(u')
    BY <1>9, <2>2 DEF Settled
  <2>4. b \in Expected(u')
    <3>1. Bad("connection") \subseteq Expected(u')
      BY <1>9, <2>2 DEF Expected, Lost, Late
    <3> QED  BY <1>4, <3>1
  <2>5. /\ \A E : /\ Some(u'.mainQ, E) <=> Some(u.mainQ, E) \/ b \in E
                  /\ Once(u.mainQ, E) /\ ~(Some(u.mainQ, E) /\ b \in E)
                        => Once(u'.mainQ, E)
        /\ Clear(u) /\ b \in Expected(u') => Clear(u')
    BY <1>1, <1>4, <2>2, AppendedQueue
  <2> QED  BY <1>9, <2>2, <2>3, <2>4, <2>5
<1>10. CASE Discovering(u, air)
  <2>1. Discovering(u', <<>>)
    BY <1>5, <1>6, <1>9, <1>10 DEF Discovering
  <2> QED  BY <1>1, <2>1 DEF Advances, Flow
<1>11. CASE Subscribing(u, air)
  <2>1. Subscribing(u', <<>>)
    BY <1>5, <1>6, <1>9, <1>11 DEF Subscribing
  <2> QED  BY <1>1, <2>1 DEF Advances, Flow
<1>12. CASE Loading(u, dev, air)
  <2>0. u.state \in Late /\ Settled(u) /\ Clear(u)
    BY <1>12 DEF Loading
  <2>1. OneVerdict(u', <<>>)
    <3>1. OneVerdict(u, air)
      BY <1>12 DEF Loading
    <3>2. Once(u'.mainQ, On({"value"}))
          /\ (Some(u'.mainQ, On({"value"})) <=> Some(u.mainQ, On({"value"})))
      BY <1>5, <1>9, <2>0, <3>1 DEF OneVerdict
    <3>3. u'.att = <<>> /\ u'.state = u.state
      BY <1>9, <2>0
    <3> QED  BY <1>6, <3>1, <3>2, <3>3 DEF OneVerdict
  <2>2. u.state = "verify" => Verified(u', dev', <<>>)
    <3>1. u.state = "verify" => Verified(u, dev, air)
      BY <1>12 DEF Loading
    <3>2. ~Some(<<>>, GoodNotices) /\ (Some(u'.mainQ, Good("value")) <=> Some(u.mainQ, Good("value")))
          /\ u'.att = <<>> /\ ~Some(<<>>, Undone)
      <4>1. /\ u'.att = <<>>
            /\ Some(u'.mainQ, Good("value")) <=> Some(u.mainQ, Good("value")) \/ b \in Good("value")
        BY <1>9, <2>0
      <4> QED  BY <1>5, <1>6, <4>1
    <3> QED  BY <1>1, <3>1, <3>2 DEF Verified
  <2>3. Loaded(u')
    BY <1>9, <1>12, <2>0 DEF Loading, Loaded
  <2>4. Loading(u', dev', <<>>)
    BY <1>6, <1>9, <1>12, <2>0, <2>1, <2>2, <2>3 DEF Loading
  <2> QED  BY <1>1, <2>4 DEF Advances, Flow
<1>13. CASE Aborting(u)
  <2>1. Aborting(u')
    BY <1>6, <1>9, <1>13 DEF Aborting
  <2> QED  BY <2>1 DEF Advances, Flow
<1> QED  BY <1>7, <1>8, <1>10, <1>11, <1>12, <1>13 DEF Flow

-----------------------------------------------------------------------------
(* The remote device                                                       *)

LEMMA RequestTaken ==
    ASSUME IInv, DeviceTakesRequest
    PROVE  /\ u \in Phone /\ u' \in Phone /\ u'.state = u.state /\ u'.completion = u.completion
           /\ u'.mainQ = u.mainQ /\ u'.delayed = u.delayed
           /\ u'.nodeConnecting = u.nodeConnecting /\ u'.link = u.link
           /\ u'.isDeviceConnected = u.isDeviceConnected
           /\ u'.fwOffset = u.fwOffset /\ u'.fwCrc32 = u.fwCrc32
           /\ u'.transferringSize = u.transferringSize
           /\ Len(u'.att) = Len(u.att)
           /\ \A i \in 1 .. Len(u.att) :
                 /\ u.att[i] \in Requests /\ u'.att[i] \in Requests
                 /\ u'.att[i].op = u.att[i].op
                 /\ u'.att[i].done = (i = 1 \/ u.att[i].done)
           /\ u.att # <<>> /\ 1 \in 1 .. Len(u.att) /\ Head(u.att) = u.att[1]
           /\ Head(u.att) \in Undone
<1> DEFINE a == [u.att EXCEPT ![1].done = TRUE]
<1>1. /\ u \in Phone /\ u.att \in Seq(Requests) /\ u.att # <<>> /\ ~Head(u.att).done
  BY DEF IInv, TypeOK, DeviceTakesRequest, Phone
<1>2. /\ 1 \in 1 .. Len(u.att) /\ Head(u.att) = u.att[1] /\ u.att[1] \in Requests
      /\ \A i \in 1 .. Len(u.att) : u.att[i] \in Requests
  BY <1>1, EmptySeq, ElementOfSeq
<1>3. [u.att[1] EXCEPT !.done = TRUE] \in Requests
  BY <1>2 DEF Requests
<1>4. a \in Seq(Requests)
  BY <1>1, <1>2, <1>3, ExceptSeq
<1>5. Len(a) = Len(u.att)
  BY <1>1, <1>2, <1>3, ExceptSeq
<1>6. ASSUME NEW i \in 1 .. Len(u.att)
      PROVE  /\ a[i] \in Requests /\ a[i].op = u.att[i].op
             /\ a[i].done = (i = 1 \/ u.att[i].done)
  <2>1. CASE i = 1
    <3>1. a[i] = [u.att[1] EXCEPT !.done = TRUE]
      BY <1>1, <1>2, <2>1
    <3> QED  BY <1>2, <1>3, <2>1, <3>1 DEF Requests
  <2>2. CASE i # 1
    <3>1. a[i] = u.att[i]
      BY <1>1, <2>2
    <3>2. u.att[i].done \in BOOLEAN
      BY <1>2 DEF Requests
    <3> QED  BY <1>2, <2>2, <3>1, <3>2
  <2> QED  BY <2>1, <2>2
<1>7. u' = [u EXCEPT !.att = a]
  BY DEF DeviceTakesRequest
<1> HIDE DEF a
<1>8. u' \in Phone
  BY <1>1, <1>4, <1>7 DEF Phone
<1>9. /\ u'.state = u.state /\ u'.completion = u.completion
      /\ u'.mainQ = u.mainQ /\ u'.delayed = u.delayed
      /\ u'.nodeConnecting = u.nodeConnecting /\ u'.link = u.link
      /\ u'.isDeviceConnected = u.isDeviceConnected
      /\ u'.fwOffset = u.fwOffset /\ u'.fwCrc32 = u.fwCrc32
      /\ u'.transferringSize = u.transferringSize /\ u'.att = a
  BY <1>1, <1>7 DEF Phone
<1>10. Head(u.att) \in Undone
  BY <1>1, <1>2 DEF Undone
<1> QED  BY <1>1, <1>2, <1>5, <1>6, <1>8, <1>9, <1>10

\* taking a request changes no request but the oldest, which is done
LEMMA TakenRequests ==
    ASSUME IInv, DeviceTakesRequest
    PROVE  /\ \A ops : /\ Some(u'.att, Ask(ops)) => Some(u.att, Ask(ops))
                       /\ Some(u'.att, Requests \ Ask(ops)) => Some(u.att, Requests \ Ask(ops))
                       /\ Some(u'.att, Deciding \ Ask(ops)) => Some(u.att, Deciding \ Ask(ops))
           /\ \A i \in 1 .. Len(u.att) :
                 /\ u'.att[i] \in Deciding => u.att[i] \in Deciding
                 /\ u'.att[i] \in Undone => u.att[i] \in Undone /\ i # 1
<1>1. /\ Len(u'.att) = Len(u.att)
      /\ \A i \in 1 .. Len(u.att) :
            /\ u.att[i] \in Requests /\ u'.att[i] \in Requests
            /\ u'.att[i].op = u.att[i].op
            /\ u'.att[i].done = (i = 1 \/ u.att[i].done)
  BY RequestTaken
<1>2. \A i \in 1 .. Len(u.att) : \A ops :
         /\ u'.att[i] \in Ask(ops) => u.att[i] \in Ask(ops)
         /\ u'.att[i] \notin Ask(ops) => u.att[i] \notin Ask(ops)
  BY <1>1 DEF Ask
<1>3. \A i \in 1 .. Len(u.att) : u'.att[i] \in Undone => u.att[i] \in Undone /\ i # 1
  BY <1>1 DEF Undone
<1>4. \A i \in 1 .. Len(u.att) : u'.att[i] \in Deciding => u.att[i] \in Deciding
  BY <1>2, <1>3 DEF Deciding
<1>5. ASSUME NEW ops
      PROVE  /\ Some(u'.att, Ask(ops)) => Some(u.att, Ask(ops))
             /\ Some(u'.att, Requests \ Ask(ops)) => Some(u.att, Requests \ Ask(ops))
             /\ Some(u'.att, Deciding \ Ask(ops)) => Some(u.att, Deciding \ Ask(ops))
  <2> DEFINE A == Ask(ops)
             D == Deciding
             R == Requests
  <2>1. /\ Len(u'.att) = Len(u.att)
        /\ \A i \in 1 .. Len(u.att) :
              /\ u.att[i] \in R
              /\ u'.att[i] \in A => u.att[i] \in A
              /\ u'.att[i] \notin A => u.att[i] \notin A
              /\ u'.att[i] \in D => u.att[i] \in D
    BY <1>1, <1>2, <1>4
  <2> HIDE DEF A, D, R
  <2>2. /\ Some(u'.att, A) => Some(u.att, A)
        /\ Some(u'.att, R \ A) => Some(u.att, R \ A)
        /\ Some(u'.att, D \ A) => Some(u.att, D \ A)
    BY <2>1 DEF Some
  <2> QED  BY <2>2 DEF A, D, R
<1> QED  BY <1>3, <1>4, <1>5

\* At most one notice is sent, of a command that is executed.
LEMMA NoticeSent ==
    ASSUME IInv, DeviceTakesRequest
    PROVE  \/ \A E : E \subseteq Notices =>
                        (Some(air', E) <=> Some(air, E)) /\ (Once(air, E) => Once(air', E))
           \/ /\ Head(u.att).op \in Commands \ {"data"} /\ dev' = DeviceAfter(dev, Head(u.att))
              /\ \E p \in Notices :
                    /\ p.r = DeviceStatus(dev, Head(u.att))
                    /\ \A E : E \subseteq Notices => (Some(air', E) <=> Some(air, E) \/ p \in E)
                    /\ ~Some(air, Notices) => Once(air', Notices)
<1> DEFINE q == Head(u.att)
           reply == [pdu |-> "reply", r |-> "success"]
           status == [pdu |-> "notify", r |-> DeviceStatus(dev, q)]
<1>1. air \in Seq(Pdus)
  BY DEF IInv, TypeOK, Pdus
<1>2. /\ reply \in Pdus /\ reply \notin Notices
      /\ status \in Pdus /\ status \in Notices /\ status.r = DeviceStatus(dev, q)
      /\ \A r \in Results : [reply EXCEPT !.r = r] \in Pdus \ Notices
  BY DEF Results, DeviceStatus, Pdus, Notices
<1>3. \/ \E x \in Pdus \ Notices : air' = Append(air, x)
      \/ /\ q.op \in Commands \ {"data"} /\ dev' = DeviceAfter(dev, q)
         /\ air' \in {air \o <<reply, status>>, air \o <<status, reply>>}
  <2>1. \/ \E r \in Results : air' = Append(air, [reply EXCEPT !.r = r])
        \/ air' = Append(air, reply)
        \/ /\ q.op \in Commands \ {"data"} /\ dev' = DeviceAfter(dev, q)
           /\ air' \in {air \o <<reply, status>>, air \o <<status, reply>>}
    BY DEF DeviceTakesRequest, Results
  <2> HIDE DEF reply, status, q
  <2> QED  BY <1>2, <2>1
<1> HIDE DEF reply, status
<1>4. CASE \E x \in Pdus \ Notices : air' = Append(air, x)
  <2>1. PICK x \in Pdus \ Notices : air' = Append(air, x)
    BY <1>4
  <2>2. ASSUME NEW E, E \subseteq Notices
        PROVE  (Some(air', E) <=> Some(air, E)) /\ (Once(air, E) => Once(air', E))
    <3>1. x \in Pdus /\ x \notin E
      BY <2>2
    <3> QED  BY <1>1, <2>1, <3>1, SomeAppend
  <2> QED  BY <2>2
<1>5. CASE /\ q.op \in Commands \ {"data"} /\ dev' = DeviceAfter(dev, q)
           /\ air' \in {air \o <<reply, status>>, air \o <<status, reply>>}
  <2>1. PICK x \in {reply, status}, y \in {reply, status} :
           x # y /\ air' = Append(Append(air, x), y)
    <3>1. ASSUME NEW x \in Pdus, NEW y \in Pdus
          PROVE  air \o <<x, y>> = Append(Append(air, x), y)
      BY <1>1, <3>1
    <3> QED  BY <1>2, <1>5, <3>1
  <2>2. x \in Pdus /\ y \in Pdus /\ Append(air, x) \in Seq(Pdus)
    BY <1>1, <1>2, <2>1, AppendType
  <2>3. ASSUME NEW E, E \subseteq Notices
        PROVE  Some(air', E) <=> Some(air, E) \/ status \in E
    <3>1. /\ Some(Append(air, x), E) <=> Some(air, E) \/ x \in E
          /\ Some(air', E) <=> Some(Append(air, x), E) \/ y \in E
      BY <1>1, <2>1, <2>2, SomeAppend
    <3>2. reply \notin E
      BY <1>2, <2>3
    <3> QED  BY <2>1, <3>1, <3>2
  <2>4. ASSUME ~Some(air, Notices) PROVE Once(air', Notices)
    <3>1. /\ Once(Append(air, x), Notices)
          /\ Some(Append(air, x), Notices) <=> x \in Notices
      BY <1>1, <2>2, <2>4, SomeAppend, NoneOnce
    <3>2. ~(x \in Notices /\ y \in Notices)
      BY <1>2, <2>1
    <3> QED  BY <2>1, <2>2, <3>1, <3>2, SomeAppend
  <2> QED  BY <1>2, <1>5, <2>3, <2>4
<1> QED  BY <1>3, <1>4, <1>5

LEMMA DeviceVerdict ==
    ASSUME IInv, Loading(u, dev, air), DeviceTakesRequest
    PROVE  OneVerdict(u', air') /\ (u.state = "verify" => Verified(u', dev', air'))
<1> DEFINE q == Head(u.att)
           value == On({"value"})
<1>1. OneVerdict(u, air) /\ (u.state = "verify" => Verified(u, dev, air))
      /\ u.state \in Late /\ ~Some(u.att, Requests \ Ask(Commands \ {"abort"}))
  BY DEF Loading
<1>2. /\ u'.state = u.state /\ u'.mainQ = u.mainQ /\ Len(u'.att) = Len(u.att)
      /\ 1 \in 1 .. Len(u.att) /\ q = u.att[1] /\ q \in Undone /\ q \in Requests
  BY RequestTaken
<1>3. /\ Some(u'.att, Deciding \ Ask({Command[u.state]}))
             => Some(u.att, Deciding \ Ask({Command[u.state]}))
      /\ \A i \in 1 .. Len(u.att) :
            /\ u'.att[i] \in Deciding => u.att[i] \in Deciding
            /\ u'.att[i] \in Undone => u.att[i] \in Undone /\ i # 1
  BY TakenRequests
<1>4. Some(u'.att, Deciding) => Some(u.att, Deciding)
  BY <1>2, <1>3 DEF Some
<1>5. Notices \subseteq Notices /\ GoodNotices \subseteq Notices
  BY DEF GoodNotices
<1>6. Some(u.att, Undone)
  BY <1>2 DEF Some
<1> HIDE DEF q, value
<1>7. CASE \A E : E \subseteq Notices =>
                     (Some(air', E) <=> Some(air, E)) /\ (Once(air, E) => Once(air', E))
  <2>1. /\ Some(air', Notices) <=> Some(air, Notices)
        /\ Once(air, Notices) => Once(air', Notices)
        /\ Some(air', GoodNotices) <=> Some(air, GoodNotices)
    BY <1>5, <1>7
  <2>2. OneVerdict(u', air')
    BY <1>1, <1>2, <1>3, <1>4, <2>1 DEF OneVerdict
  <2>3. u.state = "verify" => Verified(u', dev', air')
    BY <1>1, <1>2, <1>6, <2>1 DEF Verified
  <2> QED  BY <2>2, <2>3
<1>8. CASE /\ q.op \in Commands \ {"data"} /\ dev' = DeviceAfter(dev, q)
           /\ \E p \in Notices :
                 /\ p.r = DeviceStatus(dev, q)
                 /\ \A E : E \subseteq Notices => (Some(air', E) <=> Some(air, E) \/ p \in E)
                 /\ ~Some(air, Notices) => Once(air', Notices)
  <2>1. q \in Deciding
    <3>1. q \in Ask(Commands \ {"abort"})
      BY <1>1, <1>2 DEF Some
    <3> QED  BY <1>2, <1>8, <3>1 DEF Deciding, Ask, Commands
  <2>2. /\ Some(u.att, Deciding) /\ Len(u.att) = 1
        /\ q.op = Command[u.state]
    <3>1. Some(u.att, Deciding)
      BY <1>2, <2>1 DEF Some
    <3>2. Len(u.att) = 1
      BY <1>1, <1>2, <2>1 DEF OneVerdict
    <3>3. q \in Ask({Command[u.state]})
      BY <1>1, <1>2, <2>1 DEF OneVerdict, Some
    <3> QED  BY <3>1, <3>2, <3>3 DEF Ask
  <2>3. u.state # "dataTransfer"
    BY <1>8, <2>2 DEF Command
  <2>4. ~Some(air, Notices) /\ ~Some(u.mainQ, On({"value"}))
    BY <1>1, <2>2 DEF OneVerdict
  <2>5. ~Some(u'.att, Deciding) /\ ~Some(u'.att, Undone)
    <3>1. \A i \in 1 .. Len(u'.att) : i = 1
      BY <1>2, <2>2
    <3>2. \A i \in 1 .. Len(u'.att) : u'.att[i] \notin Undone
      BY <1>2, <1>3, <3>1
    <3> QED  BY <3>2 DEF Some, Deciding
  <2>6. Once(air', Notices)
    BY <1>8, <2>4
  <2>7. OneVerdict(u', air')
    <3>1. /\ Once(u.mainQ, On({"value"}))
          /\ ~Some(u.att, Deciding \ Ask({Command[u.state]}))
      BY <1>1 DEF OneVerdict
    <3>2. \A i \in 1 .. Len(u'.att) : u'.att[i] \in Deciding => i = Len(u'.att)
      BY <2>5 DEF Some
    <3> QED  BY <1>2, <1>3, <2>3, <2>4, <2>5, <2>6, <3>1, <3>2 DEF OneVerdict
  <2>8. ASSUME u.state = "verify" PROVE Verified(u', dev', air')
    <3>1. q.op = "verify"
      BY <2>2, <2>8 DEF Command
    <3>2. PICK p \in Notices :
             /\ p.r = DeviceStatus(dev, q)
             /\ Some(air', GoodNotices) <=> Some(air, GoodNotices) \/ p \in GoodNotices
      BY <1>5, <1>8
    <3>3. ~Some(air, GoodNotices)
      BY <1>5, <2>4 DEF Some
    <3>4. ~Some(u.mainQ, Good("value"))
      BY <2>4 DEF Some, Good, On
    <3>5. Some(air', GoodNotices) => dev'.mode = "verified"
      <4>1. Some(air', GoodNotices) => DeviceStatus(dev, q) = "success"
        BY <3>2, <3>3 DEF GoodNotices
      <4>2. DeviceStatus(dev, q) = "success" => DeviceAfter(dev, q).mode = "verified"
        BY <3>1 DEF DeviceStatus
      <4> QED  BY <1>8, <4>1, <4>2
    <3> QED  BY <1>2, <2>5, <3>4, <3>5 DEF Verified
  <2> QED  BY <2>7, <2>8
<1> QED  BY <1>7, <1>8, NoticeSent DEF q

LEMMA DeviceFlow ==
    ASSUME IInv, Flow(u, dev, air), DeviceTakesRequest
    PROVE  Advances
<1>1. /\ u'.state = u.state /\ u'.completion = u.completion
      /\ u'.mainQ = u.mainQ /\ u'.delayed = u.delayed
      /\ u'.nodeConnecting = u.nodeConnecting /\ u'.link = u.link
      /\ u'.isDeviceConnected = u.isDeviceConnected
      /\ u'.fwOffset = u.fwOffset /\ u'.fwCrc32 = u.fwCrc32
      /\ u'.transferringSize = u.transferringSize
      /\ Len(u'.att) = Len(u.att) /\ u.att # <<>> /\ 1 \in 1 .. Len(u.att)
      /\ Head(u.att) = u.att[1] /\ Head(u.att) \in Requests
  BY RequestTaken
<1>2. Expected(u') = Expected(u)
  BY <1>1 DEF Expected, Lost
<1>3. /\ Settled(u) => Settled(u')
      /\ Clear(u) => Clear(u')
  BY <1>1, <1>2 DEF Settled, Clear
<1>4. \A ops : /\ Some(u'.att, Ask(ops)) => Some(u.att, Ask(ops))
               /\ Some(u'.att, Requests \ Ask(ops)) => Some(u.att, Requests \ Ask(ops))
  BY TakenRequests
<1>5. ASSUME Head(u.att).op \notin Commands \ {"data"}
      PROVE  Some(air', Notices) <=> Some(air, Notices)
  <2>1. \A E : E \subseteq Notices =>
                  (Some(air', E) <=> Some(air, E)) /\ (Once(air, E) => Once(air', E))
    BY <1>5, NoticeSent
  <2> QED  BY <2>1
<1>6. u'.att # <<>>
  <2>1. Len(u'.att) # 0
    BY <1>1
  <2> QED  BY <2>1
<1>7. CASE Discovering(u, air)
  <2>1. Head(u.att) \in Ask({"discover", "readAppInfo"})
    BY <1>1, <1>7 DEF Discovering, Some
  <2>2. Some(air', Notices) <=> Some(air, Notices)
    BY <1>5, <2>1 DEF Ask, Commands
  <2>3. ~Some(u.mainQ, On({"service"}))
    BY <1>1, <1>7 DEF Discovering
  <2>4. Discovering(u', air')
    BY <1>1, <1>3, <1>4, <1>7, <2>2, <2>3 DEF Discovering
  <2> QED  BY <2>4 DEF Advances, Flow
<1>8. CASE Subscribing(u, air)
  <2>1. Head(u.att) \in Ask({"subscribe"})
    BY <1>1, <1>8 DEF Subscribing, Some
  <2>2. Some(air', Notices) <=> Some(air, Notices)
    BY <1>5, <2>1 DEF Ask, Commands
  <2>3. ~Some(u.mainQ, On({"notification"}))
    BY <1>1, <1>8 DEF Subscribing
  <2>4. Subscribing(u', air')
    BY <1>1, <1>3, <1>4, <1>8, <2>2, <2>3 DEF Subscribing
  <2> QED  BY <2>4 DEF Advances, Flow
<1>9. CASE Loading(u, dev, air)
  <2>1. OneVerdict(u', air') /\ (u.state = "verify" => Verified(u', dev', air'))
    BY <1>9, DeviceVerdict
  <2>2. Loaded(u')
    BY <1>1, <1>9 DEF Loading, Loaded
  <2>3. Loading(u', dev', air')
    BY <1>1, <1>3, <1>4, <1>9, <2>1, <2>2 DEF Loading
  <2> QED  BY <2>3 DEF Advances, Flow
<1>10. CASE Aborting(u)
  <2>1. Aborting(u')
    BY <1>1, <1>3, <1>4, <1>10 DEF Aborting
  <2> QED  BY <2>1 DEF Advances, Flow
<1> QED  BY <1>1, <1>7, <1>8, <1>9, <1>10 DEF Flow, Doomed, Connecting

-----------------------------------------------------------------------------
(* Answers                                                                 *)

LEMMA AnsweredRest ==
    ASSUME u \in Phone, u.att # <<>>
    PROVE  /\ Answered \in Phone /\ Answered.att = Tail(u.att)
           /\ Answered.state = u.state /\ Answered.completion = u.completion
           /\ Answered.mainQ = u.mainQ /\ Answered.delayed = u.delayed
           /\ Answered.nodeConnecting = u.nodeConnecting /\ Answered.link = u.link
           /\ Answered.isDeviceConnected = u.isDeviceConnected
           /\ Answered.fwOffset = u.fwOffset /\ Answered.fwCrc32 = u.fwCrc32
           /\ Answered.transferringSize = u.transferringSize
           /\ Len(u.att) = Len(Answered.att) + 1
           /\ \A i \in 1 .. Len(Answered.att) :
                 i + 1 \in 1 .. Len(u.att) /\ Answered.att[i] = u.att[i + 1]
           /\ \A E : Some(u.att, E) <=> Head(u.att) \in E \/ Some(Answered.att, E)
           /\ Head(u.att) \in Requests
<1> DEFINE t == Tail(u.att)
<1>1. u.att \in Seq(Requests)
  BY DEF Phone
<1>2. /\ Head(u.att) \in Requests /\ t \in Seq(Requests) /\ Len(t) = Len(u.att) - 1
      /\ \A i \in 1 .. Len(t) : t[i] = u.att[i + 1]
      /\ Len(u.att) \in Nat
  BY <1>1, HeadTailProperties, LenProperties
<1>3. \A E : Some(u.att, E) <=> Head(u.att) \in E \/ Some(t, E)
  BY <1>1, SomeTail
<1> HIDE DEF t
<1>4. \A i \in 1 .. Len(t) : i + 1 \in 1 .. Len(u.att) /\ t[i] = u.att[i + 1]
  BY <1>2
<1>5. Answered = [u EXCEPT !.att = t]
  BY DEF Answered, t
<1>6. Answered \in Phone
  BY <1>2, <1>5 DEF Phone
<1>7. /\ Answered.att = t
      /\ Answered.state = u.state /\ Answered.completion = u.completion
      /\ Answered.mainQ = u.mainQ /\ Answered.delayed = u.delayed
      /\ Answered.nodeConnecting = u.nodeConnecting /\ Answered.link = u.link
      /\ Answered.isDeviceConnected = u.isDeviceConnected
      /\ Answered.fwOffset = u.fwOffset /\ Answered.fwCrc32 = u.fwCrc32
      /\ Answered.transferringSize = u.transferringSize
  BY <1>5 DEF Phone
<1> QED  BY <1>2, <1>3, <1>4, <1>6, <1>7 DEF t

LEMMA AirRest ==
    ASSUME IInv, air # <<>>
    PROVE  /\ Head(air) \in Pdus
           /\ \A E : /\ Some(air, E) <=> Head(air) \in E \/ Some(Tail(air), E)
                     /\ Once(air, E) => Once(Tail(air), E)
                     /\ Once(air, E) /\ Head(air) \in E => ~Some(Tail(air), E)
<1>1. air \in Seq(Pdus)
  BY DEF IInv, TypeOK, Pdus
<1> QED  BY <1>1, SomeTail, HeadTailProperties

\* A failed step before the commands ends the upgrade: nothing that is waiting
\* in front of it goes on.
LEMMA FailureDooms ==
    ASSUME NEW v \in Phone, NEW w, NEW b \in Blocks, Appended(v, w, b), Settled(v),
           v.att = <<>>, ~Some(v.mainQ, Blocks \ (On({"timeout"}) \cup Lost(v))),
           \/ v.state = "otaServiceDiscover" /\ b \in Bad("service")
           \/ v.state = "enableNotification" /\ b \in Bad("notification")
    PROVE  Doomed(w)
<1>1. /\ v.mainQ \in Seq(Blocks) /\ w.mainQ = Append(v.mainQ, b) /\ w.state = v.state
      /\ w.att = <<>> /\ w.delayed = 0 /\ w.isDeviceConnected
  BY DEF Appended, Phone, Settled
<1>2. /\ On({"timeout"}) \subseteq Final(w) /\ Lost(v) \subseteq Final(w) /\ b \in Final(w)
  BY <1>1 DEF Final, Lost
<1>3. w.mainQ # <<>> /\ Head(w.mainQ) \in Final(w)
  <2>1. CASE v.mainQ = <<>>
    <3>1. w.mainQ # <<>> /\ Head(w.mainQ) = b
      BY <1>1, <2>1, AppendProperties
    <3> QED  BY <1>2, <3>1
  <2>2. CASE v.mainQ # <<>>
    <3>1. w.mainQ # <<>> /\ Head(w.mainQ) = Head(v.mainQ)
      BY <1>1, <2>2, HeadTailAppend, AppendProperties
    <3>2. Head(v.mainQ) \in Blocks
      BY <1>1, <2>2, HeadTailProperties
    <3>3. Head(v.mainQ) \notin Blocks \ (On({"timeout"}) \cup Lost(v))
      BY <1>1, <2>2, SomeTail
    <3> QED  BY <1>2, <3>1, <3>2, <3>3
  <2> QED  BY <2>1, <2>2
<1> QED  BY <1>1, <1>3 DEF Doomed, Early

LEMMA DisconnectStays ==
    ASSUME NEW v \in Phone, Doomed(v)
    PROVE  Doomed(Disconnect(v))
<1> DEFINE w == Post(v, "connection", "error")
           b == Block("connection", "error")
<1>1. Appended(v, w, b) /\ b \in Blocks
  BY PostAppended DEF Events, Results
<1>2. Disconnect(v) \in {v, w}
  BY DEF Disconnect, PostIf
<1> HIDE DEF w, b
<1>3. Doomed(w)
  <2>1. w.state = v.state /\ w.att = <<>> /\ w.delayed = v.delayed
        /\ w.isDeviceConnected = v.isDeviceConnected /\ w.mainQ = Append(v.mainQ, b)
    BY <1>1 DEF Appended, Doomed
  <2> QED  BY <1>1, <2>1, DoomedStays
<1> QED  BY <1>2, <1>3

\* the discovery, or the reading of the AppInfo, is answered
LEMMA DiscoveryAnswered ==
    ASSUME IInv, Discovering(u, air), u.att # <<>>
    PROVE  /\ Discovering(Answered, air) /\ Answered.att = <<>> /\ Answered \in Phone
           /\ ~Some(u.mainQ, On({"service"}))
           /\ Head(u.att) \in Ask({"discover"}) => ~Some(u.mainQ, On({"value"}))
<1>1. u \in Phone
  BY DEF IInv, TypeOK
<1>2. /\ Answered \in Phone
      /\ Answered.state = u.state /\ Answered.mainQ = u.mainQ
      /\ Answered.delayed = u.delayed /\ Answered.nodeConnecting = u.nodeConnecting
      /\ Answered.link = u.link /\ Answered.isDeviceConnected = u.isDeviceConnected
      /\ Answered.fwOffset = u.fwOffset /\ Answered.fwCrc32 = u.fwCrc32
      /\ Len(u.att) = Len(Answered.att) + 1
      /\ \A E : Some(u.att, E) <=> Head(u.att) \in E \/ Some(Answered.att, E)
  BY <1>1, AnsweredRest
<1>3. Answered.att = <<>>
  <2>1. Answered.att \in Seq(Requests)
    BY <1>2 DEF Phone
  <2>2. Len(Answered.att) = 0
    BY <1>2, <2>1, LenProperties DEF Discovering
  <2> QED  BY <2>1, <2>2, EmptySeq
<1>4. Settled(Answered) /\ Clear(Answered)
  BY <1>2 DEF Settled, Clear, Expected, Lost, Discovering
<1>5. /\ ~Some(<<>>, Requests \ Ask({"discover", "readAppInfo"})) /\ ~Some(<<>>, Ask({"discover"}))
      /\ Len(<<>>) =< 1
  BY SomeEmpty
<1>6. /\ ~Some(u.mainQ, On({"service"}))
      /\ Head(u.att) \in Ask({"discover"}) => ~Some(u.mainQ, On({"value"}))
  BY <1>2 DEF Discovering
<1>7. Discovering(Answered, air)
  <2>1. /\ Answered.state = "otaServiceDiscover" /\ ~Some(air, Notices)
        /\ Once(Answered.mainQ, On({"service"})) /\ ~Some(Answered.mainQ, On({"service"}))
        /\ Answered.fwOffset = 0 /\ Answered.fwCrc32 = <<>>
    BY <1>2, <1>6 DEF Discovering
  <2> QED  BY <1>3, <1>4, <1>5, <2>1 DEF Discovering
<1> QED  BY <1>2, <1>3, <1>6, <1>7

\* the discovery is reported, or the value that was read
LEMMA DiscoveryReported ==
    ASSUME NEW v \in Phone, NEW w, NEW a, Discovering(v, a), v.att = <<>>,
           ~Some(v.mainQ, On({"service"})),
           NEW b \in Blocks, Appended(v, w, b),
           \/ b.ev = "value"
           \/ b.ev = "service" /\ ~Some(v.mainQ, On({"value"}))
    PROVE  Discovering(w, a)
<1>1. /\ w.mainQ = Append(v.mainQ, b) /\ w.state = v.state /\ w.att = <<>>
      /\ w.delayed = v.delayed /\ w.nodeConnecting = v.nodeConnecting
      /\ w.link = v.link /\ w.isDeviceConnected = v.isDeviceConnected
      /\ w.fwOffset = v.fwOffset /\ w.fwCrc32 = v.fwCrc32
  BY DEF Appended
<1>2. b \in Expected(w)
  <2>1. Expected(w) = On({"timeout"}) \cup (On({"service", "value"}) \cup Lost(w))
    BY <1>1 DEF Expected, Late, Discovering
  <2> QED  BY <2>1 DEF On
<1>3. /\ \A E : /\ Some(w.mainQ, E) <=> Some(v.mainQ, E) \/ b \in E
                /\ Once(v.mainQ, E) /\ ~(Some(v.mainQ, E) /\ b \in E) => Once(w.mainQ, E)
      /\ Clear(v) /\ b \in Expected(w) => Clear(w)
  BY <1>1, AppendedQueue
<1>4. ~(b \in On({"service"}) /\ b \in On({"value"}))
      /\ (b \in On({"value"}) <=> b.ev = "value") /\ (b \in On({"service"}) <=> b.ev = "service")
  BY DEF On
<1>5. Settled(w) /\ Clear(w)
  BY <1>1, <1>2, <1>3 DEF Settled, Discovering
<1>6. /\ Once(w.mainQ, On({"service"}))
      /\ ~(Some(w.mainQ, On({"service"})) /\ Some(w.mainQ, On({"value"})))
  BY <1>3, <1>4 DEF Discovering
<1>7. ~Some(<<>>, Requests \ Ask({"discover", "readAppInfo"})) /\ ~Some(<<>>, Ask({"discover"}))
      /\ Len(<<>>) =< 1
  BY SomeEmpty
<1> QED  BY <1>1, <1>5, <1>6, <1>7 DEF Discovering

\* before the commands, only the end of the upgrade waits beside a report
LEMMA OnlyEnds ==
    ASSUME NEW v \in Phone, Clear(v),
           \/ v.state = "otaServiceDiscover" /\ ~Some(v.mainQ, On({"service"}))
                 /\ ~Some(v.mainQ, On({"value"}))
           \/ v.state = "enableNotification" /\ ~Some(v.mainQ, On({"notification"}))
    PROVE  ~Some(v.mainQ, Blocks \ (On({"timeout"}) \cup Lost(v)))
<1> DEFINE R == Blocks \ (On({"timeout"}) \cup Lost(v))
<1>1. v.mainQ \in Seq(Blocks)
  BY DEF Phone
<1>2. CASE v.state = "otaServiceDiscover"
  <2>1. ~Some(v.mainQ, On({"service", "value"}))
    <3>1. Blocks \cap On({"service", "value"}) \subseteq On({"service"}) \cup On({"value"})
      BY DEF On
    <3>2. ~Some(v.mainQ, On({"service"})) /\ ~Some(v.mainQ, On({"value"}))
      BY <1>2
    <3> QED  BY <1>1, <3>1, <3>2, SomeMinus
  <2>2. Blocks \cap R \subseteq (Blocks \ Expected(v)) \cup On({"service", "value"})
    BY <1>2 DEF Expected, Late
  <2> HIDE DEF R
  <2>3. ~Some(v.mainQ, R)
    BY <1>1, <2>1, <2>2, SomeMinus DEF Clear
  <2> QED  BY <2>3 DEF R
<1>3. CASE v.state = "enableNotification"
  <2>1. ~Some(v.mainQ, On({"notification"}))
    BY <1>3
  <2>2. Blocks \cap R \subseteq (Blocks \ Expected(v)) \cup On({"notification"})
    BY <1>3 DEF Expected, Late
  <2> HIDE DEF R
  <2>3. ~Some(v.mainQ, R)
    BY <1>1, <2>1, <2>2, SomeMinus DEF Clear
  <2> QED  BY <2>3 DEF R
<1> QED  BY <1>2, <1>3

LEMMA DidDiscoverFlow ==
    ASSUME IInv, Flow(u, dev, air), Going(u), DidDiscover
    PROVE  Advances
<1> DEFINE failed == Post(Answered, "service", "error")
           found == [Answered EXCEPT !.characteristics = TRUE]
           q == Request("readAppInfo", 0, <<>>)
           asked == [found EXCEPT !.att = Append(@, q)]
           done == Post(found, "service", "success")
<1>1. /\ u \in Phone /\ air # <<>> /\ u.att # <<>> /\ Head(u.att) \in Ask({"discover"})
      /\ Head(u.att) \in Requests /\ dev' = dev /\ air' = Tail(air)
  <2>1. u \in Phone /\ u.att # <<>> /\ Head(u.att).op = "discover"
    BY DEF IInv, TypeOK, DidDiscover, Replied, Arrives
  <2>2. Head(u.att) \in Requests
    BY <2>1, AnsweredRest
  <2> QED  BY <2>1, <2>2 DEF DidDiscover, Replied, Arrives, Ask
<1>2. Some(u.att, Ask({"discover"}))
  BY <1>1, AnsweredRest
<1>3. Discovering(u, air)
  <2>1. /\ Head(u.att) \in Requests \ Ask({"subscribe"})
        /\ Head(u.att) \in Requests \ Ask(Commands \ {"abort"})
        /\ Head(u.att) \in Requests \ Ask(Commands)
    BY <1>1 DEF Ask, Commands
  <2>2. /\ Some(u.att, Requests \ Ask({"subscribe"}))
        /\ Some(u.att, Requests \ Ask(Commands \ {"abort"}))
        /\ Some(u.att, Requests \ Ask(Commands))
    BY <1>1, <2>1, AnsweredRest
  <2> QED  BY <1>1, <2>2 DEF Flow, Doomed, Connecting, Subscribing, Loading, Aborting
<1>4. /\ Discovering(Answered, air) /\ Answered.att = <<>> /\ Answered \in Phone
      /\ ~Some(u.mainQ, On({"service"})) /\ ~Some(u.mainQ, On({"value"}))
  BY <1>1, <1>3, DiscoveryAnswered
<1>5. /\ Answered.mainQ = u.mainQ /\ Answered.state = "otaServiceDiscover"
      /\ Settled(Answered) /\ Clear(Answered)
      /\ ~Some(Answered.mainQ, On({"service"})) /\ ~Some(Answered.mainQ, On({"value"}))
  BY <1>1, <1>4, AnsweredRest DEF Discovering
<1>6. ~Some(Tail(air), Notices)
  BY <1>1, <1>3, AirRest DEF Discovering
<1>7. Routed
  BY <1>3 DEF Routed, Going, Discovering, Settled
<1>8. u' \in {Answered, failed, Disconnect(failed), asked, done}
  BY <1>7 DEF DidDiscover
<1>9. ASSUME NEW w, Discovering(w, air) PROVE Discovering(w, Tail(air))
  BY <1>6, <1>9 DEF Discovering
<1>10. Doomed(failed) /\ Doomed(Disconnect(failed))
  <2>1. /\ Appended(Answered, failed, Block("service", "error"))
        /\ Block("service", "error") \in Blocks /\ Block("service", "error").ev = "service"
        /\ Block("service", "error").r = "error"
    BY <1>4, PostAppended DEF Events, Results
  <2>2. Block("service", "error") \in Bad("service")
    BY <2>1 DEF Bad
  <2>3. ~Some(Answered.mainQ, Blocks \ (On({"timeout"}) \cup Lost(Answered)))
    BY <1>4, <1>5, OnlyEnds
  <2> HIDE DEF failed
  <2>4. Doomed(failed) /\ failed \in Phone
    BY <1>4, <1>5, <2>1, <2>2, <2>3, FailureDooms DEF Appended
  <2> QED  BY <2>4, DisconnectStays
<1>11. Alike(Answered, found) /\ found \in Phone
  <2>1. found \in Phone
    BY <1>4 DEF Phone
  <2>2. /\ found.state = Answered.state /\ found.att = Answered.att
        /\ found.completion = Answered.completion
        /\ found.mainQ = Answered.mainQ /\ found.delayed = Answered.delayed
        /\ found.nodeConnecting = Answered.nodeConnecting
        /\ found.link = Answered.link /\ found.isDeviceConnected = Answered.isDeviceConnected
        /\ found.fwOffset = Answered.fwOffset /\ found.fwCrc32 = Answered.fwCrc32
        /\ found.transferringSize = Answered.transferringSize
    BY <1>4 DEF Phone
  <2> HIDE DEF found
  <2> QED  BY <2>1, <2>2 DEF Alike
<1> HIDE DEF found, failed
<1>12. /\ Discovering(found, air) /\ found.att = <<>> /\ found.state = "otaServiceDiscover"
       /\ ~Some(found.mainQ, On({"service"})) /\ ~Some(found.mainQ, On({"value"}))
  BY <1>4, <1>5, <1>11, AlikeFlow DEF Alike
<1>13. Discovering(done, air)
  <2>1. /\ Appended(found, done, Block("service", "success"))
        /\ Block("service", "success") \in Blocks /\ Block("service", "success").ev = "service"
    BY <1>11, PostAppended DEF Events, Results
  <2> HIDE DEF done
  <2> QED  BY <1>11, <1>12, <2>1, DiscoveryReported
<1>14. Discovering(asked, air)
  <2>1. q \in Requests /\ q.op = "readAppInfo"
    BY BareRequestType DEF Request
  <2>2. /\ asked.att = <<q>> /\ asked.state = found.state /\ asked.mainQ = found.mainQ
        /\ asked.delayed = found.delayed /\ asked.nodeConnecting = found.nodeConnecting
        /\ asked.link = found.link /\ asked.isDeviceConnected = found.isDeviceConnected
        /\ asked.fwOffset = found.fwOffset /\ asked.fwCrc32 = found.fwCrc32
    <3>1. Append(found.att, q) = <<q>>
      BY <1>12, <2>1
    <3> QED  BY <1>11, <3>1 DEF Phone
  <2> HIDE DEF asked, q
  <2>3. Settled(asked) /\ Clear(asked)
    BY <1>12, <2>2 DEF Settled, Clear, Expected, Lost, Discovering
  <2>4. /\ Len(asked.att) = 1 /\ ~Some(asked.att, Requests \ Ask({"discover", "readAppInfo"}))
        /\ ~Some(asked.att, Ask({"discover"}))
    <3>1. q \in Ask({"discover", "readAppInfo"}) /\ q \notin Ask({"discover"})
      BY <2>1 DEF Ask
    <3> QED  BY <2>2, <3>1 DEF Some
  <2> QED  BY <1>12, <2>2, <2>3, <2>4 DEF Discovering
<1> HIDE DEF asked, done
<1>15. Doomed(u') \/ Discovering(u', Tail(air))
  BY <1>4, <1>8, <1>9, <1>10, <1>13, <1>14
<1> QED  BY <1>1, <1>15 DEF Advances, Flow

LEMMA DidUpdateNotificationFlow ==
    ASSUME IInv, Flow(u, dev, air), Going(u), DidUpdateNotificationState
    PROVE  Advances
<1> DEFINE failed == Post(Answered, "notification", "error")
           done == Post(Answered, "notification", "success")
<1>1. /\ u \in Phone /\ air # <<>> /\ u.att # <<>> /\ Head(u.att) \in Ask({"subscribe"})
      /\ Head(u.att) \in Requests /\ dev' = dev /\ air' = Tail(air)
  <2>1. u \in Phone /\ u.att # <<>> /\ Head(u.att).op = "subscribe"
    BY DEF IInv, TypeOK, DidUpdateNotificationState, Replied, Arrives
  <2>2. Head(u.att) \in Requests
    BY <2>1, AnsweredRest
  <2> QED  BY <2>1, <2>2 DEF DidUpdateNotificationState, Replied, Arrives, Ask
<1>2. Subscribing(u, air)
  <2>1. /\ Head(u.att) \in Requests \ Ask({"discover", "readAppInfo"})
        /\ Head(u.att) \in Requests \ Ask(Commands \ {"abort"})
        /\ Head(u.att) \in Requests \ Ask(Commands)
    BY <1>1 DEF Ask, Commands
  <2>2. /\ Some(u.att, Requests \ Ask({"discover", "readAppInfo"}))
        /\ Some(u.att, Requests \ Ask(Commands \ {"abort"}))
        /\ Some(u.att, Requests \ Ask(Commands))
    BY <1>1, <2>1, AnsweredRest
  <2> QED  BY <1>1, <2>2 DEF Flow, Doomed, Connecting, Discovering, Loading, Aborting
<1>3. /\ Answered \in Phone
      /\ Answered.state = u.state /\ Answered.mainQ = u.mainQ
      /\ Answered.delayed = u.delayed /\ Answered.nodeConnecting = u.nodeConnecting
      /\ Answered.link = u.link /\ Answered.isDeviceConnected = u.isDeviceConnected
      /\ Answered.fwOffset = u.fwOffset /\ Answered.fwCrc32 = u.fwCrc32
      /\ Len(u.att) = Len(Answered.att) + 1
  BY <1>1, AnsweredRest
<1>4. Answered.att = <<>>
  <2>1. Answered.att \in Seq(Requests)
    BY <1>3 DEF Phone
  <2>2. Len(Answered.att) = 0
    BY <1>2, <1>3, <2>1, LenProperties DEF Subscribing
  <2> QED  BY <2>1, <2>2, EmptySeq
<1>5. /\ Settled(Answered) /\ Clear(Answered) /\ Answered.state = "enableNotification"
      /\ ~Some(Answered.mainQ, On({"notification"}))
      /\ Answered.fwOffset = 0 /\ Answered.fwCrc32 = <<>>
  BY <1>1, <1>2, <1>3 DEF Settled, Clear, Expected, Lost, Subscribing
<1>6. ~Some(Tail(air), Notices)
  BY <1>1, <1>2, AirRest DEF Subscribing
<1>7. ~Some(<<>>, Requests \ Ask({"subscribe"})) /\ Len(<<>>) =< 1
  BY SomeEmpty
<1>8. u' \in {Answered, done, Disconnect(failed)}
  BY DEF DidUpdateNotificationState
<1>9. Subscribing(Answered, Tail(air))
  BY <1>4, <1>5, <1>6, <1>7, NoneOnce DEF Subscribing
<1>10. Doomed(Disconnect(failed))
  <2>1. /\ Appended(Answered, failed, Block("notification", "error"))
        /\ Block("notification", "error") \in Blocks
        /\ Block("notification", "error").ev = "notification"
        /\ Block("notification", "error").r = "error"
    BY <1>3, PostAppended DEF Events, Results
  <2>2. Block("notification", "error") \in Bad("notification")
    BY <2>1 DEF Bad
  <2>3. ~Some(Answered.mainQ, Blocks \ (On({"timeout"}) \cup Lost(Answered)))
    BY <1>3, <1>5, OnlyEnds
  <2> HIDE DEF failed
  <2>4. Doomed(failed) /\ failed \in Phone
    BY <1>3, <1>4, <1>5, <2>1, <2>2, <2>3, FailureDooms DEF Appended
  <2> QED  BY <2>4, DisconnectStays
<1>11. Subscribing(done, Tail(air))
  <2> DEFINE b == Block("notification", "success")
  <2>1. Appended(Answered, done, b) /\ b \in Blocks /\ b.ev = "notification"
    BY <1>3, PostAppended DEF Events, Results
  <2> HIDE DEF b, done
  <2>2. /\ done.mainQ = Append(Answered.mainQ, b) /\ done.state = Answered.state
        /\ done.att = <<>>
        /\ done.delayed = Answered.delayed /\ done.nodeConnecting = Answered.nodeConnecting
        /\ done.link = Answered.link /\ done.isDeviceConnected = Answered.isDeviceConnected
        /\ done.fwOffset = Answered.fwOffset /\ done.fwCrc32 = Answered.fwCrc32
    BY <1>4, <2>1 DEF Appended
  <2>3. b \in Expected(done)
    <3>1. Expected(done) = On({"timeout"}) \cup (On({"notification"}) \cup Lost(done))
      BY <1>5, <2>2 DEF Expected, Late
    <3> QED  BY <2>1, <3>1 DEF On
  <2>4. Clear(done) /\ Once(done.mainQ, On({"notification"}))
    <3>1. Once(Answered.mainQ, On({"notification"}))
      BY <1>5, NoneOnce
    <3>2. /\ \A E : Once(Answered.mainQ, E) /\ ~(Some(Answered.mainQ, E) /\ b \in E)
                       => Once(done.mainQ, E)
          /\ Clear(Answered) /\ b \in Expected(done) => Clear(done)
      BY <1>3, <2>1, <2>2, AppendedQueue
    <3> QED  BY <1>5, <2>3, <3>1, <3>2
  <2>5. Settled(done)
    BY <1>5, <2>2 DEF Settled
  <2> QED  BY <1>5, <1>6, <1>7, <2>2, <2>4, <2>5 DEF Subscribing
<1> HIDE DEF failed, done
<1>12. Doomed(u') \/ Subscribing(u', Tail(air))
  BY <1>8, <1>9, <1>10, <1>11
<1> QED  BY <1>1, <1>12 DEF Advances, Flow

\* The device's verdict is taken from the link, and waits in the queue instead.
LEMMA VerdictReceived ==
    ASSUME IInv, Loading(u, dev, air), air # <<>>, Head(air) \in Notices
    PROVE  /\ Loading(u, dev, Tail(air))
           /\ \A w : \A b \in Blocks :
                 Appended(u, w, b) /\ b.ev = "value" /\ b.r = Head(air).r
                    => Loading(w, dev, Tail(air))
<1>1. /\ u \in Phone /\ OneVerdict(u, air) /\ (u.state = "verify" => Verified(u, dev, air))
      /\ u.state \in Late /\ Settled(u) /\ Clear(u)
      /\ ~Some(u.att, Requests \ Ask(Commands \ {"abort"}))
      /\ u.completion \in {"none", Command[u.state]} /\ Loaded(u)
  BY DEF Loading, IInv, TypeOK
<1>2. Some(air, Notices) /\ ~Some(Tail(air), Notices) /\ Once(Tail(air), Notices)
  <2>1. Some(air, Notices) /\ ~Some(Tail(air), Notices)
    BY <1>1, AirRest DEF OneVerdict
  <2> QED  BY <2>1, NoneOnce
<1>3. ~Some(Tail(air), GoodNotices)
  BY <1>2 DEF Some, GoodNotices
<1>4. /\ u.state # "dataTransfer" /\ ~Some(u.mainQ, On({"value"})) /\ ~Some(u.att, Deciding)
  BY <1>1, <1>2 DEF OneVerdict
<1>5. Head(air).r = "success" => Some(air, GoodNotices)
  <2>1. Head(air).r = "success" => Head(air) \in GoodNotices
    BY DEF GoodNotices
  <2> QED  BY <2>1, AirRest
<1>6. Loading(u, dev, Tail(air))
  <2>1. OneVerdict(u, Tail(air))
    BY <1>1, <1>2 DEF OneVerdict
  <2>2. u.state = "verify" => Verified(u, dev, Tail(air))
    BY <1>1, <1>3 DEF Verified
  <2> QED  BY <1>1, <2>1, <2>2 DEF Loading
<1>7. ASSUME NEW w, NEW b \in Blocks, Appended(u, w, b), b.ev = "value", b.r = Head(air).r
      PROVE  Loading(w, dev, Tail(air))
  <2>1. /\ w.mainQ = Append(u.mainQ, b)
        /\ w.state = u.state /\ w.att = u.att /\ w.completion = u.completion
        /\ w.delayed = u.delayed /\ w.nodeConnecting = u.nodeConnecting
        /\ w.link = u.link /\ w.isDeviceConnected = u.isDeviceConnected
        /\ w.fwOffset = u.fwOffset /\ w.fwCrc32 = u.fwCrc32
        /\ w.transferringSize = u.transferringSize
    BY <1>7 DEF Appended
  <2>2. b \in Expected(w)
    <3>1. Expected(w) = On({"timeout"}) \cup (On({"value", "stop"}) \cup Lost(w))
      BY <1>1, <2>1 DEF Expected, Late
    <3> QED  BY <1>7, <3>1 DEF On
  <2>3. /\ \A E : /\ Some(w.mainQ, E) <=> Some(u.mainQ, E) \/ b \in E
                  /\ Once(u.mainQ, E) /\ ~(Some(u.mainQ, E) /\ b \in E) => Once(w.mainQ, E)
        /\ Clear(u) /\ b \in Expected(w) => Clear(w)
    BY <1>1, <2>1, AppendedQueue
  <2>4. Once(w.mainQ, On({"value"}))
    BY <1>1, <1>4, <2>3 DEF OneVerdict
  <2>5. OneVerdict(w, Tail(air))
    BY <1>1, <1>2, <1>4, <2>1, <2>4 DEF OneVerdict
  <2>6. ASSUME u.state = "verify" PROVE Verified(w, dev, Tail(air))
    <3>1. ~Some(u.mainQ, Good("value"))
      BY <1>4 DEF Some, Good, On
    <3>2. Some(w.mainQ, Good("value")) => b \in Good("value")
      BY <2>3, <3>1
    <3>3. b \in Good("value") => Head(air).r = "success"
      BY <1>7 DEF Good
    <3> QED  BY <1>1, <1>3, <1>5, <2>1, <2>6, <3>2, <3>3 DEF Verified
  <2>7. Loaded(w)
    BY <1>1, <2>1 DEF Loaded
  <2>8. Settled(w)
    BY <1>1, <2>1 DEF Settled
  <2> QED  BY <1>1, <2>1, <2>2, <2>3, <2>5, <2>6, <2>7, <2>8 DEF Loading
<1> QED  BY <1>6, <1>7

LEMMA DidUpdateValueFlow ==
    ASSUME IInv, Flow(u, dev, air), DidUpdateValue
    PROVE  Advances
<1> DEFINE r == Head(air).r
           b == Block("value", r)
<1>1. /\ u \in Phone /\ air # <<>> /\ dev' = dev /\ air' = Tail(air)
      /\ Head(air) \in Pdus /\ r \in Results
  <2>1. u \in Phone /\ air # <<>> /\ dev' = dev /\ air' = Tail(air)
    BY DEF IInv, TypeOK, DidUpdateValue, Replied, Arrives
  <2>2. Head(air) \in Pdus
    BY <2>1, AirRest
  <2> QED  BY <2>1, <2>2 DEF Pdus
<1> HIDE DEF r
<1>2. b \in Blocks /\ b.ev = "value" /\ b.r = r
  BY <1>1 DEF Block, Blocks
<1>3. CASE Arrives("notify")
  <2>1. Head(air) \in Notices /\ Some(air, Notices)
    <3>1. Head(air) \in Notices
      BY <1>1, <1>3 DEF Arrives, Notices
    <3> QED  BY <1>1, <3>1, AirRest
  <2>2. u' = u \/ u' = Post(u, "value", r)
    BY <1>3 DEF DidUpdateValue, PostIf, r
  <2>3. u' = u \/ Appended(u, u', b)
    BY <1>1, <2>2, PostAppended DEF Events
  <2> HIDE DEF b
  <2>4. CASE Doomed(u)
    <3>1. /\ u'.state = u.state /\ u'.att = <<>> /\ u'.delayed = u.delayed
          /\ u'.isDeviceConnected = u.isDeviceConnected
          /\ u'.mainQ = u.mainQ \/ u'.mainQ = Append(u.mainQ, b)
      BY <2>3, <2>4 DEF Appended, Doomed
    <3>2. Doomed(u')
      BY <1>1, <1>2, <2>4, <3>1, DoomedStays
    <3> QED  BY <3>2 DEF Advances, Flow
  <2>5. CASE Loading(u, dev, air)
    <3>1. Loading(u', dev', air')
      BY <1>1, <1>2, <2>1, <2>3, <2>5, VerdictReceived DEF r
    <3> QED  BY <3>1 DEF Advances, Flow
  <2>6. CASE Aborting(u)
    <3>1. CASE u' = u
      BY <2>6, <3>1 DEF Advances, Flow
    <3>2. CASE Appended(u, u', b)
      <4>1. /\ u'.mainQ = Append(u.mainQ, b)
            /\ u'.state = u.state /\ u'.att = u.att /\ u'.completion = u.completion
            /\ u'.delayed = u.delayed /\ u'.nodeConnecting = u.nodeConnecting
            /\ u'.link = u.link /\ u'.isDeviceConnected = u.isDeviceConnected
        BY <3>2 DEF Appended
      <4>2. b \in Expected(u')
        <5>1. Expected(u') = On({"timeout"}) \cup (On({"value", "stop"}) \cup Bad("connection"))
          BY <2>6, <4>1 DEF Expected, Late, Aborting
        <5> QED  BY <1>2, <5>1 DEF On
      <4>3. Clear(u')
        BY <1>1, <1>2, <2>6, <4>1, <4>2, AppendedQueue DEF Aborting
      <4>4. Aborting(u')
        BY <2>6, <4>1, <4>3 DEF Aborting, Settled
      <4> QED  BY <4>4 DEF Advances, Flow
    <3> QED  BY <2>3, <3>1, <3>2
  <2> QED  BY <2>1, <2>4, <2>5, <2>6 DEF Flow, Connecting, Discovering, Subscribing
<1>4. CASE ~Arrives("notify")
  <2>1. /\ u.att # <<>> /\ Head(u.att).op = "readAppInfo"
        /\ u' = Answered \/ u' = Post(Answered, "value", r)
    BY <1>4 DEF DidUpdateValue, Replied, PostIf, r
  <2>2. Head(u.att) \in Requests
    BY <1>1, <2>1, AnsweredRest
  <2>3. Discovering(u, air)
    <3>1. /\ Head(u.att) \in Requests \ Ask({"subscribe"})
          /\ Head(u.att) \in Requests \ Ask(Commands \ {"abort"})
          /\ Head(u.att) \in Requests \ Ask(Commands)
      BY <2>1, <2>2 DEF Ask, Commands
    <3>2. /\ Some(u.att, Requests \ Ask({"subscribe"}))
          /\ Some(u.att, Requests \ Ask(Commands \ {"abort"}))
          /\ Some(u.att, Requests \ Ask(Commands))
      BY <1>1, <2>1, <3>1, AnsweredRest
    <3> QED  BY <2>1, <3>2 DEF Flow, Doomed, Connecting, Subscribing, Loading, Aborting
  <2>4. /\ Discovering(Answered, air) /\ Answered.att = <<>> /\ Answered \in Phone
        /\ ~Some(Answered.mainQ, On({"service"}))
    BY <1>1, <2>1, <2>3, DiscoveryAnswered, AnsweredRest
  <2>5. u' = Answered \/ Appended(Answered, u', b)
    BY <1>1, <2>1, <2>4, PostAppended DEF Events
  <2> HIDE DEF b
  <2>6. Discovering(u', air)
    BY <1>2, <2>4, <2>5, DiscoveryReported
  <2>7. ~Some(Tail(air), Notices)
    BY <1>1, <2>6, AirRest DEF Discovering
  <2>8. Discovering(u', Tail(air))
    BY <2>6, <2>7 DEF Discovering
  <2> QED  BY <1>1, <2>8 DEF Advances, Flow
<1> QED  BY <1>3, <1>4

\* The reply to a command leaves the verdict on it to come.
LEMMA ReplyTaken ==
    ASSUME IInv, air # <<>>, u.att # <<>>, Head(air).pdu = "reply"
    PROVE  /\ Loading(u, dev, air) => Loading(Answered, dev, Tail(air))
           /\ Aborting(u) => Aborting(Answered)
           /\ Some(Tail(air), Notices) <=> Some(air, Notices)
<1>1. u \in Phone
  BY DEF IInv, TypeOK
<1>2. /\ Answered.state = u.state /\ Answered.completion = u.completion
      /\ Answered.mainQ = u.mainQ /\ Answered.delayed = u.delayed
      /\ Answered.nodeConnecting = u.nodeConnecting /\ Answered.link = u.link
      /\ Answered.isDeviceConnected = u.isDeviceConnected
      /\ Answered.fwOffset = u.fwOffset /\ Answered.fwCrc32 = u.fwCrc32
      /\ Answered.transferringSize = u.transferringSize
      /\ Len(u.att) = Len(Answered.att) + 1
      /\ \A i \in 1 .. Len(Answered.att) :
            i + 1 \in 1 .. Len(u.att) /\ Answered.att[i] = u.att[i + 1]
      /\ \A E : Some(Answered.att, E) => Some(u.att, E)
  BY <1>1, AnsweredRest
<1>3. /\ Some(Tail(air), Notices) <=> Some(air, Notices)
      /\ Some(Tail(air), GoodNotices) <=> Some(air, GoodNotices)
      /\ Once(air, Notices) => Once(Tail(air), Notices)
  <2>1. Head(air) \notin Notices /\ Head(air) \notin GoodNotices
    BY DEF Notices, GoodNotices
  <2> QED  BY <2>1, AirRest
<1>4. (Settled(u) => Settled(Answered)) /\ (Clear(u) => Clear(Answered))
  BY <1>2 DEF Settled, Clear, Expected, Lost
<1>5. ASSUME Loading(u, dev, air) PROVE Loading(Answered, dev, Tail(air))
  <2>1. OneVerdict(Answered, Tail(air))
    <3>1. OneVerdict(u, air)
      BY <1>5 DEF Loading
    <3>2. ASSUME NEW i \in 1 .. Len(Answered.att), Answered.att[i] \in Deciding
          PROVE  i = Len(Answered.att)
      <4>1. i + 1 \in 1 .. Len(u.att) /\ u.att[i + 1] \in Deciding
        BY <1>2, <3>2
      <4>2. i + 1 = Len(u.att)
        BY <3>1, <4>1 DEF OneVerdict
      <4>3. Len(Answered.att) \in Nat
        BY <1>1, AnsweredRest, LenProperties DEF Phone
      <4> QED  BY <1>2, <4>2, <4>3
    <3> QED  BY <1>2, <1>3, <3>1, <3>2 DEF OneVerdict
  <2>2. u.state = "verify" => Verified(Answered, dev, Tail(air))
    <3>1. u.state = "verify" => Verified(u, dev, air)
      BY <1>5 DEF Loading
    <3> QED  BY <1>2, <1>3, <3>1 DEF Verified
  <2>3. Loaded(Answered)
    BY <1>2, <1>5 DEF Loading, Loaded
  <2> QED  BY <1>2, <1>4, <1>5, <2>1, <2>2, <2>3 DEF Loading
<1>6. ASSUME Aborting(u) PROVE Aborting(Answered)
  BY <1>2, <1>4, <1>6 DEF Aborting
<1> QED  BY <1>3, <1>5, <1>6

\* The packet that was sent is acknowledged: the next one follows, or the
\* image is verified.
LEMMA PacketFollows ==
    ASSUME NEW v \in Phone, NEW r \in Results, NEW d, NEW a, Bare(v, a),
           v.state = "dataTransfer", Loaded(v)
    PROVE  Loads(otaTransferDataResponse(v, r), d, a)
<1> DEFINE t == StopTimer(v)
           w == [t EXCEPT !.fwOffset = @ + v.transferringSize]
           k == Len(v.fwCrc32)
           off == (k - 1) * MaxPacket
           end == off + ChunkSize(off)
<1>1. /\ v.fwOffset = off /\ off < ImageSize /\ v.fwCrc32 = Packets(k)
      /\ v.transferringSize = ChunkSize(off) /\ k > 0
  BY DEF Loaded
<1>2. k \in Nat \ {0}
  <2>1. v.fwCrc32 \in Seq(Int)
    BY DEF Phone
  <2> QED  BY <1>1, <2>1, LenProperties
<1>3. Alike(v, t) /\ t \in Phone
  BY TimerAlike DEF Alike
<1> HIDE DEF t
<1>4. /\ w \in Phone /\ w.fwOffset = end /\ w.fwCrc32 = Packets(k) /\ w.state = "dataTransfer"
      /\ Bare(w, a)
  <2>1. t.fwOffset + v.transferringSize \in Int
    BY <1>3 DEF Phone, Chunks
  <2>2. w \in Phone
    BY <1>3, <2>1 DEF Phone
  <2>3. /\ w.state = t.state /\ w.att = t.att /\ w.mainQ = t.mainQ
        /\ w.delayed = t.delayed /\ w.nodeConnecting = t.nodeConnecting
        /\ w.link = t.link /\ w.isDeviceConnected = t.isDeviceConnected
        /\ w.fwOffset = t.fwOffset + v.transferringSize /\ w.fwCrc32 = t.fwCrc32
    BY <1>3 DEF Phone
  <2> HIDE DEF w
  <2>4. Bare(t, a)
    BY <1>3, AlikeBare
  <2>5. Bare(w, a)
    BY <2>3, <2>4 DEF Bare, Settled, Lost
  <2>6. w.fwOffset = end
    BY <1>1, <1>3, <2>3 DEF Alike
  <2> QED  BY <1>1, <1>3, <2>2, <2>3, <2>5, <2>6 DEF Alike
<1>5. otaTransferDataResponse(v, r) =
         IF r = "error" THEN AbortWith(t, "write")
         ELSE IF LastSent(w) THEN otaVerify(w) ELSE stateMachineProcess(w)
  BY DEF otaTransferDataResponse, t
<1>6. stateMachineProcess(w) = otaTransferData(w)
  <2> HIDE DEF w
  <2> QED  BY <1>4 DEF stateMachineProcess
<1>7. \/ end = k * MaxPacket /\ end < ImageSize
      \/ end = ImageSize /\ Packets(k) = ImageChunks
  BY <1>1, <1>2, PacketAnswered
<1> HIDE DEF w, k, off
<1>8. Failed(AbortWith(t, "write"))
  BY <1>3, AbortWithFails DEF Errors
<1>9. ~LastSent(w) => Loads(otaTransferData(w), d, a)
  <2>1. ~LastSent(w) => end = k * MaxPacket /\ end < ImageSize
    BY <1>4, <1>7, ImageAssumption DEF LastSent
  <2> QED  BY <1>2, <1>4, <2>1, TransferLoads
<1>10. LastSent(w) => Loads(otaVerify(w), d, a)
  <2>1. LastSent(w) => end = ImageSize /\ Packets(k) = ImageChunks
    <3>1. end < ImageSize => ~(end >= ImageSize)
      <4>1. end \in Int
        BY <1>4 DEF Phone
      <4> HIDE DEF end
      <4> QED  BY <4>1, ImageAssumption
    <3> QED  BY <1>4, <1>7, <3>1 DEF LastSent
  <2> QED  BY <1>4, <2>1, VerifyLoads
<1> QED  BY <1>5, <1>6, <1>8, <1>9, <1>10 DEF Loads

LEMMA LoadingBare ==
    ASSUME NEW v \in Phone, NEW d, NEW a, Loading(v, d, a), v.state = "dataTransfer"
    PROVE  Bare(v, a)
<1>1. /\ Settled(v) /\ Clear(v) /\ OneVerdict(v, a)
      /\ ~Some(v.att, Requests \ Ask(Commands \ {"abort"}))
      /\ v.mainQ \in Seq(Blocks) /\ v.att \in Seq(Requests)
  BY DEF Loading, Phone
<1>2. ~Some(v.att, Deciding)
  <2> DEFINE D == Deciding \ Ask({Command[v.state]})
  <2>1. Requests \cap Deciding \subseteq D
    BY DEF Deciding, Ask, Command
  <2>2. ~Some(v.att, D)
    BY <1>1 DEF OneVerdict
  <2> HIDE DEF D
  <2> QED  BY <1>1, <2>1, <2>2, SomeMore
<1>3. ~Some(a, Notices) /\ ~Some(v.mainQ, On({"value"}))
  BY <1>1 DEF OneVerdict
<1>4. ~Some(v.mainQ, Blocks \ (On({"timeout", "stop"}) \cup Lost(v)))
  <2> DEFINE R == Blocks \ (On({"timeout", "stop"}) \cup Lost(v))
  <2>1. Blocks \cap R \subseteq (Blocks \ Expected(v)) \cup On({"value"})
    <3>1. Expected(v) = On({"timeout"}) \cup (On({"value", "stop"}) \cup Lost(v))
      BY DEF Expected, Late
    <3> QED  BY <3>1 DEF On
  <2> HIDE DEF R
  <2>2. ~Some(v.mainQ, R)
    BY <1>1, <1>3, <2>1, SomeMinus DEF Clear
  <2> QED  BY <2>2 DEF R
<1> QED  BY <1>1, <1>2, <1>3, <1>4 DEF Bare

LEMMA DidWriteValueFlow ==
    ASSUME IInv, Flow(u, dev, air), DidWriteValue
    PROVE  Advances
<1> DEFINE r == Head(air).r
           y == [Answered EXCEPT !.completion = "none"]
<1>1. /\ u \in Phone /\ air # <<>> /\ u.att # <<>> /\ Head(u.att).op \in Commands
      /\ dev' = dev /\ air' = Tail(air) /\ Head(air).pdu = "reply" /\ r \in Results
  <2>1. /\ u \in Phone /\ air # <<>> /\ u.att # <<>> /\ Head(u.att).op \in Commands
        /\ dev' = dev /\ air' = Tail(air) /\ Head(air).pdu = "reply"
    BY DEF IInv, TypeOK, DidWriteValue, Replied, Arrives
  <2>2. r \in Results
    BY <2>1, AirRest DEF Pdus
  <2> QED  BY <2>1, <2>2
<1>2. Loading(u, dev, air) \/ Aborting(u)
  <2>1. Head(u.att) \in Requests
    BY <1>1, AnsweredRest
  <2>2. /\ Head(u.att) \in Requests \ Ask({"discover", "readAppInfo"})
        /\ Head(u.att) \in Requests \ Ask({"subscribe"})
    BY <1>1, <2>1 DEF Ask, Commands
  <2>3. /\ Some(u.att, Requests \ Ask({"discover", "readAppInfo"}))
        /\ Some(u.att, Requests \ Ask({"subscribe"}))
    BY <1>1, <2>2, AnsweredRest
  <2> QED  BY <1>1, <2>3 DEF Flow, Doomed, Connecting, Discovering, Subscribing
<1>3. /\ Loading(u, dev, air) => Loading(Answered, dev, Tail(air))
      /\ Aborting(u) => Aborting(Answered)
  BY <1>1, ReplyTaken
<1>4. /\ Answered \in Phone /\ Answered.completion = u.completion /\ Answered.state = u.state
  BY <1>1, AnsweredRest
<1>5. u' = Answered \/ (u.completion # "none" /\ u' = RunCompletion(y, u.completion, r))
  BY DEF DidWriteValue
<1>6. /\ y \in Phone /\ y.completion = "none"
      /\ y.state = Answered.state /\ y.att = Answered.att /\ y.mainQ = Answered.mainQ
      /\ y.delayed = Answered.delayed /\ y.nodeConnecting = Answered.nodeConnecting
      /\ y.link = Answered.link /\ y.isDeviceConnected = Answered.isDeviceConnected
      /\ y.fwOffset = Answered.fwOffset /\ y.fwCrc32 = Answered.fwCrc32
      /\ y.transferringSize = Answered.transferringSize
  <2>1. y \in Phone
    BY <1>4 DEF Phone
  <2>2. /\ y.completion = "none"
        /\ y.state = Answered.state /\ y.att = Answered.att /\ y.mainQ = Answered.mainQ
        /\ y.delayed = Answered.delayed /\ y.nodeConnecting = Answered.nodeConnecting
        /\ y.link = Answered.link /\ y.isDeviceConnected = Answered.isDeviceConnected
        /\ y.fwOffset = Answered.fwOffset /\ y.fwCrc32 = Answered.fwCrc32
        /\ y.transferringSize = Answered.transferringSize
    BY <1>4 DEF Phone
  <2> HIDE DEF y
  <2> QED  BY <2>1, <2>2
<1> HIDE DEF y, r
<1>7. /\ Settled(Answered) => Settled(y)
      /\ Clear(Answered) => Clear(y)
  BY <1>6 DEF Settled, Clear, Expected, Lost
<1>8. CASE Aborting(u)
  <2>1. Aborting(Answered) /\ u.completion \in {"none", "abort"}
    BY <1>3, <1>8 DEF Aborting
  <2>2. Aborting(y)
    BY <1>6, <1>7, <2>1 DEF Aborting
  <2>3. ASSUME u.completion = "abort", r = "error" PROVE Failed(RunCompletion(y, "abort", r))
    <3>1. RunCompletion(y, "abort", r) = otaAbortResponse(y, r)
      BY <2>3 DEF RunCompletion
    <3>2. otaAbortResponse(y, r).completeError # "none"
      BY <1>1, <1>6, AbortResponseFails DEF Fails
    <3> QED  BY <3>1, <3>2 DEF Failed
  <2>4. u.completion = "abort" /\ r # "error" => RunCompletion(y, "abort", r) = y
    BY DEF RunCompletion
  <2>5. Failed(u') \/ Aborting(u')
    BY <1>5, <2>1, <2>2, <2>3, <2>4
  <2> QED  BY <2>5 DEF Advances, Flow
<1>9. CASE Loading(u, dev, air)
  <2>1. /\ Loading(Answered, dev, Tail(air)) /\ u.completion \in {"none", Command[u.state]}
        /\ u.state \in Late
    BY <1>3, <1>9 DEF Loading
  <2>2. Loading(y, dev, Tail(air))
    <3>1. OneVerdict(y, Tail(air))
      <4>1. OneVerdict(Answered, Tail(air))
        BY <2>1 DEF Loading
      <4> QED  BY <1>6, <4>1 DEF OneVerdict
    <3>2. y.state = "verify" => Verified(y, dev, Tail(air))
      <4>1. Answered.state = "verify" => Verified(Answered, dev, Tail(air))
        BY <2>1 DEF Loading
      <4> QED  BY <1>6, <4>1 DEF Verified
    <3>3. Loaded(y)
      BY <1>6, <2>1 DEF Loading, Loaded
    <3> QED  BY <1>6, <1>7, <2>1, <3>1, <3>2, <3>3 DEF Loading
  <2>3. ASSUME u.completion # "none", u' = RunCompletion(y, u.completion, r)
        PROVE  Loads(u', dev, Tail(air))
    <3> DEFINE op == u.completion
    <3>0. op = Command[u.state]
      BY <2>1, <2>3
    <3>1. CASE u.state = "dataTransfer"
      <4>1. op = "data"
        BY <3>0, <3>1 DEF Command
      <4>2. u' = otaTransferDataResponse(y, r)
        BY <2>3, <4>1 DEF RunCompletion
      <4>3. y.state = "dataTransfer" /\ Loaded(y)
        BY <1>4, <1>6, <2>2, <3>1 DEF Loading
      <4>4. Bare(y, Tail(air))
        BY <1>6, <2>2, <4>3, LoadingBare
      <4> QED  BY <1>1, <1>6, <4>2, <4>3, <4>4, PacketFollows
    <3>2. CASE u.state # "dataTransfer"
      <4>1. op \in {"prepare", "start", "verify"}
        BY <2>1, <3>0, <3>2 DEF Command, Late
      <4>2. CASE r # "error"
        <5>1. u' = y
          BY <2>3, <4>1, <4>2 DEF RunCompletion
        <5> QED  BY <2>2, <5>1 DEF Loads
      <4>3. CASE r = "error"
        <5>1. u' \in {otaPrepareForDownloadResponse(y, r), otaStartDownloadResponse(y, r),
                      otaVerifyResponse(y, r)}
          BY <2>3, <4>1, <4>3 DEF RunCompletion
        <5> QED  BY <1>6, <4>3, <5>1, ResponsesFail DEF Loads
      <4> QED  BY <4>2, <4>3
    <3> QED  BY <3>1, <3>2
  <2>4. Loads(u', dev, Tail(air))
    BY <1>5, <2>1, <2>3 DEF Loads
  <2> QED  BY <1>1, <2>4 DEF Advances, Flow, Loads
<1> QED  BY <1>2, <1>8, <1>9

-----------------------------------------------------------------------------
(* Success                                                                 *)

LEMMA GoingAdvances ==
    ASSUME IInv, LiveInv, hist.clean, Going(u), Flow(u, dev, air),
           Stop \/ MeshLibrary \/ CoreBluetooth \/ RunLoop
    PROVE  Advances
<1>1. u.dfuLib = "idle"
  BY DEF LiveInv, Live, Alive, Going
<1>2. ~LibraryStartsUpload /\ ~LibraryReports
  BY <1>1 DEF LibraryStartsUpload, LibraryReports
<1>3. CASE Stop
  BY <1>3, StopFlow
<1>4. CASE MeshLibrary
  BY <1>2, <1>4, NodeConnectStateFlow DEF MeshLibrary
<1>5. CASE CoreBluetooth
  BY <1>5, ConnectionFlow, DidDisconnectFlow, DeviceFlow, DidDiscoverFlow,
     DidUpdateNotificationFlow, DidUpdateValueFlow, DidWriteValueFlow DEF CoreBluetooth
<1>6. CASE RunLoop
  BY <1>6, RunQueueFlow, RunDelayedFlow, TimerExpiresFlow DEF RunLoop
<1> QED  BY <1>3, <1>4, <1>5, <1>6

\* Only a start that is run begins an upgrade.
LEMMA CalmOrBegins ==
    ASSUME IInv, LiveInv, Stop \/ MeshLibrary \/ CoreBluetooth \/ RunLoop
    PROVE  /\ hist'.clean = hist.clean
           /\ hist.clean => \/ Keeps(u, u')
                            \/ LibraryStartsUpload \/ LibraryReports
                            \/ RunMainQueue /\ Head(u.mainQ).ev = "start"
<1>1. CASE Stop
  BY <1>1, StopCalm DEF Calm
<1>2. CASE MeshLibrary
  BY <1>2, NodeConnectStateCalm DEF Calm, MeshLibrary, LibraryStartsUpload, LibraryReports
<1>3. CASE CoreBluetooth
  BY <1>3, DidConnectCalm, DidFailCalm, DidDisconnectCalm, DeviceCalm, DidDiscoverCalm,
     DidUpdateNotificationCalm, DidWriteValueCalm, DidUpdateValueCalm DEF CoreBluetooth, Calm
<1>4. CASE RunLoop
  BY <1>4, RunBlockLive, RunDelayedCalm, TimerExpiresCalm DEF RunLoop, Calm
<1> QED  BY <1>1, <1>2, <1>3, <1>4

LEMMA InitFlow == Init => FlowInv
BY DEF Init, FlowInv, Going

LEMMA LibraryGoing ==
    ASSUME u \in Phone, LibraryStartsUpload \/ LibraryReports
    PROVE  Going(u') => Going(u)
<1> DEFINE x == [u EXCEPT !.hasConnected = TRUE, !.characteristics = TRUE,
                          !.dfuLib = "uploading", !.meshDfuState = "UPLOAD"]
           y == [u EXCEPT !.meshDfuState = IF u.dfuLib = "uploaded" THEN "COMPLETE" ELSE "FAILED",
                          !.dfuLib = "idle"]
<1>1. u' \in {x, Post(x, "upload", "success"), y}
  BY DEF LibraryStartsUpload, LibraryReports, PostIf
<1>2. /\ x.isOtaUpgradeRunning = u.isOtaUpgradeRunning /\ x.completeError = u.completeError
      /\ y.isOtaUpgradeRunning = u.isOtaUpgradeRunning /\ y.completeError = u.completeError
      /\ x \in Phone
  BY DEF Phone
<1> HIDE DEF x, y
<1>3. /\ Post(x, "upload", "success").isOtaUpgradeRunning = x.isOtaUpgradeRunning
      /\ Post(x, "upload", "success").completeError = x.completeError
  BY <1>2 DEF Post, Phone
<1> QED  BY <1>1, <1>2, <1>3 DEF Going

LEMMA StepFlow == IInv /\ LiveInv /\ FlowInv /\ [Next]_vars => FlowInv'
<1> SUFFICES ASSUME IInv, LiveInv, FlowInv, [Next]_vars, hist'.clean, Going(u')
             PROVE  Flow(u, dev, air)'
  BY DEF FlowInv
<1>1. CASE OpenPage
  BY <1>1, OpenPageStep DEF Going
<1>2. CASE \E t \in DfuTypes, new \in BOOLEAN : Start(t, new)
  <2>1. PICK t \in DfuTypes, new \in BOOLEAN : Start(t, new)
    BY <1>2
  <2> QED  BY <2>1, StartStep DEF Going
<1>3. CASE UNCHANGED vars
  <2>1. u' = u /\ dev' = dev /\ air' = air /\ hist' = hist
    BY <1>3 DEF vars
  <2>2. Flow(u, dev, air)
    BY <2>1 DEF FlowInv, Going
  <2> QED  BY <2>1, <2>2
<1>4. CASE Stop \/ MeshLibrary \/ CoreBluetooth \/ RunLoop
  <2>1. hist.clean
    BY <1>4, CalmOrBegins
  <2>2. Advances => Flow(u, dev, air)'
    BY DEF Advances, Going, Failed
  <2>3. CASE Going(u)
    BY <1>4, <2>1, <2>2, <2>3, GoingAdvances DEF FlowInv
  <2>4. CASE ~Going(u)
    <3>1. ~Keeps(u, u')
      BY <2>4 DEF Keeps, Going
    <3>2. ~(LibraryStartsUpload \/ LibraryReports)
      BY <2>4, LibraryGoing DEF IInv, TypeOK
    <3>3. RunMainQueue /\ Head(u.mainQ).ev = "start"
      BY <1>4, <2>1, <3>1, <3>2, CalmOrBegins
    <3>4. ~u.isOtaUpgradeRunning
      <4>1. u \in Phone /\ u.mainQ # <<>>
        BY <3>3 DEF IInv, TypeOK, RunMainQueue
      <4>2. Head(u.mainQ) \in On({"start"})
        BY <3>3, <4>1, TakenKeeps DEF On
      <4>3. Some(u.mainQ, On({"start"}))
        BY <4>1, <4>2, TakenRest
      <4>4. On({"start"}) \subseteq On({"start", "upload"})
        BY DEF On
      <4>5. Some(u.mainQ, On({"start", "upload"}))
        BY <4>3, <4>4 DEF Some
      <4> QED  BY <2>1, <4>5 DEF LiveInv, Live, Alive
    <3> QED  BY <2>1, <2>2, <3>3, <3>4, BeginFlow
  <2> QED  BY <2>3, <2>4
<1> QED  BY <1>1, <1>2, <1>3, <1>4 DEF Next, User

LEMMA SuccessSucceeds ==
    ASSUME IInv, Next, Reported("success")
    PROVE  Succeeds(u, u') /\ (Stop \/ MeshLibrary \/ CoreBluetooth \/ RunLoop)
<1>1. u.posted \in Seq({"success", "failure"})
  BY DEF IInv, TypeOK, Phone
<1>2. u'.posted # u.posted
  BY DEF Reported
<1>3. \A p \in Seq({"success", "failure"}) :
         LET q == Append(p, "failure") IN q \in Seq({"success", "failure"}) /\ q[Len(q)] = "failure"
  OBVIOUS
<1>4. ~(Fails(u, u') \/ FailsTwice(u, u'))
  <2>1. u'.posted # Append(u.posted, "failure")
    BY <1>1, <1>3 DEF Reported
  <2>2. u'.posted # Append(Append(u.posted, "failure"), "failure")
    BY <1>1, <1>3 DEF Reported
  <2> QED  BY <2>1, <2>2 DEF Fails, FailsTwice
<1>5. ~OpenPage
  BY <1>2, OpenPageStep
<1>6. ~\E t \in DfuTypes, new \in BOOLEAN : Start(t, new)
  <2> SUFFICES ASSUME NEW t \in DfuTypes, NEW new \in BOOLEAN, Start(t, new) PROVE FALSE
    OBVIOUS
  <2>1. u'.posted = <<>>
    BY StartStep
  <2>2. Len(u'.posted) = 0 /\ Len(u.posted) \in Nat
    BY <1>1, <2>1, LenProperties
  <2> QED  BY <2>2 DEF Reported
<1>7. Steps
  BY <1>5, <1>6, EveryStep
<1>8. Succeeds(u, u')
  BY <1>2, <1>4, <1>7 DEF Steps, Runs, Same, Moves, Goes
<1> QED  BY <1>5, <1>6, <1>8 DEF Next, User

LEMMA StepSuccess == IInv /\ LiveInv /\ FlowInv /\ [Next]_vars => [SuccessHasImage]_vars
<1> SUFFICES ASSUME IInv, LiveInv, FlowInv, Next, Reported("success"), hist.clean
             PROVE  HasImage
  BY DEF SuccessHasImage, HasImage
<1>1. Succeeds(u, u') /\ (Stop \/ MeshLibrary \/ CoreBluetooth \/ RunLoop)
  BY SuccessSucceeds
<1>2. u.isOtaUpgradeRunning /\ u'.completeError = "none" /\ u'.state = "complete"
  BY <1>1 DEF Succeeds
<1>3. Alive(u)
  BY <1>2 DEF LiveInv, Live
<1>4. Keeps(u, u')
  <2>1. ~(LibraryStartsUpload \/ LibraryReports)
    BY <1>3 DEF Alive, LibraryStartsUpload, LibraryReports
  <2>2. ~(RunMainQueue /\ Head(u.mainQ).ev = "start")
    <3> SUFFICES ASSUME RunMainQueue, Head(u.mainQ).ev = "start" PROVE FALSE
      OBVIOUS
    <3>1. u \in Phone /\ u.mainQ # <<>>
      BY DEF IInv, TypeOK, RunMainQueue
    <3>2. Head(u.mainQ) \in On({"start", "upload"})
      BY <3>1, TakenKeeps DEF On
    <3>3. Some(u.mainQ, On({"start", "upload"}))
      BY <3>1, <3>2, TakenRest
    <3> QED  BY <1>3, <3>3 DEF Alive
  <2> QED  BY <1>1, <2>1, <2>2, CalmOrBegins
<1>5. Going(u)
  BY <1>2, <1>4 DEF Keeps, Going
<1>6. Advances
  BY <1>1, <1>5, GoingAdvances DEF FlowInv
<1>7. ~Flow(u, dev, air)'
  BY <1>2 DEF Flow, Doomed, Connecting, Discovering, Subscribing, Loading, Aborting, Early, Late
<1> QED  BY <1>2, <1>6, <1>7 DEF Advances, Failed

\* An upgrade that was begun with nothing of an earlier one under way notifies
\* success only when the device has verified the whole image, or when the link
\* was lost after the last packet was acknowledged: of the responses, status
\* notices and blocks that wait, none is taken for the verdict on another
\* command, in whatever order they arrive.
THEOREM SuccessIsTheImage == Spec => SuccessImpliesImage
BY InitIInv, StepIInv, InitLive, StepLive, InitFlow, StepFlow, StepSuccess,
   PTL DEF Spec, SuccessImpliesImage
=============================================================================
