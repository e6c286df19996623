------------------------- MODULE MeshScannerProofs -------------------------
(***************************************************************************)
(* What holds of the scan of the Windows client whatever is heard, in any  *)
(* number of scans.                                                        *)
(***************************************************************************)
EXTENDS MeshScanner, SequenceTheorems, TLAPS

-----------------------------------------------------------------------------
(* The advertisements of a sequence of reports                             *)

LEMMA Regroup ==
    /\ \A s, t, v \in Seq(Reports) : (s \o t) \o v = s \o (t \o v)
    /\ \A s, t, v \in Seq(Adverts) : (s \o t) \o v = s \o (t \o v)
  BY ConcatAssociative

AdvertsOf(s) == [i \in 1 .. Len(s) |-> Advertised(s[i])]

LEMMA AdvertsOfType ==
    ASSUME NEW s \in Seq(Reports)
    PROVE  AdvertsOf(s) \in Seq(Adverts) /\ Len(AdvertsOf(s)) = Len(s)
<1>1. \A r \in Reports : r.of \in Adverts
  BY DEF Reports
<1>2. \A i \in 1 .. Len(s) : s[i] \in Reports
  BY ElementOfSeq
<1>3. \A i \in 1 .. Len(s) : Advertised(s[i]) \in Adverts
  BY <1>1, <1>2 DEF Advertised
<1> QED
  BY <1>3, LenProperties DEF AdvertsOf

LEMMA AdvertsOfConcat ==
    ASSUME NEW s \in Seq(Reports), NEW t \in Seq(Reports)
    PROVE  AdvertsOf(s \o t) = AdvertsOf(s) \o AdvertsOf(t)
<1>1. s \o t \in Seq(Reports) /\ Len(s \o t) = Len(s) + Len(t)
  BY ConcatProperties
<1>2. /\ AdvertsOf(s) \in Seq(Adverts) /\ AdvertsOf(t) \in Seq(Adverts)
      /\ AdvertsOf(s \o t) \in Seq(Adverts)
      /\ Len(AdvertsOf(s)) = Len(s) /\ Len(AdvertsOf(t)) = Len(t)
      /\ Len(AdvertsOf(s \o t)) = Len(s) + Len(t)
  BY <1>1, AdvertsOfType
<1>3. ASSUME NEW i \in 1 .. Len(s) + Len(t)
      PROVE  AdvertsOf(s \o t)[i] = (AdvertsOf(s) \o AdvertsOf(t))[i]
  BY <1>1, <1>2 DEF AdvertsOf
<1>4. /\ AdvertsOf(s) \o AdvertsOf(t) \in Seq(Adverts)
      /\ Len(AdvertsOf(s) \o AdvertsOf(t)) = Len(s) + Len(t)
  BY <1>2, ConcatProperties
<1> QED
  BY <1>2, <1>3, <1>4, SeqEqual

LEMMA AdvertsOfOne ==
    ASSUME NEW a \in Adverts, NEW d \in Devices \cup {Nobody}
    PROVE  /\ <<Report(a, d)>> \in Seq(Reports)
           /\ AdvertsOf(<<Report(a, d)>>) = <<a>>
<1>1. Report(a, d) \in Reports /\ Advertised(Report(a, d)) = a
  BY DEF Report, Reports, Advertised
<1> QED
  BY <1>1 DEF AdvertsOf

-----------------------------------------------------------------------------
(* Types                                                                   *)

\* what the buffer holds and what becomes of it
LEMMA RawCases ==
    ASSUME TypeOK
    PROVE  raw = <<>> \/ \E a \in Adverts : raw = <<a>>
<1>1. raw \in Seq(Adverts) /\ Len(raw) =< 1
  BY DEF TypeOK
<1>2. Len(raw) \in Nat
  BY <1>1, LenProperties
<1>3. CASE Len(raw) = 0
  BY <1>1, <1>3, EmptySeq
<1>4. CASE Len(raw) = 1
  <2>1. raw[1] \in Adverts /\ raw = <<raw[1]>>
    BY <1>1, <1>4
  <2> QED
    BY <2>1
<1> QED
  BY <1>1, <1>2, <1>3, <1>4

LEMMA FlushedProperties ==
    ASSUME TypeOK
    PROVE  Flushed \in Seq(Reports) /\ AdvertsOf(Flushed) = raw
<1>1. CASE raw = <<>>
  BY <1>1 DEF Flushed, AdvertsOf
<1>2. ASSUME NEW a \in Adverts, raw = <<a>> PROVE Flushed \in Seq(Reports) /\ AdvertsOf(Flushed) = raw
  BY <1>2, AdvertsOfOne DEF Flushed
<1> QED
  BY <1>1, <1>2, RawCases

LEMMA PacketType ==
    ASSUME TypeOK, NEW d \in Devices, NEW k \in {"advert", "response"},
           Hears(Packet(d, k))
    PROVE  /\ Packet(d, k) \in Adverts
           /\ last' = <<Packet(d, k)>>
           /\ last' \in Seq(Adverts)
           /\ count' \in [packets : 0 .. MaxPackets, scans : 0 .. MaxScans]
<1> DEFINE n == count.packets + 1
<1>1. n \in 1 .. MaxPackets /\ n \in 0 .. MaxPackets
  BY ScannerAssumption DEF TypeOK, Hears
<1>2. count' = [count EXCEPT !.packets = n] /\ last' = <<Packet(d, k)>>
  BY DEF Hears
<1>3. Packet(d, k) \in Adverts
  BY <1>1 DEF Packet, Adverts
<1> HIDE DEF n
<1>4. count' \in [packets : 0 .. MaxPackets, scans : 0 .. MaxScans]
  BY <1>1, <1>2 DEF TypeOK
<1> QED
  BY <1>2, <1>3, <1>4

-----------------------------------------------------------------------------
(* The invariant                                                           *)

\* Every advertisement recognised is accounted for, and the buffer holds the
\* last packet.
Accounted == AdvertsOf(reports \o posted) \o raw = heard

IInv == TypeOK /\ Accounted /\ NothingInBetween

LEMMA InitIInv == Init => IInv
<1> SUFFICES ASSUME Init PROVE IInv
  OBVIOUS
<1>1. TypeOK
  <2>1. /\ <<>> \in Seq(Adverts) /\ <<>> \in Seq(Reports) /\ Len(<<>>) = 0
    OBVIOUS
  <2>2. count \in [packets : 0 .. MaxPackets, scans : 0 .. MaxScans]
    BY ScannerAssumption DEF Init
  <2>3. /\ app \in [started : BOOLEAN, active : BOOLEAN]
        /\ scanner \in [stop : BOOLEAN, active : BOOLEAN] /\ watcher \in BOOLEAN
    BY DEF Init
  <2>4. /\ raw = <<>> /\ posted = <<>> /\ reports = <<>> /\ heard = <<>> /\ last = <<>>
    BY DEF Init
  <2> QED
    BY <2>1, <2>2, <2>3, <2>4 DEF TypeOK
<1>2. Accounted
  BY DEF Init, Accounted, AdvertsOf
<1>3. NothingInBetween
  BY DEF Init, NothingInBetween
<1> QED
  BY <1>1, <1>2, <1>3 DEF IInv

\* The step of a packet that posts "sent" and leaves "kept" in the buffer.
LEMMA Posts ==
    ASSUME IInv, NEW sent \in Seq(Reports), NEW new \in Seq(Adverts),
           posted' = posted \o sent, reports' = reports,
           raw' \in Seq(Adverts),
           heard' = heard \o new,
           AdvertsOf(sent) \o raw' = raw \o new
    PROVE  /\ posted' \in Seq(Reports) /\ heard' \in Seq(Adverts)
           /\ Accounted'
<1>1. /\ posted \in Seq(Reports) /\ reports \in Seq(Reports)
      /\ raw \in Seq(Adverts) /\ heard \in Seq(Adverts)
  BY DEF IInv, TypeOK
<1>2. posted' \in Seq(Reports) /\ heard' \in Seq(Adverts)
  BY <1>1, ConcatProperties
<1> DEFINE old == reports \o posted
<1>3. old \in Seq(Reports) /\ reports' \o posted' = old \o sent
  <2>1. (reports \o posted) \o sent = reports \o (posted \o sent)
    BY <1>1, Regroup
  <2> QED
    BY <1>1, <2>1, ConcatProperties
<1>4. AdvertsOf(reports' \o posted') = AdvertsOf(old) \o AdvertsOf(sent)
  BY <1>3, AdvertsOfConcat
<1>5. AdvertsOf(old) \in Seq(Adverts) /\ AdvertsOf(sent) \in Seq(Adverts)
  BY <1>3, AdvertsOfType
<1>6. AdvertsOf(reports' \o posted') \o raw' = AdvertsOf(old) \o (AdvertsOf(sent) \o raw')
  <2> DEFINE a == AdvertsOf(old)
             b == AdvertsOf(sent)
  <2>1. a \in Seq(Adverts) /\ b \in Seq(Adverts)
    BY <1>5
  <2> HIDE DEF a, b
  <2>2. (a \o b) \o raw' = a \o (b \o raw')
    BY <2>1, Regroup
  <2> QED
    BY <1>4, <2>2 DEF a, b
<1>7. AdvertsOf(old) \o (raw \o new) = (AdvertsOf(old) \o raw) \o new
  <2> DEFINE a == AdvertsOf(old)
  <2>1. a \in Seq(Adverts)
    BY <1>5
  <2> HIDE DEF a
  <2>2. (a \o raw) \o new = a \o (raw \o new)
    BY <1>1, <2>1, Regroup
  <2> QED
    BY <2>2 DEF a
<1>8. AdvertsOf(old) \o raw = heard
  BY DEF IInv, Accounted
<1> QED
  BY <1>2, <1>6, <1>7, <1>8 DEF Accounted, AdvertsOf

LEMMA DroppedAdvertIInv ==
    ASSUME IInv, NEW d \in Devices, DroppedAdvert(d) PROVE IInv'
<1>1. TypeOK /\ raw \in Seq(Adverts) /\ heard \in Seq(Adverts)
  BY DEF IInv, TypeOK
<1>2. Flushed \in Seq(Reports) /\ AdvertsOf(Flushed) = raw
  BY <1>1, FlushedProperties
<1>3. /\ posted' = posted \o Flushed /\ raw' = <<>> /\ heard' = heard \o <<>>
      /\ reports' = reports /\ <<>> \in Seq(Adverts)
  BY <1>1 DEF DroppedAdvert
<1>4. AdvertsOf(Flushed) \o raw' = raw \o <<>>
  BY <1>2, <1>3
<1>5. /\ posted' \in Seq(Reports) /\ heard' \in Seq(Adverts)
      /\ Accounted'
  BY <1>2, <1>3, <1>4, Posts
<1>6. Hears(Packet(d, "advert")) /\ UNCHANGED <<app, scanner, watcher, reports>>
  BY DEF DroppedAdvert
<1>7. TypeOK'
  BY <1>1, <1>3, <1>5, <1>6, PacketType DEF TypeOK
<1>8. NothingInBetween'
  BY <1>3 DEF NothingInBetween
<1> QED
  BY <1>5, <1>7, <1>8 DEF IInv

LEMMA KeptAdvertIInv ==
    ASSUME IInv, NEW d \in Devices, NEW read, KeptAdvert(d, read) PROVE IInv'
<1> DEFINE p == Packet(d, "advert")
<1>1. TypeOK /\ raw \in Seq(Adverts) /\ heard \in Seq(Adverts)
  BY DEF IInv, TypeOK
<1>2. Flushed \in Seq(Reports) /\ AdvertsOf(Flushed) = raw
  BY <1>1, FlushedProperties
<1>3. Hears(p) /\ UNCHANGED <<app, scanner, watcher, reports>>
  BY DEF KeptAdvert
<1>4. p \in Adverts /\ last' = <<p>> /\ last' \in Seq(Adverts)
      /\ count' \in [packets : 0 .. MaxPackets, scans : 0 .. MaxScans]
  BY <1>1, <1>3, PacketType
<1>5. /\ posted' = posted \o Flushed /\ raw' = <<p>> /\ heard' = heard \o <<p>>
      /\ reports' = reports /\ <<p>> \in Seq(Adverts)
  BY <1>1, <1>4, AppendIsConcat DEF KeptAdvert
<1>6. AdvertsOf(Flushed) \o raw' = raw \o <<p>>
  BY <1>2, <1>5
<1>7. /\ posted' \in Seq(Reports) /\ heard' \in Seq(Adverts)
      /\ Accounted'
  BY <1>2, <1>5, <1>6, Posts
<1>8. TypeOK'
  BY <1>1, <1>3, <1>4, <1>5, <1>7 DEF TypeOK
<1>9. NothingInBetween'
  BY <1>4, <1>5 DEF NothingInBetween
<1> QED
  BY <1>7, <1>8, <1>9 DEF IInv

LEMMA ShippedAdvertIInv ==
    ASSUME IInv, NEW d \in Devices, NEW read, ShippedAdvert(d, read) PROVE IInv'
<1> DEFINE p == Packet(d, "advert")
           sent == Flushed \o <<Report(p, Nobody)>>
<1>1. /\ TypeOK /\ raw \in Seq(Adverts) /\ heard \in Seq(Adverts)
      /\ posted \in Seq(Reports)
  BY DEF IInv, TypeOK
<1>2. Flushed \in Seq(Reports) /\ AdvertsOf(Flushed) = raw
  BY <1>1, FlushedProperties
<1>3. Hears(p) /\ UNCHANGED <<app, scanner, watcher, reports>>
  BY DEF ShippedAdvert
<1>4. p \in Adverts /\ last' = <<p>> /\ last' \in Seq(Adverts)
      /\ count' \in [packets : 0 .. MaxPackets, scans : 0 .. MaxScans]
  BY <1>1, <1>3, PacketType
<1>5. <<Report(p, Nobody)>> \in Seq(Reports) /\ AdvertsOf(<<Report(p, Nobody)>>) = <<p>>
  BY <1>4, AdvertsOfOne
<1>6. sent \in Seq(Reports) /\ AdvertsOf(sent) = raw \o <<p>>
  BY <1>2, <1>5, AdvertsOfConcat, ConcatProperties
<1>7. posted' = posted \o sent
  BY <1>1, <1>2, <1>5 DEF ShippedAdvert
<1>8. /\ raw' = <<>> /\ heard' = heard \o <<p>> /\ reports' = reports
      /\ <<p>> \in Seq(Adverts) /\ <<>> \in Seq(Adverts)
  BY <1>1, <1>4 DEF ShippedAdvert
<1>9. AdvertsOf(sent) \o raw' = raw \o <<p>>
  <2>1. raw \o <<p>> \in Seq(Adverts)
    BY <1>1, <1>8, ConcatProperties
  <2> QED
    BY <1>6, <1>8, <2>1, ConcatEmptySeq
<1>10. /\ posted' \in Seq(Reports) /\ heard' \in Seq(Adverts)
       /\ Accounted'
  <2> HIDE DEF sent
  <2> QED
    BY <1>6, <1>7, <1>8, <1>9, Posts
<1>11. TypeOK'
  BY <1>1, <1>3, <1>4, <1>8, <1>10 DEF TypeOK
<1>12. NothingInBetween'
  BY <1>8 DEF NothingInBetween
<1> QED
  BY <1>10, <1>11, <1>12 DEF IInv

LEMMA ScanResponseIInv ==
    ASSUME IInv, NEW d \in Devices, ScanResponse(d) PROVE IInv'
<1> DEFINE sent == IF raw = <<>> THEN <<>> ELSE <<Report(raw[1], d)>>
<1>1. /\ TypeOK /\ raw \in Seq(Adverts) /\ heard \in Seq(Adverts)
      /\ posted \in Seq(Reports)
  BY DEF IInv, TypeOK
<1>2. sent \in Seq(Reports) /\ AdvertsOf(sent) = raw /\ posted' = posted \o sent
  <2>1. CASE raw = <<>>
    BY <1>1, <2>1 DEF ScanResponse, AdvertsOf
  <2>2. ASSUME NEW a \in Adverts, raw = <<a>>
        PROVE  sent \in Seq(Reports) /\ AdvertsOf(sent) = raw /\ posted' = posted \o sent
    <3>1. sent = <<Report(a, d)>> /\ posted' = Append(posted, Report(a, d))
      BY <2>2 DEF ScanResponse
    <3>2. /\ <<Report(a, d)>> \in Seq(Reports) /\ AdvertsOf(<<Report(a, d)>>) = <<a>>
      BY AdvertsOfOne
    <3> QED
      BY <1>1, <2>2, <3>1, <3>2
  <2> QED
    BY <1>1, <2>1, <2>2, RawCases
<1>3. Hears(Packet(d, "response")) /\ UNCHANGED <<app, scanner, watcher, reports>>
  BY DEF ScanResponse
<1>4. /\ raw' = <<>> /\ heard' = heard \o <<>> /\ reports' = reports
      /\ <<>> \in Seq(Adverts)
  BY <1>1 DEF ScanResponse, Emptied
<1>5. AdvertsOf(sent) \o raw' = raw \o <<>>
  BY <1>2, <1>4
<1>6. /\ posted' \in Seq(Reports) /\ heard' \in Seq(Adverts)
      /\ Accounted'
  <2> HIDE DEF sent
  <2> QED
    BY <1>2, <1>4, <1>5, Posts
<1>7. TypeOK'
  BY <1>1, <1>3, <1>4, <1>6, PacketType DEF TypeOK
<1>8. NothingInBetween'
  BY <1>4 DEF NothingInBetween
<1> QED
  BY <1>6, <1>7, <1>8 DEF IInv

LEMMA AdvReportIInv ==
    ASSUME IInv, OnMeshDeviceAdvReport PROVE IInv'
<1>1. posted \in Seq(Reports) /\ reports \in Seq(Reports) /\ posted # <<>>
  BY DEF IInv, TypeOK, OnMeshDeviceAdvReport
<1>2. posted' = Tail(posted) /\ reports' = Append(reports, Head(posted))
  BY DEF OnMeshDeviceAdvReport
<1>3. /\ Head(posted) \in Reports /\ Tail(posted) \in Seq(Reports)
      /\ posted = <<Head(posted)>> \o Tail(posted)
  BY <1>1
<1>4. posted' \in Seq(Reports) /\ reports' \in Seq(Reports)
  BY <1>1, <1>2, <1>3
<1>5. reports' \o posted' = reports \o posted
  <2> DEFINE h == Head(posted)
             t == Tail(posted)
  <2>1. Append(reports, h) = reports \o <<h>>
    BY <1>1, <1>3
  <2>2. (reports \o <<h>>) \o t = reports \o (<<h>> \o t)
    BY <1>1, <1>3
  <2> QED
    BY <1>2, <1>3, <2>1, <2>2
<1>6. UNCHANGED <<app, scanner, watcher, raw, heard, last, count>>
  BY DEF OnMeshDeviceAdvReport
<1>7. TypeOK'
  BY <1>4, <1>6 DEF IInv, TypeOK
<1>8. Accounted'
  BY <1>5, <1>6 DEF IInv, Accounted, AdvertsOf
<1>9. NothingInBetween'
  BY <1>6 DEF IInv, NothingInBetween
<1> QED
  BY <1>7, <1>8, <1>9 DEF IInv

LEMMA ScanCallbackIInv ==
    ASSUME IInv, ScanCallback PROVE IInv'
<1>1. UNCHANGED <<raw, posted, reports, heard, last>>
  BY DEF ScanCallback
<1>2. PICK start \in BOOLEAN, active \in BOOLEAN :
         StopScan(start, active) \/ StartScan(start, active)
  BY DEF ScanCallback
<1>3. TypeOK'
  <2>1. CASE StopScan(start, active)
    BY <1>1, <2>1 DEF IInv, TypeOK, StopScan, Stopped
  <2>2. CASE StartScan(start, active)
    <3>1. count' \in [packets : 0 .. MaxPackets, scans : 0 .. MaxScans]
      <4> DEFINE n == count.scans + 1
      <4>1. count \in [packets : 0 .. MaxPackets, scans : 0 .. MaxScans]
        BY DEF IInv, TypeOK
      <4>2. n \in 0 .. MaxScans /\ count' = [count EXCEPT !.scans = n]
        BY <2>2, <4>1, ScannerAssumption DEF StartScan
      <4> HIDE DEF n
      <4> QED
        BY <4>1, <4>2
    <3>2. /\ app' \in [started : BOOLEAN, active : BOOLEAN]
          /\ scanner' \in [stop : BOOLEAN, active : BOOLEAN] /\ watcher' \in BOOLEAN
      BY <2>2 DEF StartScan
    <3> QED
      BY <1>1, <3>1, <3>2 DEF IInv, TypeOK
  <2> QED
    BY <1>2, <2>1, <2>2
<1>4. Accounted' /\ NothingInBetween'
  BY <1>1 DEF IInv, Accounted, NothingInBetween, AdvertsOf
<1> QED
  BY <1>3, <1>4 DEF IInv

LEMMA NextIInv == IInv /\ [Next]_vars => IInv'
<1> SUFFICES ASSUME IInv, [Next]_vars PROVE IInv'
  OBVIOUS
<1>1. CASE ScanCallback
  BY <1>1, ScanCallbackIInv
<1>2. CASE OnAdvertisementReceived
  BY <1>2, DroppedAdvertIInv, KeptAdvertIInv, ShippedAdvertIInv, ScanResponseIInv
     DEF OnAdvertisementReceived
<1>3. CASE OnMeshDeviceAdvReport
  BY <1>3, AdvReportIInv
<1>4. CASE UNCHANGED vars
  BY <1>4 DEF vars, IInv, TypeOK, Accounted, NothingInBetween, AdvertsOf
<1> QED
  BY <1>1, <1>2, <1>3, <1>4 DEF Next

-----------------------------------------------------------------------------
(* The theorems                                                            *)

LEMMA IInvCorrect == Spec => []IInv
  BY InitIInv, NextIInv, PTL DEF Spec

\* The state of the scan keeps its type.
THEOREM TypeCorrect == Spec => []TypeOK
<1>1. IInv => TypeOK
  BY DEF IInv
<1> QED
  BY <1>1, IInvCorrect, PTL

\* Whatever is heard, and however scans start, stop and change their kind:
\* each advertisement the scanner recognises as a mesh device's reaches the
\* library once and in order, or waits in the buffer.
THEOREM ReportsCorrect == Spec => []EachReportedOnce
<1>1. IInv => EachReportedOnce
  BY DEF IInv, Accounted, AdvertsOf, EachReportedOnce
<1> QED
  BY <1>1, IInvCorrect, PTL

\* An advertisement that waits for a scan response is completed by the packet
\* that follows it, of those that are not ignored, or by none.
THEOREM BufferCorrect == Spec => []NothingInBetween
<1>1. IInv => NothingInBetween
  BY DEF IInv
<1> QED
  BY <1>1, IInvCorrect, PTL
=============================================================================
