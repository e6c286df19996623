---------------------------- MODULE MeshScanner -----------------------------
(***************************************************************************)
(* The scan of the Windows client: the scan callback of mesh_app.c, the    *)
(* watcher of MeshScanner.cpp and the reports it posts to the dialog.      *)
(*                                                                         *)
(* In an active scan Windows delivers an advertisement and the device's    *)
(* answer to the scan request as two packets, which the library wants as   *)
(* one.  The scanner keeps the first in a static buffer, without a look at *)
(* the address of what comes next.  The packets come one after another on  *)
(* a thread of Windows; the library starts and stops scans on the thread   *)
(* of the dialog, in between.                                              *)
(***************************************************************************)
EXTENDS Integers, Sequences

CONSTANTS
    Devices,       \* what can be heard
    Services,      \* the services the advertisement of each device lists, in order
    Nobody,        \* no device
    MaxPackets,    \* bound on the packets heard
    MaxScans       \* bound on the scans started

ASSUME ScannerAssumption ==
    Nobody \notin Devices /\ MaxPackets \in Nat /\ MaxScans \in Nat
ASSUME ServicesAssumption ==
    Services \in [Devices -> Seq({"prov", "proxy", "sig", "vendor"})]

VARIABLES
    app,       \* the statics of the scan callback: started, active
    scanner,   \* m_bStop, m_bActiveScan
    watcher,   \* is the watcher of Windows running
    raw,       \* raw_advert and bda: nothing, or an advertisement
    posted,    \* the reports posted to the dialog
    reports,   \* history: those the dialog has passed to the library
    heard,     \* history: the advertisements that were recognised, in order
    last,      \* history: the last packet that was not ignored
    count      \* history: packets heard, scans started

vars == <<app, scanner, watcher, raw, posted, reports, heard, last, count>>

Adverts == [n : 1 .. MaxPackets, dev : Devices, kind : {"advert", "response"}]
Reports == [of : Adverts, name : Devices \cup {Nobody}]

Report(advert, name) == [of |-> advert, name |-> name]
-----------------------------------------------------------------------------
(* Starting and stopping                                                   *)

\* mesh_adv_scan_stop by way of wiced_bt_ble_observe
Stopped == scanner' = [scanner EXCEPT !.stop = TRUE] /\ watcher' = FALSE

\* the same request again, or a stop of what is not started
Repeats(start, active) ==
    IF app.started THEN start /\ app.active = active ELSE ~start

StopScan(start, active) ==
    /\ ~start /\ ~Repeats(start, active)
    /\ app' = [app EXCEPT !.started = FALSE]
    /\ Stopped
    /\ UNCHANGED count

\* A scan of the other kind is stopped first.  The mode is set before the
\* watcher starts; nobody is told that it has not.
StartScan(start, active) ==
    /\ start /\ ~Repeats(start, active)
    /\ count.scans < MaxScans
    /\ app' = [started |-> TRUE, active |-> active]
    /\ scanner' = [stop |-> FALSE, active |-> active]
    /\ watcher' \in BOOLEAN
    /\ count' = [count EXCEPT !.scans = @ + 1]

\* mesh_start_stop_scan_callback
ScanCallback ==
    /\ \E start, active \in BOOLEAN : StopScan(start, active) \/ StartScan(start, active)
    /\ UNCHANGED <<raw, posted, reports, heard, last>>

-----------------------------------------------------------------------------
(* OnAdvertisementReceived                                                 *)

\* (mutant of Flushed: what waits is overwritten)
Overwritten == <<>>

\* "if previous advert came with no scan response, send it down with
\* previously received bda": the reports for what waits in the buffer
Flushed == IF raw = <<>> THEN <<>> ELSE <<Report(raw[1], Nobody)>>

Packet(d, kind) == [n |-> count.packets + 1, dev |-> d, kind |-> kind]

\* A packet is heard.  One of another type (most of what a mesh sends), or
\* one whose address or contents Windows does not give, is ignored and leaves
\* everything as it is.
Hears(p) ==
    /\ watcher /\ ~scanner.stop
    /\ count.packets < MaxPackets
    /\ count' = [count EXCEPT !.packets = @ + 1]
    /\ last' = <<p>>

\* ProvServicePresent or ProxyServicePresent after the loop over the services,
\* of which Windows has given those at the places "read".  Each service of the
\* Bluetooth SIG ("prov", "proxy", "sig") assigns both flags anew: a mesh
\* service is seen only when no other of them follows it.
ServicePresent(d, read) ==
    \E i \in read : /\ Services[d][i] \in {"prov", "proxy"}
                    /\ \A j \in read : j > i => Services[d][j] # "sig"

\* An advertisement that is dropped only flushes the buffer: no mesh service is
\* seen in it, or Windows fails to give its services or its data.
DroppedAdvert(d) ==
    /\ Hears(Packet(d, "advert"))
    /\ posted' = posted \o Flushed
    /\ raw' = <<>>
    /\ UNCHANGED <<app, scanner, watcher, reports, heard>>

\* one that is recognised, in an active scan: "wait for scan response"
KeptAdvert(d, read) ==
    /\ ServicePresent(d, read) /\ scanner.active
    /\ Hears(Packet(d, "advert"))
    /\ posted' = posted \o Flushed
    /\ raw' = <<Packet(d, "advert")>>
    /\ heard' = Append(heard, Packet(d, "advert"))
    /\ UNCHANGED <<app, scanner, watcher, reports>>

\* "otherwise ship the adv to the stack"
ShippedAdvert(d, read) ==
    /\ ServicePresent(d, read) /\ ~scanner.active
    /\ Hears(Packet(d, "advert"))
    /\ posted' = posted \o Flushed \o <<Report(Packet(d, "advert"), Nobody)>>
    /\ raw' = <<>>
    /\ heard' = Append(heard, Packet(d, "advert"))
    /\ UNCHANGED <<app, scanner, watcher, reports>>

\* (mutant of Emptied: the buffer keeps what was sent)
Full == raw

\* raw_advert_len = 0
Emptied == <<>>

\* A scan response completes what waits in the buffer, whoever sent it.  With
\* nothing there it is ignored.  One of an active scan may come late, in the
\* passive scan after it.
ScanResponse(d) ==
    /\ scanner.active \/ count.scans > 1
    /\ Hears(Packet(d, "response"))
    /\ posted' = IF raw = <<>> THEN posted ELSE Append(posted, Report(raw[1], d))
    /\ raw' = Emptied
    /\ UNCHANGED <<app, scanner, watcher, reports, heard>>

OnAdvertisementReceived ==
    \E d \in Devices :
        \/ DroppedAdvert(d)
        \/ \E read \in SUBSET DOMAIN Services[d] : KeptAdvert(d, read) \/ ShippedAdvert(d, read)
        \/ ScanResponse(d)

\* OnMeshDeviceAdvReport
OnMeshDeviceAdvReport ==
    /\ posted # <<>>
    /\ posted' = Tail(posted)
    /\ reports' = Append(reports, Head(posted))
    /\ UNCHANGED <<app, scanner, watcher, raw, heard, last, count>>

-----------------------------------------------------------------------------
Init ==
    /\ app = [started |-> FALSE, active |-> FALSE]
    /\ scanner = [stop |-> FALSE, active |-> FALSE]
    /\ watcher = FALSE
    /\ raw = <<>> /\ posted = <<>> /\ reports = <<>> /\ heard = <<>> /\ last = <<>>
    /\ count = [packets |-> 0, scans |-> 0]

Next == ScanCallback \/ OnAdvertisementReceived \/ OnMeshDeviceAdvReport

Spec == Init /\ [][Next]_vars
-----------------------------------------------------------------------------
(* Properties                                                              *)

\* The type invariant.
TypeOK ==
    /\ app \in [started : BOOLEAN, active : BOOLEAN]
    /\ scanner \in [stop : BOOLEAN, active : BOOLEAN]
    /\ watcher \in BOOLEAN
    /\ raw \in Seq(Adverts) /\ Len(raw) =< 1
    /\ posted \in Seq(Reports) /\ reports \in Seq(Reports)
    /\ heard \in Seq(Adverts)
    /\ last \in Seq(Adverts)
    /\ count \in [packets : 0 .. MaxPackets, scans : 0 .. MaxScans]

Advertised(report) == report.of

\* Every advertisement that is recognised as a mesh device's reaches the library
\* once and in the order heard, or waits in the buffer, through scans that
\* start, stop and change their kind while it waits.  (Not every mesh device's
\* is recognised, see ServicePresent and DroppedAdvert.)
EachReportedOnce ==
    [i \in 1 .. Len(reports \o posted) |-> Advertised((reports \o posted)[i])] \o raw = heard

\* What waits for a scan response is the last packet that was not ignored: the
\* name that is added to an advertisement was in the next one, which may be
\* another device's (see README), and never in a later one.
NothingInBetween == raw # <<>> => last = raw
=============================================================================
