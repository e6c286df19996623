---------------------------- MODULE RequestQueue ----------------------------
(***************************************************************************)
(* GattUtils.RequestQueue of the Android framework and the connections of  *)
(* MeshGattClient that it serves.                                          *)
(*                                                                         *)
(* Android completes one request of a connection at a time and reports it  *)
(* on a Binder thread of that connection; the application and the mesh     *)
(* library add requests on a thread of their own.  execute() starts an     *)
(* idle queue, the callback of each request asks for the next().  A        *)
(* connection that was given up is closed only when Android reports its    *)
(* end: until then its callbacks reach the same queue.  The subscription   *)
(* to the mesh notifications is written past the queue.  clear() takes no  *)
(* lock; what its race does inside java.util.ArrayDeque is left out.       *)
(***************************************************************************)
EXTENDS Integers, SequencesExt

CONSTANTS
    MaxConnects,   \* bound on the connections the mesh library asks for
    MaxPackets     \* bound on the proxy packets it sends

VARIABLES
    q,       \* mRequestQueue and mIsRunning, and is the main thread between
             \* the two assignments of clear()
    mGatt,   \* MeshGattClient.mGatt: which of the connections so far, or 0
    gatts,   \* the connections: state, the request Android works on, have
             \* the services of the device been found
    nexts,   \* for each thread, the calls of next() that it is about to make
    seen     \* history: packets, did the thread of an older connection take
             \* the next request, was a refusal followed by nothing, did a
             \* request come between the two assignments of clear()

queueVars == <<q, mGatt, gatts, nexts, seen>>

NoOp == [gatt |-> 0, op |-> "none", x |-> 0, done |-> FALSE]
Req(g, op, x) == [gatt |-> g, op |-> op, x |-> x, done |-> FALSE]

\* the Binder thread of each connection is known by the connection's number
App == 0
Threads == 0 .. MaxConnects

Up(g) == g # 0 /\ gatts[g].state = "up"

\* Android takes the requests of an open connection, one at a time
Accepts(r) == gatts[r.gatt].state \in {"up", "leaving"} /\ gatts[r.gatt].op = NoOp
-----------------------------------------------------------------------------
(* The queue                                                               *)

\* (mutant of Added: every request starts the queue)
AddedAgain(t, rs) == /\ q' = [q EXCEPT !.reqs = @ \o rs, !.running = TRUE]
                     /\ nexts' = [nexts EXCEPT ![t] = @ + 1]

\* add and execute by thread t, for one request after another.  Only the
\* first can find the queue idle.
Added(t, rs) == /\ q' = [q EXCEPT !.reqs = @ \o rs, !.running = TRUE]
                /\ nexts' = [nexts EXCEPT ![t] = IF q.running THEN @ ELSE @ + 1]

\* (mutant of ClearedRunning: mIsRunning stays)
KeptRunning == q' = [q EXCEPT !.clearing = FALSE]

\* clear: mRequestQueue.clear(), and then mIsRunning = false.  Another
\* thread can add and execute in between.
Cleared == q' = [q EXCEPT !.reqs = <<>>, !.clearing = TRUE]
ClearedRunning == q' = [q EXCEPT !.running = FALSE, !.clearing = FALSE]

\* the application's thread is not inside a call of the queue
AppIdle == nexts[App] = 0 /\ ~q.clearing

Empties ==
    /\ q.reqs = <<>>
    /\ q' = [q EXCEPT !.running = FALSE]
    /\ UNCHANGED gatts

Issues ==
    /\ q.reqs # <<>> /\ Accepts(Head(q.reqs))
    /\ gatts' = [gatts EXCEPT ![Head(q.reqs).gatt].op = Head(q.reqs)]
    /\ q' = [q EXCEPT !.reqs = Tail(@)]

\* A descriptor that is refused is forgotten: no callback will ask for the
\* next request.  A characteristic is retried, with the queue locked; after
\* 400 ms its connection is given up.
Refused ==
    /\ q.reqs # <<>> /\ ~Accepts(Head(q.reqs))
    /\ LET r == Head(q.reqs)
       IN  gatts' = IF r.op # "desc" /\ gatts[r.gatt].state = "up"
                    THEN [gatts EXCEPT ![r.gatt].state = "leaving"] ELSE gatts
    /\ q' = [q EXCEPT !.reqs = Tail(@)]

\* nothing of the connection in use will follow such a refusal
Unnoticed(r) == r.op = "desc" \/ r.gatt # mGatt

\* next
RunNext(t) ==
    /\ nexts[t] > 0
    /\ nexts' = [nexts EXCEPT ![t] = @ - 1]
    /\ Empties \/ Issues \/ Refused
    /\ seen' = [seen EXCEPT !.stale = @ \/ (t \notin {App, mGatt} /\ mGatt # 0),
                            !.refused = @ \/ (Refused /\ Unnoticed(Head(q.reqs)))]
    /\ UNCHANGED mGatt

-----------------------------------------------------------------------------
(* MeshGattClient                                                          *)

NewConnection == [state |-> "connecting", op |-> NoOp, services |-> FALSE]

\* close: the services that were found stay known
Closed(g) == [gatts[g] EXCEPT !.state = "closed", !.op = NoOp]

\* connect, on the main thread, for a library that is not connected; an
\* attempt that has not succeeded is closed, a connection that is on its way
\* out is not
Connect ==
    /\ AppIdle /\ Len(gatts) < MaxConnects
    /\ mGatt # 0 => gatts[mGatt].state = "connecting"
    /\ gatts' = IF mGatt = 0 THEN gatts ELSE [gatts EXCEPT ![mGatt] = Closed(mGatt)]
    /\ Cleared
    /\ UNCHANGED <<mGatt, nexts, seen>>

\* connectGatt, after the second assignment of clear()
ConnectGatt ==
    /\ q.clearing
    /\ ClearedRunning
    /\ gatts' = Append(gatts, NewConnection)
    /\ mGatt' = Len(gatts) + 1
    /\ seen' = [seen EXCEPT !.torn = @ \/ q.reqs # <<>>]
    /\ UNCHANGED nexts

\* disconnect
Disconnect ==
    /\ mGatt # 0 /\ ~q.clearing
    /\ gatts' = [gatts EXCEPT ![mGatt].state = IF @ = "lost" THEN "lost" ELSE "leaving"]
    /\ mGatt' = 0
    /\ UNCHANGED <<q, nexts, seen>>

\* the library, or the application through it, sends a packet, on its own
\* thread or on the one that has received another; it needs the
\* characteristic, and so the services
SendProxyPacket ==
    /\ seen.packets < MaxPackets
    /\ mGatt # 0 /\ gatts[mGatt].services
    /\ \E t \in {App, mGatt} :
          /\ nexts[t] = 0 /\ (t = App => AppIdle)
          /\ Added(t, <<Req(mGatt, "proxy", 0)>>)
    /\ seen' = [seen EXCEPT !.packets = @ + 1]
    /\ UNCHANGED <<mGatt, gatts>>

\* Android's callbacks of a connection come one after another
Callback(g) == g \in 1 .. Len(gatts) /\ gatts[g].state # "closed" /\ nexts[g] = 0

\* from onConnectionStateChange to onServicesDiscovered of a mesh device:
\* the MTU and the services are there.  The descriptor of the mesh
\* notifications is written at once, past the queue, and keeps Android busy.
\* MSG_DEVICE_CONNECTED comes after a delay and does not wait for the write.
DeviceConnected(g) ==
    /\ Callback(g) /\ gatts[g].state = "connecting"
    /\ gatts' = [gatts EXCEPT ![g] = [state |-> "up", op |-> Req(g, "cccd", 0),
                                      services |-> TRUE]]
    /\ UNCHANGED <<q, mGatt, nexts, seen>>

\* onDescriptorWrite of the mesh notifications, with whatever status, does
\* nothing: it does not ask for the next request
OnMeshDescriptorWrite(g) ==
    /\ Callback(g) /\ gatts[g].state \in {"up", "leaving"}
    /\ gatts[g].op.op = "cccd"
    /\ gatts' = [gatts EXCEPT ![g].op = NoOp]
    /\ UNCHANGED <<q, mGatt, nexts, seen>>

\* onConnectionStateChange(STATE_DISCONNECTED): the handle of the current
\* connection is dropped, whichever connection has ended
OnDisconnected(g) ==
    /\ Callback(g) /\ gatts[g].state \in {"connecting", "lost", "leaving"}
    /\ gatts' = [gatts EXCEPT ![g] = Closed(g)]
    /\ mGatt' = 0
    /\ UNCHANGED <<q, nexts, seen>>

LinkLost(g) ==
    /\ Up(g)
    /\ gatts' = [gatts EXCEPT ![g].state = "lost"]
    /\ UNCHANGED <<q, mGatt, nexts, seen>>

\* the device has answered the request Android works on; an error needs no
\* answer
Completes(g, ok) ==
    /\ Callback(g) /\ gatts[g].state \in {"up", "leaving"}
    /\ gatts[g].op.op \notin {"none", "cccd"} /\ (ok => gatts[g].op.done)
    /\ gatts' = [gatts EXCEPT ![g].op = NoOp]
    /\ UNCHANGED <<mGatt, seen>>

\* the callback of a request does nothing but call next
AsksNext(g) == nexts' = [nexts EXCEPT ![g] = @ + 1] /\ UNCHANGED q

\* onDescriptorWrite, and onCharacteristicWrite of a packet
OnOtherWrite(g, ok) ==
    /\ gatts[g].op.op \in {"desc", "proxy"}
    /\ Completes(g, ok)
    /\ AsksNext(g)

-----------------------------------------------------------------------------
Init ==
    /\ q = [reqs |-> <<>>, running |-> FALSE, clearing |-> FALSE]
    /\ mGatt = 0 /\ gatts = <<>>
    /\ nexts = [t \in Threads |-> 0]
    /\ seen = [packets |-> 0, stale |-> FALSE, refused |-> FALSE, torn |-> FALSE]

Requests == [gatt : Nat, op : {"none", "cccd", "desc", "prepare", "download", "data", "verify",
                               "abort", "proxy"}, x : Nat, done : BOOLEAN]

\* the requests are those of connections that exist, and Android works for
\* each of them on one of its own
TypeOK ==
    /\ q \in [reqs : Seq(Requests), running : BOOLEAN, clearing : BOOLEAN]
    /\ \A i \in 1 .. Len(q.reqs) : q.reqs[i].gatt \in 1 .. Len(gatts)
    /\ mGatt \in 0 .. Len(gatts)
    /\ gatts \in Seq([state : {"connecting", "up", "leaving", "lost", "closed"}, op : Requests,
                      services : BOOLEAN])
    /\ \A g \in 1 .. Len(gatts) : gatts[g].op = NoOp \/ gatts[g].op.gatt = g
    /\ nexts \in [Threads -> Nat]
    /\ seen \in [packets : 0 .. MaxPackets, stale : BOOLEAN, refused : BOOLEAN, torn : BOOLEAN]
=============================================================================
