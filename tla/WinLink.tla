------------------------------ MODULE WinLink ------------------------------
(***************************************************************************)
(* The GATT connection of the Windows client: the connection part of       *)
(* CMeshClientDlg (MeshClientDlg.cpp) and of CBtWin10Interface             *)
(* (Win10Interface.cpp).                                                   *)
(*                                                                         *)
(* The mesh library asks for a connection on the UI thread, which posts    *)
(* itself a message, creates an interface object and waits in its Init for *)
(* the services.  Windows reports the link, and the result of each write,  *)
(* on threads of its own: they post messages too.  A write may complete    *)
(* after its interface was deleted.  m_bConnecting is set from the         *)
(* creation of an interface until its descriptor has been written.         *)
(***************************************************************************)
EXTENDS Integers, SequencesExt

CONSTANT MaxConnects   \* bound on the connections the mesh library asks for

ASSUME ConnectsAssumption == MaxConnects \in Nat

VARIABLES
    lib,         \* what the mesh library asked for, or was told
    connecting,  \* m_bConnecting
    iface,       \* m_btInterface: which of the interfaces so far, 0 if none
    state,       \* m_state of that interface
    ui,          \* where the UI thread waits, "idle" between messages
    msgs,        \* its message queue
    link,        \* is the link to the device up
    att,         \* writes that have not completed, in order
    seen         \* history: requests, interfaces, the last one subscribed,
                 \* the last one whose loss was missed, and whether a connection
                 \* was torn down, answered by nobody, or written to after its
                 \* end

linkVars == <<lib, connecting, iface, state, ui, msgs, link, att, seen>>

Message(m, n) == [m |-> m, n |-> n]
Write(i, op, x) == [iface |-> i, op |-> op, x |-> x, done |-> FALSE]

Post(m) == msgs' = Append(msgs, Message(m, 0))

\* the UI thread takes a message
Takes(m) == ui = "idle" /\ msgs # <<>> /\ Head(msgs).m = m
-----------------------------------------------------------------------------
(* The mesh library, on the UI thread                                      *)

\* mesh_bt_gatt_le_connect, if it is not refused
GattConnect ==
    /\ ui = "idle"
    /\ lib = "idle" /\ seen.asked < MaxConnects
    /\ ~connecting /\ iface = 0
    /\ Post("CONNECT")
    /\ lib' = "connecting"
    /\ seen' = [seen EXCEPT !.asked = @ + 1]
    /\ UNCHANGED <<connecting, iface, state, ui, link, att>>

\* mesh_bt_gatt_le_disconnect of a network that is connected
GattDisconnect ==
    /\ ui = "idle"
    /\ lib = "connected" /\ iface # 0
    /\ Post("DISCONNECT")
    /\ lib' = "disconnecting"
    /\ UNCHANGED <<connecting, iface, state, ui, link, att, seen>>

-----------------------------------------------------------------------------
(* Messages                                                                *)

\* (mutant of TearDown: the library is not told)
TearDownUntold ==
    /\ iface' = 0 /\ state' = "unconnected" /\ UNCHANGED lib
    /\ seen' = [seen EXCEPT !.torn = @ \/ connecting]

\* the interface is reset and deleted, and the library told; m_bConnecting
\* is not touched
TearDown ==
    /\ iface' = 0 /\ state' = "unconnected" /\ lib' = "idle"
    /\ seen' = [seen EXCEPT !.torn = @ \/ connecting]

\* OnMeshDeviceConnect gives up: Init or the search for a service failed
GiveUp == /\ connecting' = FALSE /\ iface' = 0 /\ state' = "unconnected"
          /\ lib' = "idle" /\ ui' = "idle"

\* OnMeshDeviceConnect once Init has returned: the descriptor is written,
\* or, without its characteristic, nothing is
Subscribe(i) == att' = Append(att, Write(i, "subscribe", <<>>)) /\ UNCHANGED seen
SubscribeNothing == seen' = [seen EXCEPT !.silent = TRUE] /\ UNCHANGED att

\* the first half of OnMeshDeviceConnect, up to the device lookup in Init.
\* With a link that is up already Init returns without the services.
OnMeshDeviceConnect ==
    /\ Takes("CONNECT")
    /\ msgs' = Tail(msgs)
    /\ \/ /\ iface # 0
          /\ lib' = "idle"
          /\ UNCHANGED <<connecting, iface, state, ui, link, att, seen>>
       \/ /\ iface = 0
          /\ GiveUp
          /\ seen' = [seen EXCEPT !.ifaces = @ + 1]
          /\ UNCHANGED <<link, att>>
       \/ /\ iface = 0 /\ link = "up"
          /\ connecting' = TRUE /\ iface' = seen.ifaces + 1 /\ state' = "connected"
          /\ seen' = [seen EXCEPT !.ifaces = @ + 1, !.silent = TRUE]
          /\ UNCHANGED <<lib, ui, link, att>>
       \/ /\ iface = 0 /\ link = "down"
          /\ connecting' = TRUE /\ iface' = seen.ifaces + 1 /\ state' = "connecting"
          /\ ui' = "init"
          \* the link may come up after the status was read and before the
          \* handler of its changes is added
          /\ link' \in {"down", "up"}
          /\ seen' = [seen EXCEPT !.ifaces = @ + 1]
          /\ UNCHANGED <<lib, att>>

\* the second half: the services are there, or they are not
InitReturns ==
    /\ ui = "init"
    /\ \/ /\ GiveUp
          /\ msgs' \in {msgs, Append(msgs, Message("DISCONNECTED", 0))}
          /\ UNCHANGED <<link, att, seen>>
       \/ /\ link = "up" \/ state = "unconnected"
          /\ ui' = "idle"
          /\ Subscribe(iface) \/ SubscribeNothing
          /\ UNCHANGED <<lib, connecting, iface, state, msgs, link>>

OnMeshDeviceCCCDPutComplete ==
    /\ Takes("CCCD_PUT_COMPLETE")
    /\ msgs' = Tail(msgs)
    /\ IF connecting /\ iface # 0 THEN lib' = "connected" /\ connecting' = FALSE
                                  ELSE UNCHANGED <<lib, connecting>>
    /\ UNCHANGED <<iface, state, ui, link, att, seen>>

\* Disconnect
OnMeshDeviceDisconnect ==
    /\ Takes("DISCONNECT")
    /\ msgs' = Tail(msgs)
    /\ TearDown
    /\ UNCHANGED <<connecting, ui, link, att>>

OnMeshDeviceDisconnected ==
    /\ Takes("DISCONNECTED")
    /\ msgs' = Tail(msgs)
    /\ TearDown
    /\ UNCHANGED <<connecting, ui, link, att>>

-----------------------------------------------------------------------------
(* Windows                                                                 *)

Alive == ui # "crashed"

\* (mutant of LinkUp: the message is handled, as the end of the connection)
LinkUpReported ==
    /\ Alive /\ link = "down" /\ iface # 0
    /\ link' = "up"
    /\ state' = IF state = "connecting" THEN "connected" ELSE state
    /\ Post("CCCD_PUT_COMPLETE")
    /\ UNCHANGED <<lib, connecting, iface, ui, att, seen>>

\* The handler of the connection status, while there is an interface.  The
\* message WM_MESH_DEVICE_CONNECTED has no handler in the window.
LinkUp ==
    /\ Alive /\ link = "down" /\ iface # 0
    /\ link' = "up"
    /\ state' = IF state = "connecting" THEN "connected" ELSE state
    /\ UNCHANGED <<lib, connecting, iface, ui, msgs, att, seen>>

\* is m_state still what it was when the connection was begun
Connecting == iface # 0 /\ state = "connecting"


\* The handler looks at m_state and not at the link.  It misses the loss of a
\* link that came up before the handler was added: m_state is still the one of
\* a connection that is being made.  While Init waits, that ends with Init.
LinkDown ==
    /\ Alive /\ link = "up"
    /\ link' = "down"
    /\ IF iface # 0 /\ state = "connected"
       THEN state' = "unconnected" /\ Post("DISCONNECTED")
       ELSE UNCHANGED <<state, msgs>>
    /\ seen' = [seen EXCEPT !.missed = IF Connecting /\ ui # "init" THEN iface ELSE @]
    /\ UNCHANGED <<lib, connecting, iface, ui, att>>

\* The completion of a write runs in an interface object: once that is
\* deleted, it works on freed memory.  What follows from it may still happen,
\* or the process ends.
InObject(i, action, unchanged) ==
    \/ action /\ UNCHANGED ui
    \/ i # iface /\ ui' = "crashed" /\ unchanged

\* the device executes the oldest write
DeviceTakes ==
    /\ Alive /\ link = "up" /\ att # <<>> /\ ~Head(att).done
    /\ att' = [att EXCEPT ![1].done = TRUE]
    /\ UNCHANGED <<lib, connecting, iface, state, ui, msgs, link, seen>>

\* (mutant of Reply: a write that failed is only traced)
ReplyIfWritten(ok) == IF ok THEN Post("CCCD_PUT_COMPLETE") ELSE UNCHANGED msgs

\* SetDescriptorValue's handler
Reply(ok) == Post(IF ok THEN "CCCD_PUT_COMPLETE" ELSE "DISCONNECTED")

\* The oldest write completes: with an error even if the device executed it,
\* and with nothing else if it did not.
SubscribeCompletes ==
    /\ Alive /\ att # <<>> /\ Head(att).op = "subscribe"
    /\ LET w == Head(att)
       IN  \E ok \in IF w.done THEN BOOLEAN ELSE {FALSE} :
             /\ seen' = [seen EXCEPT !.subscribed = IF ok THEN w.iface ELSE @,
                                     !.stale = @ \/ w.iface # iface]
             /\ InObject(w.iface, Reply(ok), UNCHANGED msgs)
    /\ att' = Tail(att)
    /\ UNCHANGED <<lib, connecting, iface, state, link>>

-----------------------------------------------------------------------------
Init ==
    /\ lib = "idle" /\ connecting = FALSE /\ iface = 0 /\ state = "unconnected"
    /\ ui = "idle" /\ msgs = <<>> /\ link \in {"down", "up"} /\ att = <<>>
    /\ seen = [asked |-> 0, ifaces |-> 0, subscribed |-> 0, missed |-> 0,
               torn |-> FALSE, silent |-> FALSE, stale |-> FALSE]

Library == GattConnect \/ GattDisconnect
Handlers == \/ OnMeshDeviceConnect \/ InitReturns \/ OnMeshDeviceCCCDPutComplete
            \/ OnMeshDeviceDisconnect \/ OnMeshDeviceDisconnected
Next == Library \/ Handlers \/ LinkUp \/ LinkDown \/ DeviceTakes \/ SubscribeCompletes

Spec == Init /\ [][Next]_linkVars

\* the UI thread runs, and Windows completes what it was asked to do
FairSpec == Spec /\ WF_linkVars(Handlers) /\ WF_linkVars(SubscribeCompletes)

-----------------------------------------------------------------------------
(* Properties                                                              *)

\* The type invariant.
TypeOK ==
    /\ lib \in {"idle", "connecting", "connected", "disconnecting"}
    /\ connecting \in BOOLEAN
    /\ iface \in Nat
    /\ state \in {"connecting", "connected", "unconnected"}
    /\ ui \in {"idle", "init", "crashed"}
    /\ msgs \in Seq([m : {"CONNECT", "DISCONNECT", "DISCONNECTED", "CCCD_PUT_COMPLETE"},
                     n : {0}])
    /\ link \in {"down", "up"}
    /\ att \in Seq([iface : Nat, op : {"subscribe"}, x : {<<>>}, done : BOOLEAN])
    /\ seen \in [asked : Nat, ifaces : Nat, subscribed : Nat, missed : Nat,
                 torn : BOOLEAN, silent : BOOLEAN, stale : BOOLEAN]

Queued(m) == \E i \in 1 .. Len(msgs) : msgs[i].m = m
Writing(i) == \E k \in 1 .. Len(att) : att[k].iface = i /\ att[k].op = "subscribe"

\* Something is always on its way that ends a connection in progress, and
\* with it the refusal of every other one: Init, the write of the descriptor
\* or the message of its result.  (Not if the connection was torn down, or
\* nothing was written: the flag then stays for ever, see README.)
ConnectingAwaits ==
    connecting => \/ ui # "idle"
                  \/ Writing(iface) \/ Queued("CCCD_PUT_COMPLETE") \/ Queued("DISCONNECTED")
                  \/ seen.torn \/ seen.silent

\* "Resume connection process after CCCD put completes": the library is told
\* that it is connected only when the descriptor of the interface it is going
\* to use has been written, not on the completion of another one's write.
\* (Unless a completion has run in an interface that was deleted, or a connection
\* was torn down in progress: its message may be taken for the next one's.)
ConnectedMeansSubscribed ==
    [][ lib' = "connected" /\ lib # "connected"
           => seen.subscribed = iface \/ seen.stale \/ seen.torn ]_linkVars

\* A connection that the library asks for is answered.  (Unless nothing was
\* written, or the process ended.)
ConnectIsAnswered ==
    lib = "connecting" ~> lib # "connecting" \/ seen.silent \/ ~Alive

=============================================================================
