---------------------------- MODULE MeshNetwork ----------------------------
(***************************************************************************)
(* Opening, connecting, leaving and closing a mesh network through the     *)
(* iOS framework (MeshFrameworkManager.swift).  Every call of the API is   *)
(* answered through a completion: one slot holds the completion of the     *)
(* open in progress, with a timer of ten seconds; a list holds those that  *)
(* wait for the library's next link status.  Calls, callbacks of the       *)
(* library and the timer all run on the main thread, one after the other,  *)
(* but a completion may call the API again while its caller is half done.  *)
(*                                                                         *)
(* The whole state is one record, `m', since a step is a sequence of       *)
(* completions, each of which may change it: an operator with a name in    *)
(* lower case letters takes such a record and returns the set of those     *)
(* that it may become.                                                     *)
(***************************************************************************)
EXTENDS Naturals, FiniteSets, SequencesExt

CONSTANT MaxCalls      \* bound on the calls the application makes

ASSUME MaxCallsAssumption == MaxCalls \in Nat

VARIABLE m

Calls  == 1..MaxCalls
Nobody == 0            \* Swift's nil

\* The application leaves a network in order to close it and, perhaps, to
\* open another; deinitMeshLibrary, in order to close it.
Kinds == {"open", "link", "leave", "deinit"}

\* `of' is the open that the library's callback was about
Answers ==
    [what : {"opened", "failed", "timeout", "refused", "busy", "closed", "link"},
     of   : {Nobody} \union Calls]

Answer(w) == [what |-> w, of |-> Nobody]

Manager ==
    [slot      : {Nobody} \union Calls,  \* openMeshNetworkCb
     timer     : BOOLEAN,                \* openMeshNetworkTimer
     waiters   : Seq(Calls),             \* meshNetworkLinkStatusUpdatedCb
     opening   : {Nobody} \union Calls,  \* openingNetworkName: whose it is
     opened    : {Nobody} \union Calls,  \* openedNetworkName
     \* the library: opens it has accepted and not reported, whether it is
     \* connecting or disconnecting, and whether it is connected
     accepted  : SUBSET Calls,
     linking   : BOOLEAN,
     connected : BOOLEAN,
     \* history: the calls, what each was told, and those whose completion
     \* was thrown away
     kind      : Seq(Kinds),
     told      : Seq(Seq(Answers)),
     dropped   : SUBSET Calls]

Init ==
    m = [slot |-> Nobody, timer |-> FALSE, waiters |-> <<>>,
         opening |-> Nobody, opened |-> Nobody,
         accepted |-> {}, linking |-> FALSE, connected |-> FALSE,
         kind |-> <<>>, told |-> <<>>, dropped |-> {}]

-----------------------------------------------------------------------------
(* The calls *)

told(s, id, a) == [s EXCEPT !.told[id] = Append(@, a)]

\* The states in which a call of kind k has been made: one, with the
\* completion Len(t.kind), or none when the bound is reached.
called(s, k) ==
    IF Len(s.kind) < MaxCalls
    THEN {[s EXCEPT !.kind = Append(@, k), !.told = Append(@, <<>>)]}
    ELSE {}

newest(s) == Len(s.kind)

\* The library takes the open, or refuses it: then the completion is told
\* before the slot is given back.
attempt(s, id) ==
    {[s EXCEPT !.accepted = @ \union {id}],
     [told(s, id, Answer("refused")) EXCEPT !.timer = FALSE, !.slot = Nobody]}

\* A network that the library cannot import: its name is not known.
notImported(s, id) == [told(s, id, Answer("refused")) EXCEPT !.timer = FALSE]

\* mutant: no timer is started
openUntimed(s) ==
    UNION {LET id == newest(t)
           IN  IF t.slot # Nobody
               THEN {told(t, id, Answer("busy"))}
               ELSE attempt([t EXCEPT !.slot = id, !.opening = id], id)
           : t \in called(s, "open")}

\* openMeshNetwork, meshClientNetworkImport
open(s) ==
    UNION {LET id == newest(t)
           IN  IF t.slot # Nobody
               THEN {told(t, id, Answer("busy"))}
               ELSE attempt([t EXCEPT !.slot = id, !.opening = id,
                                      !.timer = TRUE], id)
                    \union {notImported(t, id)}
           : t \in called(s, "open")}

isMeshNetworkConnected(s) == s.opened # Nobody /\ s.connected

\* The library has taken the newest call and will report its link.
asked(s) == [s EXCEPT !.linking = TRUE, !.waiters = Append(@, newest(s))]

\* connectMeshNetwork; the library may refuse
connect(s) ==
    UNION {IF isMeshNetworkConnected(t)
           THEN {told(t, newest(t), Answer("link"))}
           ELSE {told(t, newest(t), Answer("refused")), asked(t)}
           : t \in called(s, "link")}

\* runHandlerWithMeshNetworkConnected
runHandler(s) ==
    IF s.opened = Nobody
    THEN {told(t, newest(t), Answer("closed")) : t \in called(s, "link")}
    ELSE connect(s)

\* mutant: the open in progress is forgotten too
closeAll(s) == [s EXCEPT !.opened = Nobody, !.opening = Nobody,
                         !.slot = Nobody, !.timer = FALSE]

\* closeMeshNetwork.  The library is told; an open that it has accepted it
\* may still report, or never.
close(s) == [s EXCEPT !.opened = Nobody, !.opening = Nobody]

\* A completion is called.  The application may call the API from it, a
\* completion of a disconnect closes the network first.
complete(s, id, a) ==
    LET t == told(s, id, a)
        c == close(t)
    IN  CASE s.kind[id] = "leave"  -> {c} \union open(c)
          [] s.kind[id] = "deinit" -> {c}
          [] OTHER                 -> {t} \union open(t) \union runHandler(t)

\* disconnectMeshNetwork
disconnect(s, k) ==
    UNION {LET id == newest(t)
           IN  IF isMeshNetworkConnected(t)
               THEN {asked(t)} \union complete(t, id, Answer("refused"))
               ELSE complete(t, id, Answer("link"))
           : t \in called(s, k)}

-----------------------------------------------------------------------------
(* The callbacks of the library and the timer *)

\* mutant: the timer is left running
finishRunning(s, a) ==
    {[u EXCEPT !.slot = Nobody]
     : u \in IF s.slot = Nobody THEN {s} ELSE complete(s, s.slot, a)}

\* The end of meshClientNetworkOpenCb and of the timer's handler: the timer
\* is taken back, the completion is told, then the slot is given back.
finish(s, a) ==
    LET t == [s EXCEPT !.timer = FALSE]
    IN  {[u EXCEPT !.slot = Nobody]
         : u \in IF s.slot = Nobody THEN {t} ELSE complete(t, s.slot, a)}

\* The states in which the first i of the handlers in the list of s have
\* been called, in order, for each i.
handled(s) ==
    LET after[i \in 0..Len(s.waiters)] ==
            IF i = 0
            THEN {s}
            ELSE UNION {complete(t, s.waiters[i], Answer("link"))
                        : t \in after[i - 1]}
    IN  after

\* mutant: the list is not emptied
linkStatusKept(s) == handled(s)[Len(s.waiters)]

\* onLinkStatus: the handlers of a copy of the list are called, in order,
\* and then the list is emptied, whatever they have added to it.
linkStatus(s) ==
    {[t EXCEPT !.waiters = <<>>,
               !.dropped = @ \union (ToSet(t.waiters) \ ToSet(s.waiters))]
     : t \in handled(s)[Len(s.waiters)]}

-----------------------------------------------------------------------------
(* The steps of the main thread *)

OpenMeshNetwork       == m' \in open(m)
ConnectMeshNetwork    == m' \in connect(m)
RunHandler            == m' \in runHandler(m)
DisconnectMeshNetwork == m' \in disconnect(m, "leave")

CloseMeshNetwork ==
    /\ m # close(m)
    /\ m' = close(m)

\* deinitMeshLibrary: disconnectMeshNetwork with a completion that closes
\* the network, which is thrown away at once if it has to wait.
DeinitMeshLibrary ==
    \E t \in disconnect(m, "deinit") :
        m' = [close(t) EXCEPT !.waiters = <<>>,
                              !.dropped = @ \union ToSet(t.waiters)]

\* meshClientNetworkOpenCb.  The library does not say which open it means.
MeshClientNetworkOpenCb ==
    \E id \in m.accepted, ok \in BOOLEAN :
        LET s == [m EXCEPT !.accepted = @ \ {id},
                           !.opened = IF ok /\ m.opening # Nobody THEN m.opening
                                                                  ELSE @]
        IN  m' \in finish(s, [what |-> IF ok THEN "opened" ELSE "failed",
                              of |-> id])

OpenMeshNetworkTimeoutHandler ==
    /\ m.timer
    /\ m' \in finish(m, Answer("timeout"))

\* The library has finished connecting or disconnecting.
LinkDone ==
    /\ m.linking
    /\ \E up \in BOOLEAN :
           m' \in linkStatus([m EXCEPT !.linking = FALSE, !.connected = up])

\* The link breaks: the waiting completions are told that, too.
LinkLost ==
    /\ m.connected
    /\ m' \in linkStatus([m EXCEPT !.connected = FALSE])

Next ==
    \/ OpenMeshNetwork \/ ConnectMeshNetwork \/ RunHandler
    \/ DisconnectMeshNetwork \/ CloseMeshNetwork \/ DeinitMeshLibrary
    \/ MeshClientNetworkOpenCb \/ OpenMeshNetworkTimeoutHandler
    \/ LinkDone \/ LinkLost

Spec == Init /\ [][Next]_m

\* A scheduled timer fires, and the library "finally" reports a connection
\* it has been asked for (comment at line 502).  It may never report an open.
FairSpec ==
    /\ Spec
    /\ WF_m(OpenMeshNetworkTimeoutHandler)
    /\ WF_m(LinkDone)

-----------------------------------------------------------------------------
(* Properties *)

\* The manager keeps its type; a call has its history.
TypeOK ==
    /\ m \in Manager
    /\ Len(m.told) = Len(m.kind)

\* Every call is answered once, or will be: its completion is called once
\* and then forgotten, or it is still held, in one place, or it was thrown
\* away by deinitMeshLibrary or by the onLinkStatus that called the
\* completion that registered it.
OneAnswerEach ==
    \A id \in DOMAIN m.told :
        Len(m.told[id]) +
        Cardinality({i \in DOMAIN m.waiters : m.waiters[i] = id}) +
        (IF m.slot = id THEN 1 ELSE 0) +
        (IF id \in m.dropped THEN 1 ELSE 0) = 1

\* An open is in progress exactly while its timer runs, although completions
\* call openMeshNetwork again between the two assignments that end one.
SlotHasTimer == m.slot # Nobody <=> m.timer

\* meshClientNetworkOpenCb does not know which open it is told of.  The
\* answer of the library reaches the caller of that very open, unless an
\* earlier open has timed out: from then on they may be one apart for good.
AnswersItsOwn ==
    \A id \in DOMAIN m.told : \A i \in DOMAIN m.told[id] :
        \/ m.told[id][i].of \in {Nobody, id}
        \/ \E j \in 1..(id - 1) : Answer("timeout") \in ToSet(m.told[j])

\* Every call is answered at last, even if the library never reports an
\* open, or the network is closed meanwhile; except those thrown away.
EveryCallIsAnswered ==
    \A id \in Calls :
        Len(m.kind) >= id
            ~> IF id \in DOMAIN m.told
               THEN m.told[id] # <<>> \/ id \in m.dropped ELSE FALSE

=============================================================================
