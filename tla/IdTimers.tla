------------------------------ MODULE IdTimers ------------------------------
(***************************************************************************)
(* The timers of the Android library (jni/mesh_libs/mesh_main.c,           *)
(* native-lib.c and the Handler of MeshNativeHelper.java) and of the iOS   *)
(* framework (libwicedmesh/src/mesh_main.c and MeshNativeHelper.m).        *)
(*                                                                         *)
(* Both keep a list of the running timers and know each of them to the     *)
(* operating system by a 32-bit id: the "what" of a delayed message on     *)
(* Android, the key of an NSTimer on iOS.  An expiry brings the id, and    *)
(* MeshTimerFunc looks the timer up in the list.  Android takes a new id   *)
(* for every start, without a look at those in use, and forgets it when    *)
(* the timer is stopped; iOS keeps the id of a timer that is started again *)
(* while it runs, takes only ids without an NSTimer, and remembers the id  *)
(* of a stopped timer.                                                     *)
(*                                                                         *)
(* The application calls the library from any thread on Android, so that a *)
(* timer may be stopped or started while an expiry waits for the lock; on  *)
(* iOS the calls and the expiries share the main run loop.  When a timer   *)
(* expires is left open: time is not modelled.                             *)
(***************************************************************************)
EXTENDS Integers, Sequences

CONSTANTS
    Timers,      \* the wiced_timer_t of the mesh library
    Periodic,    \* those of a periodic type
    MaxId,       \* the ids are 1 .. MaxId; 0 is none
    MaxStarts    \* bound on calls of wiced_start_timer

Ids == 1 .. MaxId

ASSUME IdTimersAssumption == Periodic \subseteq Timers
ASSUME IdsAssumption == MaxId \in Nat \ {0} /\ MaxStarts \in Nat

VARIABLES
    build,       \* the application: "android" or "ios"
    id,          \* idTimer of each timer
    listed,      \* the list at wiced_timer_first
    next,        \* the next id: timer_id, gMeshTimerId
    armed,       \* how many delayed messages, or NSTimers, have an id
    dispatched,  \* the id of the expiry that MeshTimerFunc is called for
    calls,       \* the timer whose callback MeshTimerFunc is about to call
    starts,      \* calls of wiced_start_timer so far
    due,         \* history: the timers that the dispatched expiry is meant for:
                 \* not stopped and not started since it left the queue
    clash        \* history: was an id given out that was still in use or
                 \* remembered (after all 2^32 were)

list == <<id, listed, armed>>
vars == <<build, list, next, dispatched, calls, starts, due, clash>>

-----------------------------------------------------------------------------
(* Ids                                                                     *)

\* the counter after i was given out: 0 is skipped
Succ(i) == IF i = MaxId THEN 1 ELSE i + 1

\* is j met before i when the ids are tried in turn, from "next" on
Before(j, i) == IF next =< i THEN next =< j /\ j < i ELSE next =< j \/ j < i

\* start_timer gives i to t, whose old id was released before
Allocates(t, i) ==
    LET free(j) == armed[j] = 0 \/ j = id[t]
    IN  IF build = "android" THEN i = next
        ELSE free(i) /\ \A j \in Ids : Before(j, i) => ~free(j)

-----------------------------------------------------------------------------
(* The library's calls                                                     *)

Init ==
    /\ build \in {"android", "ios"}
    /\ id = [t \in Timers |-> 0]
    /\ listed = {}
    /\ next = 1
    /\ armed = [i \in 0 .. MaxId |-> 0]
    /\ dispatched = 0
    /\ calls = <<>>
    /\ starts = 0
    /\ due = {}
    /\ clash = FALSE

\* the lock is free and, on iOS, so is the main thread
CanCall == calls = <<>> /\ (build = "ios" => dispatched = 0)

\* stop_timer: no expiry comes any more under the id of t
Released(t) == [armed EXCEPT ![id[t]] = 0]

\* (mutant of Unlink: the operating system is not told)
UnlinkQuietly(t) ==
    /\ listed' = listed \ {t}
    /\ id' = IF build = "android" THEN [id EXCEPT ![t] = 0] ELSE id
    /\ armed' = armed

\* wiced_stop_timer, under the lock.  On iOS the id of a timer that is not in
\* the list is stopped as well, whoever has it by now.
Unlink(t) ==
    /\ listed' = listed \ {t}
    /\ armed' = Released(t)
    /\ id' = IF build = "android" THEN [id EXCEPT ![t] = 0] ELSE id

StopTimer(t) ==
    /\ CanCall
    /\ Unlink(t)
    /\ due' = due \ {t}
    /\ UNCHANGED <<build, next, dispatched, calls, starts, clash>>

\* wiced_deinit_timer and wiced_init_timer, which on Android leave a timer that
\* is not running as it is
DeinitTimer(t) ==
    /\ CanCall /\ build = "ios"
    /\ listed' = listed \ {t}
    /\ armed' = IF t \in listed THEN Released(t) ELSE armed
    /\ id' = [id EXCEPT ![t] = 0]
    /\ due' = due \ {t}
    /\ UNCHANGED <<build, next, dispatched, calls, starts, clash>>

\* (mutant of Restarts: a running timer keeps its id on Android as well)
RestartsListed(t) == t \in listed

\* restart_timer finds the NSTimer of a timer that is in the list
Restarts(t) == build = "ios" /\ t \in listed /\ armed[id[t]] > 0

\* wiced_start_timer of a running timer on iOS: a new NSTimer with the old id
RestartTimer(t) ==
    /\ CanCall /\ starts < MaxStarts
    /\ Restarts(t)
    /\ starts' = starts + 1
    /\ due' = due \ {t}
    /\ UNCHANGED <<build, list, next, dispatched, calls, clash>>

\* is i the id of another timer, running or not, or of an expiry under way
InUse(t, i) == i = dispatched \/ \E s \in Timers \ {t} : id[s] = i

\* wiced_start_timer otherwise: the timer is stopped, and started with a new id
StartTimer(t) ==
    /\ CanCall /\ starts < MaxStarts
    /\ ~Restarts(t)
    /\ \E i \in Ids :
          /\ Allocates(t, i)
          /\ id' = [id EXCEPT ![t] = i]
          /\ armed' = [Released(t) EXCEPT ![i] = @ + 1]
          /\ next' = Succ(i)
          /\ clash' = IF InUse(t, i) THEN TRUE ELSE clash
    /\ listed' = listed \cup {t}
    /\ starts' = starts + 1
    /\ due' = due \ {t}
    /\ UNCHANGED <<build, dispatched, calls>>

-----------------------------------------------------------------------------
(* Expiries                                                                *)

\* the looper takes a message, or the run loop finds an NSTimer that has fired
Dispatch(i) ==
    /\ dispatched = 0 /\ calls = <<>>
    /\ armed[i] > 0
    /\ dispatched' = i
    /\ due' = {t \in listed : id[t] = i}
    /\ armed' = IF build = "android" THEN [armed EXCEPT ![i] = @ - 1] ELSE armed
    /\ UNCHANGED <<build, id, listed, next, calls, starts, clash>>

\* (mutant of Rearm: nothing for the next period)
RearmNot(t) == UNCHANGED list

\* restart_timer for the next period of t: another message, or an NSTimer in the
\* place of the old one
Rearm(t) ==
    /\ armed' = IF build = "android" THEN [armed EXCEPT ![id[t]] = @ + 1] ELSE armed
    /\ UNCHANGED <<id, listed>>

\* (mutant of Expire: a one-shot timer stays in the list)
ExpireOnly(t) == Rearm(t) /\ calls' = <<t>>

\* MeshTimerFunc has found t and is about to call its callback
Expire(t) ==
    /\ IF t \in Periodic THEN Rearm(t) ELSE Unlink(t)
    /\ calls' = <<t>>

\* MeshTimerFunc, under the lock.  Two timers have the same id only after a
\* clash; which of them comes first in the list is left open.
MeshTimerFunc ==
    /\ dispatched # 0 /\ calls = <<>>
    /\ \/ \E t \in listed : id[t] = dispatched /\ Expire(t)
       \/ /\ \A t \in listed : id[t] # dispatched
          /\ UNCHANGED <<list, calls>>
    /\ dispatched' = 0
    /\ due' = {}
    /\ UNCHANGED <<build, next, starts, clash>>

\* the callback is called; what it starts and stops are calls like any others
Callback ==
    /\ calls # <<>>
    /\ calls' = <<>>
    /\ UNCHANGED <<build, list, next, dispatched, starts, due, clash>>

Next ==
    \/ \E t \in Timers : StopTimer(t) \/ DeinitTimer(t) \/ RestartTimer(t) \/ StartTimer(t)
    \/ \E i \in Ids : Dispatch(i)
    \/ MeshTimerFunc \/ Callback

Spec == Init /\ [][Next]_vars

\* the looper serves its messages, and the run loop its timers, in the order of
\* their times, so that none is passed over for ever
Fairness == /\ WF_vars(MeshTimerFunc) /\ WF_vars(Callback)
            /\ \A i \in Ids : SF_vars(Dispatch(i))
FairSpec == Spec /\ Fairness

-----------------------------------------------------------------------------
(* Properties                                                              *)

\* The type invariant.
TypeOK ==
    /\ build \in {"android", "ios"}
    /\ id \in [Timers -> 0 .. MaxId]
    /\ listed \subseteq Timers /\ due \subseteq Timers
    /\ next \in Ids
    /\ armed \in [0 .. MaxId -> Nat]
    /\ dispatched \in 0 .. MaxId
    /\ calls = <<>> \/ \E t \in Timers : calls = <<t>>
    /\ starts \in 0 .. MaxStarts
    /\ clash \in BOOLEAN

\* the expiries of id i that will reach MeshTimerFunc
Coming(i) == armed[i] + IF build = "android" /\ dispatched = i THEN 1 ELSE 0

\* Until the ids are used up, exactly one expiry is on its way for each timer in
\* the list, under an id of its own, and none for a timer that is not, except
\* the one that waits for the lock: no timer of the library is left without the
\* message or NSTimer that ends it, or with two, however starts, stops and
\* expiries interleave.
OneExpiryEach ==
    ~clash =>
       /\ \A t \in listed : id[t] # 0 /\ Coming(id[t]) = 1
       /\ \A s, t \in listed : id[s] = id[t] => s = t
       /\ \A i \in Ids : armed[i] > 0 => \E t \in listed : id[t] = i

\* Until the ids are used up, a callback is called only for an expiry of the
\* last start: an expiry that was on its way when its timer was stopped or
\* started again is dropped.
NoStaleExpiry ==
    [][ \A t \in Timers : calls = <<>> /\ calls' = <<t>> /\ ~clash => t \in due ]_vars

\* The list and the expiries are a timer service: no callback without a start,
\* one for each start of a one-shot timer, none after a stop.
Service == INSTANCE TimerService WITH running <- listed
ImplementsService == Service!Spec

\* Until the ids are used up, a timer that is left running is served.
ExpiryIsServed ==
    \A t \in Timers :
       t \in listed /\ ~clash ~> calls = <<t>> \/ t \notin listed \/ clash
=============================================================================
