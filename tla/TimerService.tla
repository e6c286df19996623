---------------------------- MODULE TimerService ----------------------------
(***************************************************************************)
(* What the mesh library is promised by the timers an application gives it *)
(* (wiced_start_timer, wiced_stop_timer and the callback), whatever the    *)
(* platform does to keep time.                                             *)
(*                                                                         *)
(* A timer expires only while it runs, a one-shot timer once for each      *)
(* start, and each expiry is one call of its callback, in the order of the *)
(* expiries.  A call that is due is not taken back: the library may stop   *)
(* or restart a timer and still be called for the expiry before.           *)
(***************************************************************************)
EXTENDS Sequences

CONSTANTS Timers, Periodic

VARIABLES
    running,   \* the timers that are in use
    calls      \* the expiries whose callback has not been called yet

vars == <<running, calls>>

Init == running = {} /\ calls = <<>>

Start(t) == /\ running' = running \cup {t}
            /\ UNCHANGED calls

Stop(t) == /\ running' = running \ {t}
           /\ UNCHANGED calls

Expire(t) == /\ t \in running
             /\ running' = IF t \in Periodic THEN running ELSE running \ {t}
             /\ calls' = Append(calls, t)

Call == /\ calls # <<>>
        /\ calls' = Tail(calls)
        /\ UNCHANGED running

Next == Call \/ \E t \in Timers : Start(t) \/ Stop(t) \/ Expire(t)

Spec == Init /\ [][Next]_vars
=============================================================================
