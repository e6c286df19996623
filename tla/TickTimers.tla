----------------------------- MODULE TickTimers -----------------------------
(***************************************************************************)
(* The timers of the Windows client (Windows/mesh_libs/mesh_main.c): a     *)
(* list of the active timers in the order of their target times, and a     *)
(* thread that sleeps until the first of them.                             *)
(*                                                                         *)
(* Target times are 64 bits wide and are made of the 32-bit tick count and *)
(* of absTimeHi, which the thread advances when it finds that the count    *)
(* has rolled over.  wiced_start_timer, wiced_stop_timer and the thread's  *)
(* look at the clock and the list exclude each other (the critical section *)
(* cs), but the thread decides how long to sleep without the lock, and the *)
(* callback is posted to the window's message queue after the lock is      *)
(* released.  The mesh library and its callbacks run on the UI thread.     *)
(***************************************************************************)
EXTENDS Integers, SequencesExt

CONSTANTS
    Timers,        \* the wiced_timer_t of the mesh library
    Periodic,      \* those of a periodic type
    Seconds,       \* those of a type that counts seconds
    MsPerSecond,   \* ticks in a second
    Timeouts,      \* the timeout values wiced_start_timer is called with
    IdleSleep,     \* how long the thread sleeps when no timer is active
    Wrap,          \* the tick count rolls over here
    MaxNow,        \* bound on the time modelled
    MaxStarts,     \* bound on calls of wiced_start_timer
    MaxPosted      \* bound on the messages of the window: the thread waits

\* the timeout in ticks, which the code keeps in 32 bits
Millis(t, n) == IF t \in Seconds THEN n * MsPerSecond ELSE n

ASSUME TimersAssumption == Periodic \subseteq Timers /\ Seconds \subseteq Timers
ASSUME ClockAssumption ==
    /\ Wrap \in Nat \ {0} /\ IdleSleep \in 1 .. Wrap - 1 /\ MsPerSecond \in Nat
    /\ {MaxNow, MaxStarts, MaxPosted} \subseteq Nat
\* "this assumes no timer is more than 49 days"
ASSUME TimeoutAssumption ==
    /\ Timeouts \subseteq Nat
    /\ \A t \in Timers, n \in Timeouts : Millis(t, n) \in 0 .. Wrap - 1

VARIABLES
    hi, tick,        \* the real time is hi + tick; GetTickCount returns tick
    absTimeHi,       \* the roll-overs the thread has counted, in ticks
    queue,           \* the list at pOsTimerHead
    active,          \* the timers with TIMER_ACTIVE in their flags
    target,          \* target_time of each timer
    interval,        \* the timeout each timer was started with
    event,           \* is the auto-reset event sleepHandle signalled
    pc,              \* where the thread is
    last_tc, seen, sleep_time,   \* its locals; seen: the head it found
    waitFrom,        \* when it began to wait
    taken,           \* the timer whose callback it has yet to post
    owes,            \* the UI thread has left cs and not yet called SetEvent
    posted,          \* WM_TIMER_CALLBACK messages of the window
    starts,          \* calls of wiced_start_timer so far
    due,             \* history: the real time each timer should expire
    lag              \* history: the roll-overs that the thread had not counted
                     \* when each timer was started, in ticks

clock  == <<hi, tick>>
timers == <<queue, active, target, interval, due, lag>>
thread == <<pc, last_tc, seen, sleep_time, waitFrom, taken>>
client == <<owes, posted, starts>>
vars   == <<clock, absTimeHi, timers, event, thread, client>>

now == hi + tick
-----------------------------------------------------------------------------
(* The list                                                                *)

\* (mutant of Place: every timer goes to the end)
PlaceLast(q, time) == Len(q) + 1

\* where a timer goes: before the first one with a later target time
Place(q, time) == CHOOSE i \in 1 .. Len(q) + 1 :
                     /\ \A j \in 1 .. i - 1 : target[q[j]] =< time
                     /\ i =< Len(q) => target[q[i]] > time

\* the sum of two 32-bit values
Add32(a, b) == IF a + b >= Wrap THEN a + b - Wrap ELSE a + b

\* (mutant of TargetTime: the roll-over of expire_tc is not added)
TargetTimeShort(t, n) == absTimeHi + Add32(tick, Millis(t, n))

\* the 64-bit time at which a timer started now expires
TargetTime(t, n) ==
    LET expire_tc == Add32(tick, Millis(t, n))
    IN  absTimeHi + expire_tc + IF expire_tc < tick THEN Wrap ELSE 0

\* (mutant of Unlink: the flag stays)
UnlinkOnly(t) == /\ queue' = RemoveFirst(queue, t)
                 /\ UNCHANGED <<active, target, interval, due, lag>>

\* wiced_stop_timer, under the lock
Unlink(t) == /\ queue' = RemoveFirst(queue, t)
             /\ active' = active \ {t}
             /\ UNCHANGED <<target, interval, due, lag>>

\* the rest of wiced_start_timer, once the timer is in its place
Armed(t, n, time) ==
    /\ active' = active \cup {t}
    /\ target' = [target EXCEPT ![t] = time]
    /\ interval' = [interval EXCEPT ![t] = n]
    /\ due' = [due EXCEPT ![t] = now + Millis(t, n)]
    /\ lag' = [lag EXCEPT ![t] = hi - absTimeHi]

\* (mutant of Arm: the timer is not stopped first)
ArmAgain(t, n) ==
    LET time == TargetTime(t, n)
    IN  queue' = InsertAt(queue, Place(queue, time), t) /\ Armed(t, n, time)

\* wiced_start_timer, under the lock: stops the timer first
Arm(t, n) ==
    LET time == TargetTime(t, n)
        rest == RemoveFirst(queue, t)
    IN  queue' = InsertAt(rest, Place(rest, time), t) /\ Armed(t, n, time)

Init ==
    /\ hi = 0 /\ tick \in 0 .. Wrap - 1 /\ absTimeHi = 0
    /\ queue = <<>> /\ active = {}
    /\ target = [t \in Timers |-> 0]
    /\ interval = [t \in Timers |-> 0]
    /\ due = [t \in Timers |-> 0]
    /\ lag = [t \in Timers |-> 0]
    /\ event = FALSE
    /\ pc = "off" /\ last_tc = 0 /\ seen = {} /\ sleep_time = 0 /\ waitFrom = 0
    /\ taken = <<>> /\ posted = <<>> /\ owes = FALSE /\ starts = 0

-----------------------------------------------------------------------------
(* The UI thread                                                           *)

\* the UI thread can be in the timers' code: the process lives, the thread
\* does not hold cs, and the call before has returned
Calls == pc \notin {"restart", "crashed"} /\ ~owes

\* wiced_start_timer; the first call creates the thread.  The wiced_stop_timer
\* in it signals the event before cs is left, the call itself afterwards.
Start(t, n) ==
    /\ Calls
    /\ starts < MaxStarts
    /\ Arm(t, n)
    /\ event' = TRUE
    /\ owes' = TRUE
    /\ starts' = starts + 1
    /\ pc' = IF pc = "off" THEN "loop" ELSE pc
    /\ UNCHANGED <<clock, absTimeHi, last_tc, seen, sleep_time, waitFrom, taken, posted>>

\* wiced_stop_timer, wiced_release_timer
Stop(t) ==
    /\ Calls
    /\ Unlink(t)
    /\ owes' = TRUE
    /\ UNCHANGED <<clock, absTimeHi, event, thread, posted, starts>>

\* SetEvent, the last statement of either call; without an event before the
\* thread is created
Signal ==
    /\ owes /\ pc # "crashed"
    /\ owes' = FALSE
    /\ event' = (pc # "off")
    /\ UNCHANGED <<clock, absTimeHi, timers, thread, posted, starts>>

\* OnTimerCallback
RunCallback ==
    /\ Calls /\ posted # <<>>
    /\ posted' = Tail(posted)
    /\ UNCHANGED <<clock, absTimeHi, timers, event, thread, owes, starts>>

-----------------------------------------------------------------------------
(* timerThread.  A local that is not read again is reset.                  *)

ReadTick ==
    /\ pc = "loop"
    /\ last_tc' = tick
    /\ pc' = "look"
    /\ UNCHANGED <<clock, absTimeHi, timers, event, seen, sleep_time, waitFrom, taken, client>>

\* the thread waits for a signal, but not longer than n
Wait(n) == pc' = "wait" /\ sleep_time' = n /\ waitFrom' = now

\* is there a first timer
Look ==
    /\ pc = "look"
    /\ IF queue = <<>>
       THEN Wait(IdleSleep) /\ seen' = {}
       ELSE pc' = "compare" /\ seen' = {Head(queue)} /\ UNCHANGED <<sleep_time, waitFrom>>
    /\ UNCHANGED <<clock, absTimeHi, timers, event, last_tc, taken, client>>

\* pOsTimerHead is read again without the lock, or was kept in a register
HeadsSeen == seen \cup (IF queue = <<>> THEN {} ELSE {Head(queue)})

\* has its time come
Compare ==
    /\ pc = "compare"
    /\ \E t \in HeadsSeen :
          IF target[t] < absTimeHi + last_tc THEN pc' = "lock" /\ seen' = {}
                                             ELSE pc' = "subtract" /\ seen' = {t}
    /\ UNCHANGED <<clock, absTimeHi, timers, event, last_tc, sleep_time, waitFrom,
                   taken, client>>

\* (mutant of Subtract: the event is reset before the wait)
SubtractAndReset ==
    /\ pc = "subtract"
    /\ \E t \in HeadsSeen :
          LET n == (target[t] - (absTimeHi + last_tc)) % Wrap
          IN  IF n = 0 THEN pc' = "lock" /\ UNCHANGED <<sleep_time, waitFrom>> ELSE Wait(n)
    /\ seen' = {}
    /\ event' = FALSE
    /\ UNCHANGED <<clock, absTimeHi, timers, last_tc, taken, client>>

\* how long until then; the difference is cast to 32 bits
Subtract ==
    /\ pc = "subtract"
    /\ \E t \in HeadsSeen :
          LET n == (target[t] - (absTimeHi + last_tc)) % Wrap
          IN  IF n = 0 THEN pc' = "lock" /\ UNCHANGED <<sleep_time, waitFrom>> ELSE Wait(n)
    /\ seen' = {}
    /\ UNCHANGED <<clock, absTimeHi, timers, event, last_tc, taken, client>>

\* the head that is read again may be gone: a read through a null pointer
Crash ==
    /\ pc \in {"compare", "subtract"}
    /\ queue = <<>>
    /\ pc' = "crashed"
    /\ UNCHANGED <<clock, absTimeHi, timers, event, last_tc, seen, sleep_time, waitFrom,
                   taken, client>>

Wake ==
    /\ pc = "wait"
    /\ event \/ now - waitFrom >= sleep_time
    /\ event' = FALSE
    /\ pc' = "lock"
    /\ sleep_time' = 0 /\ waitFrom' = 0
    /\ UNCHANGED <<clock, absTimeHi, timers, last_tc, seen, taken, client>>

\* (mutant of Rollover: an unchanged tick count is taken for a roll-over)
RolloverOrEqual == IF tick =< last_tc THEN absTimeHi + Wrap ELSE absTimeHi

\* absTimeHi, once the thread has compared the tick count with the last one
Rollover == IF tick < last_tc THEN absTimeHi + Wrap ELSE absTimeHi

\* the first timer has expired
Expired(time) == queue # <<>> /\ target[Head(queue)] =< time

\* under the lock: a one-shot timer is stopped, with a SetEvent
Check ==
    /\ pc = "lock"
    /\ absTimeHi' = Rollover
    /\ \/ /\ ~Expired(Rollover + tick)
          /\ pc' = "loop"
          /\ UNCHANGED <<timers, event, taken>>
       \/ /\ Expired(Rollover + tick)
          /\ Head(queue) \in Periodic
          /\ pc' = "restart"
          /\ UNCHANGED <<timers, event, taken>>
       \/ /\ Expired(Rollover + tick)
          /\ Head(queue) \notin Periodic
          /\ Unlink(Head(queue))
          /\ event' = TRUE
          /\ taken' = <<Head(queue)>>
          /\ pc' = "post"
    /\ UNCHANGED <<clock, last_tc, seen, sleep_time, waitFrom, client>>

\* still under the lock: a periodic timer is started again, from a later tick
Restart ==
    /\ pc = "restart"
    /\ Arm(Head(queue), interval[Head(queue)])
    /\ event' = TRUE
    /\ taken' = <<Head(queue)>>
    /\ pc' = "post"
    /\ UNCHANGED <<clock, absTimeHi, last_tc, seen, sleep_time, waitFrom, client>>

\* execute_timer_callback: PostMessage
PostCallback ==
    /\ pc = "post"
    /\ Len(posted) < MaxPosted
    /\ posted' = posted \o taken
    /\ taken' = <<>>
    /\ pc' = "loop"
    /\ UNCHANGED <<clock, absTimeHi, timers, event, last_tc, seen, sleep_time, waitFrom,
                   owes, starts>>

\* time passes
Tick ==
    /\ now < MaxNow /\ pc # "crashed"
    /\ IF tick = Wrap - 1 THEN tick' = 0 /\ hi' = hi + Wrap
                          ELSE tick' = tick + 1 /\ hi' = hi
    /\ UNCHANGED <<absTimeHi, timers, event, thread, client>>

Next ==
    \/ \E t \in Timers : Stop(t) \/ \E n \in Timeouts : Start(t, n)
    \/ Signal \/ RunCallback
    \/ ReadTick \/ Look \/ Compare \/ Subtract \/ Crash
    \/ Wake \/ Check \/ Restart \/ PostCallback
    \/ Tick

Spec == Init /\ [][Next]_vars

-----------------------------------------------------------------------------
(* Properties                                                              *)

\* The type invariant.
TypeOK ==
    /\ {hi, absTimeHi, sleep_time, waitFrom, starts} \subseteq Nat
    /\ {tick, last_tc} \subseteq 0 .. Wrap - 1
    /\ queue \in Seq(Timers) /\ posted \in Seq(Timers)
    /\ active \subseteq Timers /\ seen \subseteq Timers
    /\ {target, due, lag} \subseteq [Timers -> Nat]
    /\ interval \in [Timers -> Timeouts \cup {0}]
    /\ {event, owes} \subseteq BOOLEAN
    /\ pc \in {"off", "loop", "look", "compare", "subtract", "wait", "lock", "restart",
               "post", "crashed"}
    /\ taken = <<>> \/ \E t \in Timers : taken = <<t>>

\* The list holds the timers whose flags say that they are active, each of
\* them once, the earliest target time first: starts, stops and expiries from
\* two threads neither lose a timer nor link it twice.
ListIsSound ==
    /\ \A t \in Timers : t \in active <=> \E i \in 1 .. Len(queue) : queue[i] = t
    /\ \A i, j \in 1 .. Len(queue) :
          i < j => queue[i] # queue[j] /\ target[queue[i]] =< target[queue[j]]

\* A wait that no signal is going to end ends in time for the first timer: it
\* is not longer than what was left of that timer when the thread read the
\* clock, though the head was read without the lock (no lost wake-up).
NeverOversleeps ==
    pc = "wait" /\ ~event /\ ~owes /\ queue # <<>>
       => sleep_time =< target[Head(queue)] - (absTimeHi + last_tc)

\* The thread never counts a roll-over that has not happened.
CountsNoFalseRollover == absTimeHi =< hi

\* the thread has counted the roll-overs since t was started, and no others
Counted(t) == hi - absTimeHi' = lag[t]

\* The thread never takes a timer from the list before its time, in either
\* period of the tick count, unless it counts, after the timer was started, a
\* roll-over from before.
NeverEarlyIfCounted ==
    [][ \A t \in Timers : pc = "lock" /\ pc' \in {"post", "restart"}
                          /\ t = Head(queue) /\ Counted(t) => due[t] =< now ]_vars

\* The thread does not go back to sleep over a timer whose time has come,
\* whatever else is in the list, unless it missed a roll-over since the timer
\* was started.
NothingOverlookedIfCounted ==
    [][ pc = "lock" /\ pc' = "loop"
           => \A t \in active : Counted(t) => now < due[t] ]_vars

\* The list, the thread and the message queue are a timer service: no callback
\* without an expiry, none for a timer that was stopped in time, one for each
\* start of a one-shot timer, in the order of the expiries.
Service == INSTANCE TimerService WITH running <- active, calls <- posted \o taken
ImplementsService == Service!Spec

-----------------------------------------------------------------------------
(* What a comment of the code promises, and it does not do                 *)

\* "Check for rollover of the 32-bit tick count" (mesh_main.c:280): a timer
\* that is started after a roll-over does not expire before its time either.
NeverEarly ==
    [][ \A t \in Timers : pc = "lock" /\ pc' \in {"post", "restart"}
                          /\ t = Head(queue) => due[t] =< now ]_vars
=============================================================================
