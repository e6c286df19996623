--------------------------- MODULE IdTimersProofs ---------------------------
(***************************************************************************)
(* What holds of the Android and iOS timers for any number of timers and   *)
(* ids.                                                                    *)
(***************************************************************************)
EXTENDS IdTimers, TLAPS

-----------------------------------------------------------------------------
(* Types                                                                   *)

LEMMA SuccType == \A i \in Ids : Succ(i) \in Ids
  BY IdsAssumption DEF Ids, Succ

LEMMA TypeInit == Init => TypeOK
<1> SUFFICES ASSUME Init PROVE TypeOK
  OBVIOUS
<1>1. id \in [Timers -> 0 .. MaxId] /\ armed \in [0 .. MaxId -> Nat]
  BY IdsAssumption DEF Init
<1>2. next \in Ids /\ dispatched \in 0 .. MaxId /\ starts \in 0 .. MaxStarts
  BY IdsAssumption DEF Init, Ids
<1>3. calls = <<>> /\ clash \in BOOLEAN
  BY DEF Init
<1> QED
  BY <1>1, <1>2, <1>3 DEF Init, TypeOK

LEMMA TypeStep == TypeOK /\ [Next]_vars => TypeOK'
<1> SUFFICES ASSUME TypeOK, [Next]_vars PROVE TypeOK'
  OBVIOUS
<1> USE IdTimersAssumption, IdsAssumption
<1>1. ASSUME NEW t \in Timers, StopTimer(t) PROVE TypeOK'
  BY <1>1 DEF TypeOK, StopTimer, Unlink, Released, Ids
<1>2. ASSUME NEW t \in Timers, DeinitTimer(t) PROVE TypeOK'
  BY <1>2 DEF TypeOK, DeinitTimer, Released, Ids
<1>3. ASSUME NEW t \in Timers, RestartTimer(t) PROVE TypeOK'
  BY <1>3 DEF TypeOK, RestartTimer, list, Ids
<1>4. ASSUME NEW t \in Timers, StartTimer(t) PROVE TypeOK'
  <2> PICK i \in Ids : /\ id' = [id EXCEPT ![t] = i]
                       /\ armed' = [Released(t) EXCEPT ![i] = @ + 1]
                       /\ next' = Succ(i)
    BY <1>4 DEF StartTimer
  <2>0. /\ listed' = listed \cup {t} /\ due' = due \ {t}
        /\ starts' = starts + 1 /\ starts < MaxStarts
        /\ UNCHANGED <<build, dispatched, calls>>
    BY <1>4 DEF StartTimer
  <2>1. next' \in Ids
    BY SuccType
  <2>2. armed' \in [0 .. MaxId -> Nat]
    <3>1. Released(t) \in [0 .. MaxId -> Nat]
      BY DEF TypeOK, Released
    <3>2. Released(t)[i] + 1 \in Nat
      BY <3>1 DEF Ids
    <3> QED
      BY <3>1, <3>2 DEF Ids
  <2>3. clash' \in BOOLEAN
    <3>1. clash' = TRUE \/ clash' = clash
      BY <1>4 DEF StartTimer
    <3> QED
      BY <3>1, Zenon DEF TypeOK
  <2> QED
    BY <2>0, <2>1, <2>2, <2>3 DEF TypeOK, Ids
<1>5. ASSUME NEW i \in Ids, Dispatch(i) PROVE TypeOK'
  BY <1>5 DEF TypeOK, Dispatch, Ids
<1>6. CASE MeshTimerFunc
  <2>1. ASSUME NEW t \in listed, Expire(t) PROVE TypeOK'
    BY <1>6, <2>1 DEF TypeOK, MeshTimerFunc, Expire, Rearm, Unlink, Released, Ids
  <2>2. CASE UNCHANGED <<list, calls>>
    BY <1>6, <2>2 DEF TypeOK, MeshTimerFunc, list, Ids
  <2> QED
    BY <1>6, <2>1, <2>2 DEF MeshTimerFunc
<1>7. CASE Callback
  BY <1>7 DEF TypeOK, Callback, list, Ids
<1>8. CASE UNCHANGED vars
  BY <1>8 DEF TypeOK, vars, list, Ids
<1> QED
  BY <1>1, <1>2, <1>3, <1>4, <1>5, <1>6, <1>7, <1>8 DEF Next

\* Every variable keeps its type, on both platforms.
THEOREM TypeCorrect == Spec => []TypeOK
  BY TypeInit, TypeStep, PTL DEF Spec

-----------------------------------------------------------------------------
(* Expiries                                                                *)

\* 0 is the id of no message; a timer in the list has an id and, on Android,
\* no other timer has one
IdsKept ==
    /\ armed[0] = 0
    /\ \A t \in listed : id[t] # 0
    /\ build = "android" => \A t \in Timers \ listed : id[t] = 0

\* no two timers have, or remember, the same id
IdsApart == \A s, t \in Timers : s # t /\ id[s] = id[t] => id[s] = 0

\* OneExpiryEach, without the condition
OneComing ==
    /\ \A t \in listed : Coming(id[t]) = 1
    /\ \A i \in Ids : armed[i] > 0 => \E t \in listed : id[t] = i

\* the expiry that waits for the lock is meant for the timer that has its id
StillDue == dispatched # 0 => \A t \in listed : id[t] = dispatched => t \in due

\* The inductive invariant: OneExpiryEach and NoStaleExpiry need that the ids
\* that stopped timers remember are apart from the others, too.
IInv == TypeOK /\ IdsKept /\ (~clash => IdsApart /\ OneComing /\ StillDue)

LEMMA IInvInit == Init => IInv
  BY IdsAssumption DEF Init, IInv, TypeOK, IdsKept, IdsApart, OneComing, StillDue, Ids

LEMMA IInvStop ==
    ASSUME IInv, NEW t \in Timers, StopTimer(t)
    PROVE  IdsKept' /\ (~clash => (IdsApart /\ OneComing /\ StillDue)')
<1> USE IdsAssumption DEF Ids, IInv, TypeOK, StopTimer, Unlink, Released
<1>1. IdsKept'
  BY DEF IdsKept
<1> SUFFICES ASSUME ~clash PROVE (IdsApart /\ OneComing /\ StillDue)'
  BY <1>1
<1>2. IdsApart'
  BY DEF IdsApart
<1>3. OneComing'
  BY DEF CanCall, IdsKept, IdsApart, OneComing, Coming
<1>4. StillDue'
  BY DEF StillDue
<1> QED
  BY <1>2, <1>3, <1>4

LEMMA IInvDeinit ==
    ASSUME IInv, NEW t \in Timers, DeinitTimer(t)
    PROVE  IdsKept' /\ (~clash => (IdsApart /\ OneComing /\ StillDue)')
<1> USE IdsAssumption DEF Ids, IInv, TypeOK, DeinitTimer, Released
<1>1. IdsKept'
  BY DEF IdsKept
<1> SUFFICES ASSUME ~clash PROVE (IdsApart /\ OneComing /\ StillDue)'
  BY <1>1
<1>2. IdsApart'
  BY DEF IdsApart
<1>3. OneComing'
  BY DEF CanCall, IdsKept, IdsApart, OneComing, Coming
<1>4. StillDue'
  BY DEF StillDue
<1> QED
  BY <1>2, <1>3, <1>4

LEMMA IInvStart ==
    ASSUME IInv, NEW t \in Timers, StartTimer(t)
    PROVE  IdsKept' /\ (~clash' => (IdsApart /\ OneComing /\ StillDue)')
<1> USE IdsAssumption DEF Ids, IInv, TypeOK
<1> PICK i \in Ids : /\ Allocates(t, i)
                     /\ id' = [id EXCEPT ![t] = i]
                     /\ armed' = [Released(t) EXCEPT ![i] = @ + 1]
                     /\ clash' = IF InUse(t, i) THEN TRUE ELSE clash
  BY DEF StartTimer
<1>0. /\ listed' = listed \cup {t} /\ due' = due \ {t}
      /\ UNCHANGED <<build, dispatched, calls>>
      /\ CanCall
  BY DEF StartTimer
<1>1. \A j \in 0 .. MaxId : armed'[j] = IF j = i THEN Released(t)[j] + 1 ELSE Released(t)[j]
  BY DEF Released
<1>2. \A j \in 0 .. MaxId : Released(t)[j] = IF j = id[t] THEN 0 ELSE armed[j]
  BY DEF Released
<1>3. IdsKept'
  BY <1>0, <1>1, <1>2 DEF IdsKept
<1> SUFFICES ASSUME ~clash' PROVE (IdsApart /\ OneComing /\ StillDue)'
  BY <1>3
<1>4. ~clash /\ ~InUse(t, i)
  BY Zenon
<1>5. IdsApart'
  BY <1>4 DEF IdsApart, InUse
<1>6. Released(t)[i] = 0
  BY <1>2, <1>4 DEF InUse, OneComing
<1>7. OneComing'
  <2>1. \A s \in listed' : Coming(id[s])' = 1
    BY <1>0, <1>1, <1>2, <1>4, <1>6 DEF CanCall, IdsKept, IdsApart, OneComing, Coming, InUse
  <2>2. \A j \in Ids : armed'[j] > 0 => \E s \in listed' : id'[s] = j
    BY <1>0, <1>1, <1>2, <1>4 DEF OneComing
  <2> QED
    BY <2>1, <2>2 DEF OneComing
<1>8. StillDue'
  BY <1>0, <1>4 DEF StillDue, InUse
<1> QED
  BY <1>4, <1>5, <1>7, <1>8

LEMMA IInvDispatch ==
    ASSUME IInv, NEW i \in Ids, Dispatch(i)
    PROVE  IdsKept' /\ (~clash => (IdsApart /\ OneComing /\ StillDue)')
<1> USE IdsAssumption DEF Ids, IInv, TypeOK, Dispatch
<1>1. IdsKept'
  BY DEF IdsKept
<1> SUFFICES ASSUME ~clash PROVE (IdsApart /\ OneComing /\ StillDue)'
  BY <1>1
<1>2. IdsApart'
  BY DEF IdsApart
<1>3. OneComing'
  BY DEF IdsKept, IdsApart, OneComing, Coming
<1>4. StillDue'
  BY DEF StillDue
<1> QED
  BY <1>2, <1>3, <1>4

LEMMA IInvFunc ==
    ASSUME IInv, MeshTimerFunc
    PROVE  IdsKept' /\ (~clash => (IdsApart /\ OneComing /\ StillDue)')
<1> USE IdsAssumption DEF Ids, IInv, TypeOK, MeshTimerFunc
<1>1. CASE UNCHANGED <<list, calls>> /\ \A t \in listed : id[t] # dispatched
  BY <1>1 DEF list, IdsKept, IdsApart, OneComing, StillDue, Coming
<1>2. ASSUME NEW t \in listed, id[t] = dispatched, Expire(t), t \in Periodic
      PROVE  IdsKept' /\ (~clash => (IdsApart /\ OneComing /\ StillDue)')
  <2>1. id' = id /\ listed' = listed /\ build' = build /\ dispatched' = 0 /\ clash' = clash
    BY <1>2 DEF Expire, Rearm
  <2>2. CASE build = "ios"
    BY <1>2, <2>1, <2>2 DEF Expire, Rearm, IdsKept, IdsApart, OneComing, StillDue, Coming
  <2>3. CASE build = "android"
    <3>1. armed' = [armed EXCEPT ![dispatched] = @ + 1]
      BY <1>2, <2>3 DEF Expire, Rearm
    <3>2. IdsKept'
      BY <2>1, <2>3, <3>1 DEF IdsKept
    <3>3. ASSUME ~clash PROVE (IdsApart /\ StillDue)'
      BY <2>1, <3>3 DEF IdsApart, StillDue
    <3>4. ASSUME ~clash PROVE OneComing'
      BY <1>2, <2>1, <2>3, <3>1, <3>4 DEF IdsApart, IdsKept, OneComing, Coming
    <3> QED
      BY <3>2, <3>3, <3>4
  <2> QED
    BY <2>2, <2>3
<1>3. ASSUME NEW t \in listed, id[t] = dispatched, Expire(t), t \notin Periodic
      PROVE  IdsKept' /\ (~clash => (IdsApart /\ OneComing /\ StillDue)')
  <2>1. /\ listed' = listed \ {t} /\ build' = build /\ dispatched' = 0 /\ clash' = clash
        /\ armed' = [armed EXCEPT ![dispatched] = 0]
        /\ id' = IF build = "android" THEN [id EXCEPT ![t] = 0] ELSE id
    BY <1>3 DEF Expire, Unlink, Released
  <2>2. IdsKept'
    BY <1>3, <2>1 DEF IdsKept
  <2>3. ASSUME ~clash PROVE (IdsApart /\ StillDue)'
    BY <1>3, <2>1, <2>3 DEF IdsApart, StillDue
  <2>4. ASSUME ~clash PROVE OneComing'
    BY <1>3, <2>1, <2>4 DEF IdsApart, IdsKept, OneComing, Coming
  <2> QED
    BY <2>2, <2>3, <2>4
<1> QED
  BY <1>1, <1>2, <1>3

LEMMA IInvStep == IInv /\ [Next]_vars => IInv'
<1> SUFFICES ASSUME IInv, [Next]_vars PROVE IInv'
  OBVIOUS
<1>1. TypeOK'
  BY TypeStep DEF IInv
<1>2. ASSUME NEW t \in Timers, StopTimer(t) PROVE IInv'
  BY <1>1, <1>2, IInvStop DEF IInv, StopTimer
<1>3. ASSUME NEW t \in Timers, DeinitTimer(t) PROVE IInv'
  BY <1>1, <1>3, IInvDeinit DEF IInv, DeinitTimer
<1>4. ASSUME NEW t \in Timers, RestartTimer(t) PROVE IInv'
  <2>1. /\ UNCHANGED <<id, listed, armed, build, dispatched, clash>>
        /\ due' = due \ {t} /\ dispatched = 0
    BY <1>4 DEF RestartTimer, list, CanCall, Restarts
  <2> QED
    BY <1>1, <2>1 DEF IInv, IdsKept, IdsApart, OneComing, Coming, StillDue
<1>5. ASSUME NEW t \in Timers, StartTimer(t) PROVE IInv'
  BY <1>1, <1>5, IInvStart DEF IInv
<1>6. ASSUME NEW i \in Ids, Dispatch(i) PROVE IInv'
  BY <1>1, <1>6, IInvDispatch DEF IInv, Dispatch
<1>7. CASE MeshTimerFunc
  BY <1>1, <1>7, IInvFunc DEF IInv, MeshTimerFunc
<1>8. CASE Callback
  BY <1>1, <1>8 DEF Callback, list, IInv, IdsKept, IdsApart, OneComing, Coming, StillDue
<1>9. CASE UNCHANGED vars
  BY <1>1, <1>9 DEF vars, list, IInv, IdsKept, IdsApart, OneComing, Coming, StillDue
<1> QED
  BY <1>2, <1>3, <1>4, <1>5, <1>6, <1>7, <1>8, <1>9 DEF Next

THEOREM IInvCorrect == Spec => []IInv
<1>1. IInv /\ [Next]_vars => IInv'
  BY IInvStep
<1> QED
  BY <1>1, IInvInit, PTL DEF Spec

\* Until the ids are used up, one expiry is on its way for each timer of the
\* list, and none for the others, for any number of timers and ids.
THEOREM ExpiriesCorrect == Spec => []OneExpiryEach
<1>1. IInv => OneExpiryEach
  <2> SUFFICES ASSUME IInv, ~clash
               PROVE  /\ \A t \in listed : id[t] # 0 /\ Coming(id[t]) = 1
                      /\ \A s, t \in listed : id[s] = id[t] => s = t
                      /\ \A i \in Ids : armed[i] > 0 => \E t \in listed : id[t] = i
    BY DEF OneExpiryEach
  <2>1. listed \subseteq Timers /\ IdsKept /\ IdsApart /\ OneComing
    BY DEF IInv, TypeOK
  <2> QED
    BY <2>1 DEF IdsKept, IdsApart, OneComing
<1> QED
  BY <1>1, IInvCorrect, PTL

\* Until the ids are used up, MeshTimerFunc never calls the callback of a timer
\* for an expiry from before its last stop or start.
THEOREM NoStaleExpiryCorrect == Spec => NoStaleExpiry
<1> DEFINE Good == \A t \in Timers : calls = <<>> /\ calls' = <<t>> /\ ~clash => t \in due
<1>1. IInv /\ [Next]_vars => [Good]_vars
  <2> SUFFICES ASSUME IInv, [Next]_vars, NEW t \in Timers,
                      calls = <<>>, calls' = <<t>>, ~clash
               PROVE  t \in due
    OBVIOUS
  <2>1. calls' # calls
    OBVIOUS
  <2>2. MeshTimerFunc
    BY <2>1 DEF Next, vars, list, StopTimer, DeinitTimer, RestartTimer, StartTimer,
                Dispatch, Callback
  <2>3. \E s \in listed : id[s] = dispatched /\ calls' = <<s>>
    BY <2>1, <2>2 DEF MeshTimerFunc, Expire
  <2>4. t \in listed /\ id[t] = dispatched /\ dispatched # 0
    BY <2>2, <2>3 DEF MeshTimerFunc
  <2> QED
    BY <2>4 DEF IInv, StillDue
<1> QED
  BY <1>1, IInvCorrect, PTL DEF Spec, NoStaleExpiry

\* The list and the expiries are a timer service, clash or not.
THEOREM IdTimersImplementService == Spec => ImplementsService
<1> USE DEF Service!Next, Service!vars, Service!Start, Service!Stop, Service!Expire,
            Service!Call
<1>1. Init => Service!Init
  BY DEF Init, Service!Init
<1>2. TypeOK /\ [Next]_vars => [Service!Next]_<<listed, calls>>
  <2> SUFFICES ASSUME TypeOK, [Next]_vars PROVE [Service!Next]_<<listed, calls>>
    OBVIOUS
  <2>1. ASSUME NEW t \in Timers, StopTimer(t) PROVE Service!Stop(t)
    BY <2>1 DEF StopTimer, Unlink
  <2>2. ASSUME NEW t \in Timers, DeinitTimer(t) PROVE Service!Stop(t)
    BY <2>2 DEF DeinitTimer
  <2>3. ASSUME NEW t \in Timers, RestartTimer(t) PROVE UNCHANGED <<listed, calls>>
    BY <2>3 DEF RestartTimer, list
  <2>4. ASSUME NEW t \in Timers, StartTimer(t) PROVE Service!Start(t)
    BY <2>4 DEF StartTimer
  <2>5. ASSUME NEW i \in Ids, Dispatch(i) PROVE UNCHANGED <<listed, calls>>
    BY <2>5 DEF Dispatch
  <2>6. ASSUME MeshTimerFunc, NEW t \in listed, Expire(t) PROVE Service!Expire(t)
    <3>1. calls = <<>> /\ calls' = Append(calls, t)
      BY <2>6 DEF MeshTimerFunc, Expire
    <3>2. listed' = IF t \in Periodic THEN listed ELSE listed \ {t}
      BY <2>6 DEF Expire, Rearm, Unlink
    <3> QED
      BY <3>1, <3>2
  <2>7. CASE MeshTimerFunc /\ UNCHANGED <<list, calls>>
    BY <2>7 DEF list
  <2>8. CASE Callback
    <3>1. PICK t \in Timers : calls = <<t>>
      BY <2>8 DEF Callback, TypeOK
    <3>2. Tail(calls) = <<>>
      BY <3>1
    <3> QED
      BY <2>8, <3>2 DEF Callback, list
  <2>9. CASE UNCHANGED vars
    BY <2>9 DEF vars, list
  <2> QED
    BY <2>1, <2>2, <2>3, <2>4, <2>5, <2>6, <2>7, <2>8, <2>9 DEF Next, MeshTimerFunc, TypeOK
<1> QED
  BY <1>1, <1>2, TypeCorrect, PTL DEF Spec, ImplementsService, Service!Spec
=============================================================================
