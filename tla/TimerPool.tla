----------------------------- MODULE TimerPool -------------------------------
(***************************************************************************)
(* cth::co::timer_pool (cth_coro/src/coro/utility/timer_pool.hpp), its     *)
(* Windows form: calls of set() on any thread share waitable timers        *)
(* through a pool under a mutex, and the threads of the io_context run the *)
(* handlers.  A timer is set again only by overwriting its time point, so  *)
(* two waits on one timer would spoil each other.                          *)
(***************************************************************************)
EXTENDS Pool

CONSTANTS
    Calls,      \* the calls of set()
    LastTime    \* bound: the clock stops here

ASSUME TimerAssumption == LastTime \in Nat

VARIABLES
    now,        \* the steady clock
    due,        \* per timer the time point it was last set to
    point,      \* per call its time_point
    timer,      \* per call the timer it acquired
    call        \* per call: "new", "acquired", "waiting", "released", "called" or "failed"

timerVars == <<now, due, point, timer, call>>

TimerInit ==
    /\ PoolInit
    /\ now = 0
    /\ due = [t \in Objects |-> 0]
    /\ point \in [Calls -> 0 .. LastTime]
    /\ timer = [c \in Calls |-> 0]
    /\ call = [c \in Calls |-> "new"]

Tick ==
    /\ now < LastTime
    /\ now' = now + 1
    /\ UNCHANGED <<due, point, timer, call, poolVars>>

(* new_timer(): under the mutex, emplace() only if the pool is exhausted. *)
NewTimer(c) ==
    /\ call[c] = "new"
    /\ IF Exhausted
         THEN /\ capacity < MaxObjects
              /\ capacity' = capacity + 1
              /\ timer' = [timer EXCEPT ![c] = capacity + 1]
              /\ acquired' = acquired \cup {capacity + 1}
              /\ UNCHANGED <<inactive, used>>
         ELSE /\ AcquireObject
              /\ timer' = [timer EXCEPT ![c] = Last(inactive)]
    /\ call' = [call EXCEPT ![c] = "acquired"]
    /\ UNCHANGED <<now, due, point>>

(* Creating a timer throws: nothing has changed. *)
NewTimerFails(c) ==
    /\ call[c] = "new" /\ Exhausted
    /\ call' = [call EXCEPT ![c] = "failed"]
    /\ UNCHANGED <<now, due, point, timer, poolVars>>

(* timer::set() and async_wait() *)
SetTimer(c) ==
    /\ call[c] = "acquired"
    /\ due' = [due EXCEPT ![timer[c]] = point[c]]
    /\ call' = [call EXCEPT ![c] = "waiting"]
    /\ UNCHANGED <<now, point, timer, poolVars>>

(* timer::set() throws, or the wait ends in an error: no handler releases  *)
(* the timer.                                                              *)
SetTimerFails(c) ==
    /\ call[c] \in {"acquired", "waiting"}
    /\ call' = [call EXCEPT ![c] = "failed"]
    /\ UNCHANGED <<now, due, point, timer, poolVars>>

(* Mutation: the timer goes back before its wait is over. *)
ReleaseTimerEarly(c) ==
    /\ call[c] = "waiting"
    /\ ReleaseObject(timer[c])
    /\ call' = [call EXCEPT ![c] = "released"]
    /\ UNCHANGED <<now, due, point, timer>>

(* The timer fires; its handler releases it under the mutex. *)
ReleaseTimer(c) ==
    /\ call[c] = "waiting" /\ due[timer[c]] <= now
    /\ ReleaseObject(timer[c])
    /\ call' = [call EXCEPT ![c] = "released"]
    /\ UNCHANGED <<now, due, point, timer>>

(* The handler calls back, and the callback may call set() again. *)
Callback(c) ==
    /\ call[c] = "released"
    /\ call' = [call EXCEPT ![c] = "called"]
    /\ UNCHANGED <<now, due, point, timer, poolVars>>

TimerNext ==
    \/ Tick
    \/ \E c \in Calls :
         \/ NewTimer(c) \/ NewTimerFails(c) \/ SetTimer(c) \/ SetTimerFails(c)
         \/ ReleaseTimer(c) \/ Callback(c)

TimerSpec == TimerInit /\ [][TimerNext]_<<timerVars, poolVars>>

-----------------------------------------------------------------------------

TimerTypeOK ==
    /\ PoolTypeOK
    /\ now \in 0 .. LastTime
    /\ due \in [Objects -> 0 .. LastTime]
    /\ timer \in [Calls -> Objects \cup {0}]

(* A callback never runs before its time point, a timer serves one call at *)
(* a time and keeps the time point of that call however sets, waits and    *)
(* handlers of other threads interleave, and the only timers that are      *)
(* never used again are those of failed waits.                             *)
TimersServeOneCall ==
    LET with(statuses) == {c \in Calls : call[c] \in statuses}
    IN  /\ \A c \in with({"released", "called"}) : point[c] <= now
        /\ \A c \in with({"acquired", "waiting"}) : timer[c] \in acquired
        /\ \A c \in with({"acquired", "waiting"}), d \in with({"acquired", "waiting"}) :
             timer[c] = timer[d] => c = d
        /\ \A c \in with({"waiting"}) : due[timer[c]] = point[c]
        /\ (\E c \in Calls : call[c] # "new") =>
             acquired = {timer[d] : d \in with({"acquired", "waiting", "failed"})} \ {0}
=============================================================================
