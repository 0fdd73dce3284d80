-------------------------------- MODULE Fence --------------------------------
(***************************************************************************)
(* cth::co::fence and heap_fence (cth/incl/cth/coro/fence.hpp) as several  *)
(* threads use them.  atomic<bool>::wait(false) is a futex: it sleeps only *)
(* if the value is still false, notify_all() wakes whoever sleeps, and who *)
(* wakes looks again.                                                      *)
(***************************************************************************)
EXTENDS Naturals

CONSTANTS Waiters, Signalers, Handles   \* Handles: the heap_fence objects

VARIABLES
    fenceState, \* _state
    owner,      \* the heap_fence whose unique_ptr holds the fence
    waiter,     \* per waiter: "away", "looking" in wait(), or "asleep"
    signaler,   \* per signaler: "idle", or "notify" between the two steps
    destroyed   \* ~fence() has run

fenceVars == <<fenceState, owner, waiter, signaler, destroyed>>

(* fence() and fence(signaled_t), held by one of the handles. *)
FenceInit ==
    /\ fenceState \in BOOLEAN
    /\ owner \in Handles
    /\ waiter = [w \in Waiters |-> "away"]
    /\ signaler = [s \in Signalers |-> "idle"]
    /\ destroyed = FALSE

(* A call on a handle that was moved from does nothing. *)
Reaches(h) == h = owner /\ ~destroyed

Wait(w, h) ==
    /\ Reaches(h) /\ waiter[w] = "away"
    /\ waiter' = [waiter EXCEPT ![w] = "looking"]
    /\ UNCHANGED <<fenceState, owner, signaler, destroyed>>

(* One look of a waiter: back to the caller, or to sleep. *)
Look(w) ==
    /\ ~destroyed /\ waiter[w] = "looking"
    /\ waiter' = [waiter EXCEPT ![w] = IF fenceState THEN "away" ELSE "asleep"]
    /\ UNCHANGED <<fenceState, owner, signaler, destroyed>>

(* Mutation: the one who finds it false leaves the notification to others. *)
SignalInverted(s, h) ==
    /\ Reaches(h) /\ signaler[s] = "idle"
    /\ fenceState' = TRUE
    /\ signaler' = [signaler EXCEPT ![s] = IF fenceState THEN "notify" ELSE "idle"]
    /\ UNCHANGED <<owner, waiter, destroyed>>

(* signal(), first half: the exchange. *)
Signal(s, h) ==
    /\ Reaches(h) /\ signaler[s] = "idle"
    /\ fenceState' = TRUE
    /\ signaler' = [signaler EXCEPT ![s] = IF fenceState THEN "idle" ELSE "notify"]
    /\ UNCHANGED <<owner, waiter, destroyed>>

(* force_signal(), first half: the store. *)
ForceSignal(s, h) ==
    /\ Reaches(h) /\ signaler[s] = "idle"
    /\ fenceState' = TRUE
    /\ signaler' = [signaler EXCEPT ![s] = "notify"]
    /\ UNCHANGED <<owner, waiter, destroyed>>

WakeAll == waiter' = [w \in Waiters |-> IF waiter[w] = "asleep" THEN "looking" ELSE waiter[w]]

NotifyAll(s) ==
    /\ ~destroyed /\ signaler[s] = "notify"
    /\ WakeAll
    /\ signaler' = [signaler EXCEPT ![s] = "idle"]
    /\ UNCHANGED <<fenceState, owner, destroyed>>

Reset(h) ==
    /\ Reaches(h)
    /\ fenceState' = FALSE
    /\ UNCHANGED <<owner, waiter, signaler, destroyed>>

(* heap_fence's move: the fence itself stays where it is. *)
MoveHandle(from, to) ==
    /\ Reaches(from) /\ from # to
    /\ owner' = to
    /\ UNCHANGED <<fenceState, waiter, signaler, destroyed>>

(* ~heap_fence(): ~fence() signals.  Who still waits then looks at freed   *)
(* memory: such a behaviour goes no further.                               *)
DestroyFence ==
    /\ ~destroyed
    /\ fenceState' = TRUE
    /\ IF fenceState THEN UNCHANGED waiter ELSE WakeAll
    /\ destroyed' = TRUE
    /\ UNCHANGED <<owner, signaler>>

-----------------------------------------------------------------------------

FenceNext ==
    \/ \E w \in Waiters, h \in Handles : Wait(w, h)
    \/ \E w \in Waiters : Look(w)
    \/ \E s \in Signalers, h \in Handles : Signal(s, h) \/ ForceSignal(s, h)
    \/ \E s \in Signalers : NotifyAll(s)
    \/ \E h \in Handles : Reset(h)
    \/ \E from, to \in Handles : MoveHandle(from, to)
    \/ DestroyFence

(* A fence that stays signaled lets every waiter go, whichever of several  *)
(* signalers made the exchange, and whatever resets came before: no wake-  *)
(* up is lost between the exchange and the notification.                   *)
SignaledWaitersLeave ==
    <>[](fenceState /\ ~destroyed) => \A w \in Waiters : []<>(waiter[w] = "away")
=============================================================================
