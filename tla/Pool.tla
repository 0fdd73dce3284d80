-------------------------------- MODULE Pool ---------------------------------
(***************************************************************************)
(* cth::dt::pool (cth/incl/cth/data/pool.hpp) with a manipulator that      *)
(* resets: objects in storage, and the stack of those that are inactive.   *)
(***************************************************************************)
EXTENDS Naturals, Sequences, SequencesExt

CONSTANT MaxObjects     \* bound: objects constructed in the pool

ASSUME PoolAssumption == MaxObjects \in Nat

VARIABLES
    capacity,   \* objects 1 .. capacity are in _storage
    inactive,   \* _inactive; acquire() takes the last one
    used,       \* objects that are not as reset() leaves them
    acquired    \* objects whose user may use and has to release them

poolVars == <<capacity, inactive, used, acquired>>

Objects == 1 .. MaxObjects

PoolInit ==
    /\ capacity = 0
    /\ inactive = <<>>
    /\ used = {}
    /\ acquired = {}

Exhausted == inactive = <<>>

(* append_range(), and emplace() for n = 1 *)
AppendRange(n) ==
    /\ capacity + n <= MaxObjects
    /\ capacity' = capacity + n
    /\ inactive' = inactive \o [i \in 1 .. n |-> capacity + i]
    /\ UNCHANGED <<used, acquired>>

(* Mutation: the object stays on the stack. *)
AcquireObjectPeeked ==
    /\ ~Exhausted
    /\ acquired' = acquired \cup {Last(inactive)}
    /\ UNCHANGED <<capacity, inactive, used>>

(* acquire(), which must not be called on an exhausted pool *)
AcquireObject ==
    /\ ~Exhausted
    /\ inactive' = Front(inactive)
    /\ acquired' = acquired \cup {Last(inactive)}
    /\ UNCHANGED <<capacity, used>>

UseObject(t) ==
    /\ t \in acquired
    /\ used' = used \cup {t}
    /\ UNCHANGED <<capacity, inactive, acquired>>

(* release(t): resets t first *)
ReleaseObject(t) ==
    /\ t \in acquired
    /\ used' = used \ {t}
    /\ inactive' = Append(inactive, t)
    /\ acquired' = acquired \ {t}
    /\ UNCHANGED capacity

(* clear(): takes everything back, resetting what was out.  Whoever had    *)
(* acquired an object must not release it any more.                        *)
ClearPool ==
    /\ used' = used \cap ToSet(inactive)
    /\ inactive' = [i \in 1 .. capacity |-> i]
    /\ acquired' = {}
    /\ UNCHANGED capacity

PoolNext ==
    \/ \E n \in 0 .. MaxObjects : AppendRange(n)
    \/ AcquireObject
    \/ \E t \in Objects : UseObject(t) \/ ReleaseObject(t)
    \/ ClearPool

PoolSpec == PoolInit /\ [][PoolNext]_poolVars

-----------------------------------------------------------------------------

PoolTypeOK ==
    /\ capacity \in 0 .. MaxObjects
    /\ inactive \in Seq(Objects)
    /\ used \in SUBSET Objects
    /\ acquired \in SUBSET Objects

(* Every object of the pool is either out with one user or once on the     *)
(* stack, there as reset() leaves it, whatever clears came between its     *)
(* acquisition and now: nobody is handed an object that another user still *)
(* has, and none is lost.                                                  *)
ObjectsHandedOutOnce ==
    /\ \A i, j \in DOMAIN inactive : inactive[i] = inactive[j] => i = j
    /\ ToSet(inactive) \cap acquired = {}
    /\ ToSet(inactive) \cup acquired = 1 .. capacity
    /\ used \subseteq acquired
=============================================================================
