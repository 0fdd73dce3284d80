-------------------------- MODULE ContainersProofs --------------------------
(***************************************************************************)
(* Theorems about Pool, TimerPool, PolyVector, UnionFind and Assignment, for *)
(* any number of objects, timers, calls, vectors, elements, a's and b's.     *)
(* ObjectsHandedOutOnce is inductive together with the types, and            *)
(* TimersServeOneCall rests on it.  The forest's invariant speaks of chains  *)
(* of parents, which a recursive function defines: NatMin stands for the     *)
(* inductions.  The assignment's says what a search has met so far; that     *)
(* nothing is missed when it ends is a count (NoPathNoAssignment).           *)
(***************************************************************************)
EXTENDS TimerPool, PolyVector, UnionFind, Assignment, FiniteSetTheorems, TLAPS

-----------------------------------------------------------------------------
(* Pool.                                                                   *)

PoolInv == PoolTypeOK /\ ObjectsHandedOutOnce

(* An empty pool. *)
LEMMA PoolInitial == PoolInit => PoolInv
  BY PoolAssumption DEF PoolInit, PoolInv, PoolTypeOK, ObjectsHandedOutOnce, ToSet

(* append_range() puts the new objects, and only those, on top. *)
LEMMA AppendKept ==
  ASSUME PoolInv, NEW n \in 0 .. MaxObjects, AppendRange(n)
  PROVE  PoolInv'
  <1> USE PoolAssumption DEF AppendRange
  <1> DEFINE new == [i \in 1 .. n |-> capacity + i]
  <1>1. /\ capacity \in Nat /\ capacity' = capacity + n /\ capacity' \in 0 .. MaxObjects
        /\ inactive \in Seq(Objects)
        /\ UNCHANGED <<used, acquired>>
    BY DEF PoolInv, PoolTypeOK
  <1>2. new \in Seq(Objects) /\ Len(new) = n
    BY <1>1 DEF Objects
  <1>3. /\ inactive' \in Seq(Objects) /\ Len(inactive') = Len(inactive) + n
        /\ \A i \in 1 .. Len(inactive) : inactive'[i] = inactive[i]
        /\ \A i \in Len(inactive) + 1 .. Len(inactive) + n :
             inactive'[i] = capacity + (i - Len(inactive))
    BY <1>1, <1>2
  <1>4. /\ Len(inactive) \in Nat /\ DOMAIN inactive = 1 .. Len(inactive)
        /\ DOMAIN inactive' = 1 .. Len(inactive) + n
    BY <1>1, <1>3
  <1>5. \A i \in 1 .. Len(inactive) : inactive[i] \in 1 .. capacity
    BY <1>4 DEF PoolInv, ObjectsHandedOutOnce, ToSet
  <1>6. \A i, j \in DOMAIN inactive' : inactive'[i] = inactive'[j] => i = j
    <2> SUFFICES ASSUME NEW i \in DOMAIN inactive', NEW j \in DOMAIN inactive',
                        inactive'[i] = inactive'[j]
                 PROVE  i = j
      OBVIOUS
    <2>1. CASE i <= Len(inactive) /\ j <= Len(inactive)
      BY <1>3, <1>4, <2>1 DEF PoolInv, ObjectsHandedOutOnce
    <2>2. CASE (i <= Len(inactive)) # (j <= Len(inactive))
      BY <1>1, <1>3, <1>4, <1>5, <2>2, SMTT(60)
    <2>3. CASE i > Len(inactive) /\ j > Len(inactive)
      BY <1>1, <1>3, <1>4, <2>3, SMTT(60)
    <2>4. QED
      BY <1>4, <2>1, <2>2, <2>3
  <1>7. ToSet(inactive') = ToSet(inactive) \cup (capacity + 1 .. capacity + n)
    <2>1. \A x \in ToSet(inactive') : x \in ToSet(inactive) \cup (capacity + 1 .. capacity + n)
      <3> SUFFICES ASSUME NEW i \in 1 .. Len(inactive) + n
                   PROVE  inactive'[i] \in ToSet(inactive) \cup (capacity + 1 .. capacity + n)
        BY <1>4 DEF ToSet
      <3>1. CASE i <= Len(inactive)
        BY <1>3, <1>4, <3>1 DEF ToSet
      <3>2. CASE i > Len(inactive)
        BY <1>1, <1>3, <1>4, <3>2
      <3>3. QED
        BY <1>4, <3>1, <3>2
    <2>2. ToSet(inactive) \subseteq ToSet(inactive')
      BY <1>3, <1>4 DEF ToSet
    <2>3. \A x \in capacity + 1 .. capacity + n : x \in ToSet(inactive')
      <3> SUFFICES ASSUME NEW x \in capacity + 1 .. capacity + n PROVE x \in ToSet(inactive')
        OBVIOUS
      <3> DEFINE i == Len(inactive) + (x - capacity)
      <3>1. i \in DOMAIN inactive' /\ inactive'[i] = x
        BY <1>1, <1>3, <1>4
      <3>2. QED
        BY <3>1 DEF ToSet
    <2>4. QED
      BY <2>1, <2>2, <2>3
  <1>8. acquired \subseteq 1 .. capacity
    BY DEF PoolInv, ObjectsHandedOutOnce
  <1>9. ToSet(inactive') \cap acquired' = {} /\ ToSet(inactive') \cup acquired' = 1 .. capacity'
    <2>1. /\ ToSet(inactive) \cap acquired = {}
          /\ ToSet(inactive) \cup acquired = 1 .. capacity
      BY DEF PoolInv, ObjectsHandedOutOnce
    <2>2. /\ (capacity + 1 .. capacity + n) \cap (1 .. capacity) = {}
          /\ (capacity + 1 .. capacity + n) \cup (1 .. capacity) = 1 .. capacity'
      BY <1>1
    <2>3. QED
      BY <1>1, <1>7, <1>8, <2>1, <2>2
  <1>10. QED
    BY <1>1, <1>3, <1>6, <1>9 DEF PoolInv, PoolTypeOK, ObjectsHandedOutOnce

(* Every operation keeps PoolInv. *)
LEMMA PoolKept == PoolInv /\ [PoolNext]_poolVars => PoolInv'
  <1> SUFFICES ASSUME PoolInv, [PoolNext]_poolVars PROVE PoolInv'
    OBVIOUS
  <1> USE PoolAssumption
  <1>0. /\ inactive \in Seq(Objects) /\ capacity \in 0 .. MaxObjects
        /\ Len(inactive) \in Nat /\ DOMAIN inactive = 1 .. Len(inactive)
        /\ \A i, j \in DOMAIN inactive : inactive[i] = inactive[j] => i = j
        /\ ToSet(inactive) \cap acquired = {}
        /\ ToSet(inactive) \cup acquired = 1 .. capacity
        /\ used \subseteq acquired
        /\ acquired \subseteq Objects
    BY DEF PoolInv, PoolTypeOK, ObjectsHandedOutOnce
  <1>1. ASSUME AcquireObject
        PROVE  PoolInv'
    <2> USE <1>0, <1>1 DEF AcquireObject
    <2> DEFINE n == Len(inactive)
               t == inactive[n]
    <2>1. /\ n \in Nat \ {0} /\ Last(inactive) = t
          /\ inactive' = SubSeq(inactive, 1, n - 1)
      BY DEF Exhausted, Last, Front
    <2>2. /\ inactive' \in Seq(Objects) /\ DOMAIN inactive' = 1 .. n - 1
          /\ \A i \in 1 .. n - 1 : inactive'[i] = inactive[i]
      BY <2>1
    <2>3. t \in ToSet(inactive) /\ t \in Objects
      BY <2>1 DEF ToSet
    <2>4. ToSet(inactive') = ToSet(inactive) \ {t}
      <3>1. \A x \in ToSet(inactive') : x \in ToSet(inactive) /\ x # t
        BY <2>1, <2>2 DEF ToSet
      <3>2. \A i \in DOMAIN inactive : inactive[i] # t => i \in 1 .. n - 1
        BY <2>1
      <3>3. \A x \in ToSet(inactive) : x # t => x \in ToSet(inactive')
        BY <2>2, <3>2 DEF ToSet
      <3>4. QED
        BY <3>1, <3>3
    <2>5. acquired' = acquired \cup {t} /\ UNCHANGED <<capacity, used>>
      BY <2>1
    <2>6. \A i, j \in DOMAIN inactive' : inactive'[i] = inactive'[j] => i = j
      BY <2>2
    <2>7. PoolTypeOK'
      BY <2>2, <2>3, <2>5 DEF PoolInv, PoolTypeOK
    <2>8. QED
      BY <2>3, <2>4, <2>5, <2>6, <2>7 DEF PoolInv, ObjectsHandedOutOnce
  <1>2. ASSUME NEW t \in Objects, UseObject(t)
        PROVE  PoolInv'
    BY <1>0, <1>2 DEF UseObject, PoolInv, PoolTypeOK, ObjectsHandedOutOnce
  <1>3. ASSUME NEW t \in Objects, ReleaseObject(t)
        PROVE  PoolInv'
    <2> USE <1>0, <1>3 DEF ReleaseObject
    <2> DEFINE n == Len(inactive)
    <2>1. /\ inactive' \in Seq(Objects) /\ DOMAIN inactive' = 1 .. n + 1
          /\ \A i \in 1 .. n : inactive'[i] = inactive[i]
          /\ inactive'[n + 1] = t
      OBVIOUS
    <2>2. t \notin ToSet(inactive)
      OBVIOUS
    <2>3. \A i \in 1 .. n : inactive'[i] # t
      BY <2>1, <2>2 DEF ToSet
    <2>4. \A i, j \in DOMAIN inactive' : inactive'[i] = inactive'[j] => i = j
      BY <2>1, <2>3
    <2>5. ToSet(inactive') = ToSet(inactive) \cup {t}
      <3>1. \A x \in ToSet(inactive') : x \in ToSet(inactive) \cup {t}
        BY <2>1 DEF ToSet
      <3>2. t \in ToSet(inactive') /\ ToSet(inactive) \subseteq ToSet(inactive')
        BY <2>1 DEF ToSet
      <3>3. QED
        BY <3>1, <3>2
    <2>6. PoolTypeOK'
      BY <2>1 DEF PoolInv, PoolTypeOK
    <2>7. QED
      BY <2>4, <2>5, <2>6 DEF PoolInv, ObjectsHandedOutOnce
  <1>4. ASSUME ClearPool
        PROVE  PoolInv'
    <2> USE <1>0, <1>4 DEF ClearPool
    <2>1. /\ used' = {} /\ acquired' = {} /\ capacity' = capacity
      OBVIOUS
    <2>2. /\ inactive' = [i \in 1 .. capacity |-> i] /\ inactive' \in Seq(Objects)
          /\ DOMAIN inactive' = 1 .. capacity
      BY DEF Objects
    <2>3. ToSet(inactive') = 1 .. capacity
      BY <2>2 DEF ToSet
    <2>4. QED
      BY <2>1, <2>2, <2>3 DEF PoolInv, PoolTypeOK, ObjectsHandedOutOnce
  <1>5. CASE UNCHANGED poolVars
    BY <1>5 DEF poolVars, PoolInv, PoolTypeOK, ObjectsHandedOutOnce
  <1>6. QED
    BY <1>1, <1>2, <1>3, <1>4, <1>5, AppendKept DEF PoolNext

-----------------------------------------------------------------------------

(* Whatever is appended, acquired, released and cleared, an object of the  *)
(* pool is out with one user or once on the stack, reset.                  *)
THEOREM ObjectsHandedOutOnceCorrect == PoolSpec => []ObjectsHandedOutOnce
  <1>1. PoolInv => ObjectsHandedOutOnce
    BY DEF PoolInv
  <1>2. QED
    BY PoolInitial, PoolKept, <1>1, PTL DEF PoolSpec

-----------------------------------------------------------------------------
(* TimerPool.                                                              *)

(* The calls that have a timer and have not released it; a failed call     *)
(* keeps the one it had, if any.                                           *)
Holders == {c \in Calls : \/ call[c] \in {"acquired", "waiting"}
                          \/ call[c] = "failed" /\ timer[c] # 0}

(* What makes TimersServeOneCall inductive: the timers that are out are    *)
(* those of the holders, one each, those of failed calls included.         *)
TimerInv ==
    /\ PoolInv
    /\ TimerTypeOK
    /\ point \in [Calls -> 0 .. LastTime]
    /\ call \in [Calls -> {"new", "acquired", "waiting", "released", "called", "failed"}]
    /\ \A c \in Calls : call[c] = "new" => timer[c] = 0
    /\ \A c \in Holders : timer[c] \in acquired
    /\ \A c, d \in Holders : timer[c] = timer[d] => c = d
    /\ acquired \subseteq {timer[c] : c \in Holders}
    /\ \A c \in Calls : call[c] = "waiting" => due[timer[c]] = point[c]
    /\ \A c \in Calls : call[c] \in {"released", "called"} => point[c] <= now

(* No timer yet. *)
LEMMA TimerInitial == TimerInit => TimerInv
  <1> SUFFICES ASSUME TimerInit PROVE TimerInv
    OBVIOUS
  <1> USE PoolAssumption, TimerAssumption DEF TimerInit
  <1>1. PoolInv
    BY PoolInitial
  <1>2. Holders = {}
    BY DEF Holders
  <1>3. TimerTypeOK
    BY <1>1 DEF TimerTypeOK, PoolInv, Objects
  <1>4. acquired = {}
    BY DEF PoolInit
  <1>5. QED
    BY <1>1, <1>2, <1>3, <1>4 DEF TimerInv

(* new_timer() with a timer of the pool or a new one: nobody else has it.  *)
LEMMA NewTimerKept ==
  ASSUME TimerInv, NEW c \in Calls, NewTimer(c)
  PROVE  TimerInv'
  <1> USE PoolAssumption, TimerAssumption
  <1> DEFINE t == timer'[c]
  <1>1. /\ PoolInv' /\ t \in Objects \ acquired /\ acquired' = acquired \cup {t}
        /\ timer' = [timer EXCEPT ![c] = t]
    <2>1. CASE Exhausted
      <3>1. /\ capacity < MaxObjects /\ capacity' = capacity + 1 /\ t = capacity + 1
            /\ timer' = [timer EXCEPT ![c] = capacity + 1]
            /\ acquired' = acquired \cup {capacity + 1} /\ UNCHANGED <<inactive, used>>
        BY <2>1 DEF NewTimer, TimerInv, TimerTypeOK
      <3>2. /\ inactive = <<>> /\ acquired = 1 .. capacity /\ capacity \in 0 .. MaxObjects
            /\ used \subseteq acquired
        <4>1. inactive = <<>> /\ DOMAIN inactive = {}
          BY <2>1 DEF Exhausted
        <4>2. ToSet(inactive) = {}
          BY <4>1 DEF ToSet
        <4>3. QED
          BY <4>1, <4>2 DEF TimerInv, PoolInv, PoolTypeOK, ObjectsHandedOutOnce
      <3>3. /\ acquired' = 1 .. capacity' /\ capacity' \in 0 .. MaxObjects
            /\ t \in Objects \ acquired
        BY <3>1, <3>2 DEF Objects
      <3>4. PoolTypeOK'
        BY <3>1, <3>2, <3>3 DEF PoolTypeOK, Objects
      <3>5. ObjectsHandedOutOnce'
        BY <3>1, <3>2, <3>3 DEF ObjectsHandedOutOnce, ToSet
      <3>6. QED
        BY <3>1, <3>3, <3>4, <3>5 DEF PoolInv
    <2>2. CASE ~Exhausted
      <3>1. /\ AcquireObject /\ t = Last(inactive) /\ timer' = [timer EXCEPT ![c] = t]
        BY <2>2 DEF NewTimer, TimerInv, TimerTypeOK
      <3>2. PoolInv'
        BY <3>1, PoolKept DEF TimerInv, PoolNext
      <3>3. /\ inactive \in Seq(Objects) /\ Len(inactive) \in Nat \ {0}
            /\ t = inactive[Len(inactive)]
        BY <2>2, <3>1 DEF Exhausted, Last, TimerInv, PoolInv, PoolTypeOK
      <3>4. t \in ToSet(inactive) /\ t \in Objects
        BY <3>3 DEF ToSet
      <3>5. QED
        BY <3>1, <3>2, <3>4
           DEF AcquireObject, TimerInv, PoolInv, ObjectsHandedOutOnce
    <2>3. QED
      BY <2>1, <2>2
  <1>2. /\ call[c] = "new" /\ call' = [call EXCEPT ![c] = "acquired"]
        /\ UNCHANGED <<now, due, point>>
    BY DEF NewTimer
  <1>3. /\ call'[c] = "acquired" /\ \A d \in Calls : d # c => call'[d] = call[d]
        /\ \A d \in Calls : d # c => timer'[d] = timer[d]
        /\ call' \in [Calls -> {"new", "acquired", "waiting", "released", "called", "failed"}]
        /\ timer' \in [Calls -> Objects \cup {0}]
    BY <1>1, <1>2 DEF TimerInv, TimerTypeOK
  <1>4. Holders' = Holders \cup {c} /\ c \notin Holders
    BY <1>2, <1>3 DEF Holders
  <1>5. TimerTypeOK'
    BY <1>1, <1>2, <1>3 DEF TimerInv, TimerTypeOK, PoolInv
  <1>6. /\ \A d \in Holders' : timer'[d] \in acquired'
        /\ \A d, e \in Holders' : timer'[d] = timer'[e] => d = e
    BY <1>1, <1>3, <1>4 DEF TimerInv, Holders
  <1>7. acquired' \subseteq {timer'[d] : d \in Holders'}
    <2>1. \A x \in acquired : \E d \in Holders : timer[d] = x
      BY DEF TimerInv
    <2>2. \A d \in Holders : d \in Holders' /\ timer'[d] = timer[d]
      BY <1>3, <1>4 DEF Holders
    <2>3. QED
      BY <1>1, <1>4, <2>1, <2>2
  <1>8. QED
    BY <1>1, <1>2, <1>3, <1>5, <1>6, <1>7 DEF TimerInv

(* The handler gives back the timer of its own call. *)
LEMMA ReleaseTimerKept ==
  ASSUME TimerInv, NEW c \in Calls, ReleaseTimer(c)
  PROVE  TimerInv'
  <1> USE PoolAssumption, TimerAssumption
  <1> DEFINE t == timer[c]
  <1>1. /\ call[c] = "waiting" /\ due[t] <= now /\ ReleaseObject(t)
        /\ call' = [call EXCEPT ![c] = "released"] /\ UNCHANGED <<now, due, point, timer>>
    BY DEF ReleaseTimer
  <1>2. c \in Holders /\ t \in acquired /\ t \in Objects /\ due[t] = point[c]
    BY <1>1 DEF Holders, TimerInv, PoolInv, PoolTypeOK
  <1>3. PoolInv' /\ acquired' = acquired \ {t}
    BY <1>1, <1>2, PoolKept DEF TimerInv, PoolNext, ReleaseObject
  <1>4. /\ call'[c] = "released" /\ \A d \in Calls : d # c => call'[d] = call[d]
        /\ call' \in [Calls -> {"new", "acquired", "waiting", "released", "called", "failed"}]
    BY <1>1 DEF TimerInv
  <1>5. Holders' = Holders \ {c}
    BY <1>1, <1>4 DEF Holders
  <1>6. TimerTypeOK'
    BY <1>1, <1>3 DEF TimerInv, TimerTypeOK, PoolInv
  <1>7. /\ \A d \in Holders' : timer'[d] \in acquired'
        /\ \A d, e \in Holders' : timer'[d] = timer'[e] => d = e
    BY <1>1, <1>2, <1>3, <1>5 DEF TimerInv
  <1>8. acquired' \subseteq {timer'[d] : d \in Holders'}
    <2>1. \A x \in acquired : \E d \in Holders : timer[d] = x
      BY DEF TimerInv
    <2>2. QED
      BY <1>1, <1>3, <1>5, <2>1
  <1>9. \A d \in Calls : call'[d] \in {"released", "called"} => point'[d] <= now'
    BY <1>1, <1>2, <1>4 DEF TimerInv
  <1>10. QED
    BY <1>1, <1>3, <1>4, <1>6, <1>7, <1>8, <1>9 DEF TimerInv

(* A step that gives and takes no timer keeps what the pool knows. *)
LEMMA SameHolders ==
  ASSUME TimerInv, UNCHANGED <<timer, poolVars>>, Holders' = Holders
  PROVE  /\ PoolInv'
         /\ \A c \in Holders' : timer'[c] \in acquired'
         /\ \A c, d \in Holders' : timer'[c] = timer'[d] => c = d
         /\ acquired' \subseteq {timer'[c] : c \in Holders'}
  <1>1. PoolInv'
    BY PoolKept DEF TimerInv
  <1>2. timer' = timer /\ acquired' = acquired
    BY DEF poolVars
  <1>3. QED
    BY <1>1, <1>2 DEF TimerInv

(* A call goes on with the timer it has. *)
LEMMA CallKept ==
  ASSUME TimerInv, NEW c \in Calls,
         NewTimerFails(c) \/ SetTimer(c) \/ SetTimerFails(c) \/ Callback(c)
  PROVE  TimerInv'
  <1> USE PoolAssumption, TimerAssumption
  <1>0. /\ now \in 0 .. LastTime /\ due \in [Objects -> 0 .. LastTime]
        /\ timer \in [Calls -> Objects \cup {0}] /\ point \in [Calls -> 0 .. LastTime]
        /\ call \in [Calls -> {"new", "acquired", "waiting", "released", "called", "failed"}]
        /\ acquired \subseteq Objects /\ 0 \notin Objects
    BY DEF TimerInv, TimerTypeOK, PoolInv, PoolTypeOK, Objects
  <1>1. UNCHANGED <<now, point, timer, poolVars>>
    BY DEF NewTimerFails, SetTimer, SetTimerFails, Callback
  <1>2. /\ call' = [call EXCEPT ![c] = call'[c]]
        /\ \/ call[c] = "new" /\ call'[c] = "failed" /\ due' = due
           \/ call[c] = "acquired" /\ call'[c] = "waiting"
              /\ due' = [due EXCEPT ![timer[c]] = point[c]]
           \/ call[c] \in {"acquired", "waiting"} /\ call'[c] = "failed" /\ due' = due
           \/ call[c] = "released" /\ call'[c] = "called" /\ due' = due
    BY <1>0 DEF NewTimerFails, SetTimer, SetTimerFails, Callback
  <1>3. \A d \in Calls : d # c => call'[d] = call[d]
    BY <1>0, <1>2
  <1>4. call[c] \in {"acquired", "waiting"} => timer[c] \in Objects /\ c \in Holders
    BY <1>0 DEF TimerInv, Holders
  <1>5. Holders' = Holders
    <2>1. c \in Holders' <=> c \in Holders
      BY <1>0, <1>1, <1>2, <1>4 DEF Holders, TimerInv
    <2>2. \A d \in Calls : d # c => (d \in Holders' <=> d \in Holders)
      BY <1>1, <1>3 DEF Holders
    <2>3. QED
      BY <2>1, <2>2 DEF Holders
  <1>6. /\ PoolInv'
        /\ \A d \in Holders' : timer'[d] \in acquired'
        /\ \A d, e \in Holders' : timer'[d] = timer'[e] => d = e
        /\ acquired' \subseteq {timer'[d] : d \in Holders'}
    BY <1>1, <1>5, SameHolders
  <1>7. /\ call' \in [Calls -> {"new", "acquired", "waiting", "released", "called", "failed"}]
        /\ due' \in [Objects -> 0 .. LastTime]
    BY <1>0, <1>2, <1>4
  <1>8. TimerTypeOK'
    BY <1>0, <1>1, <1>6, <1>7 DEF TimerTypeOK, PoolInv
  <1>9. \A d \in Calls : call'[d] = "waiting" => due'[timer'[d]] = point'[d]
    <2>1. CASE call'[c] = "waiting"
      <3>1. /\ timer[c] \in Objects /\ c \in Holders
            /\ due' = [due EXCEPT ![timer[c]] = point[c]]
        BY <1>2, <1>4, <2>1
      <3>2. \A d \in Calls : d # c /\ call[d] = "waiting" =>
               timer[d] # timer[c] /\ timer[d] \in Objects
        BY <1>0, <3>1 DEF TimerInv, Holders
      <3>3. QED
        BY <1>0, <1>1, <1>3, <3>1, <3>2 DEF TimerInv
    <2>2. CASE call'[c] # "waiting"
      BY <1>1, <1>2, <1>3, <2>2 DEF TimerInv
    <2>3. QED
      BY <2>1, <2>2
  <1>10. /\ \A d \in Calls : call'[d] = "new" => timer'[d] = 0
         /\ \A d \in Calls : call'[d] \in {"released", "called"} => point'[d] <= now'
    BY <1>1, <1>2, <1>3 DEF TimerInv
  <1>11. QED
    BY <1>0, <1>1, <1>6, <1>7, <1>8, <1>9, <1>10 DEF TimerInv

(* Every step of the callers, the handlers and the clock keeps TimerInv. *)
LEMMA TimerKept == TimerInv /\ [TimerNext]_<<timerVars, poolVars>> => TimerInv'
  <1> SUFFICES ASSUME TimerInv, [TimerNext]_<<timerVars, poolVars>> PROVE TimerInv'
    OBVIOUS
  <1> USE TimerAssumption
  <1>1. ASSUME Tick
        PROVE  TimerInv'
    <2>1. /\ now' = now + 1 /\ now < LastTime
          /\ UNCHANGED <<due, point, timer, call>> /\ UNCHANGED poolVars
      BY <1>1 DEF Tick
    <2>2. Holders' = Holders
      BY <2>1 DEF Holders
    <2>3. /\ PoolInv'
          /\ \A c \in Holders' : timer'[c] \in acquired'
          /\ \A c, d \in Holders' : timer'[c] = timer'[d] => c = d
          /\ acquired' \subseteq {timer'[c] : c \in Holders'}
      BY <2>1, <2>2, SameHolders
    <2>4. TimerTypeOK'
      BY <2>1, <2>3 DEF TimerInv, TimerTypeOK, PoolInv
    <2>5. \A c \in Calls : call'[c] \in {"released", "called"} => point'[c] <= now'
      BY <2>1 DEF TimerInv, TimerTypeOK
    <2>6. QED
      BY <2>1, <2>3, <2>4, <2>5 DEF TimerInv
  <1>2. CASE UNCHANGED <<timerVars, poolVars>>
    <2>1. UNCHANGED <<now, due, point, timer, call>> /\ UNCHANGED poolVars
      BY <1>2 DEF timerVars
    <2>2. Holders' = Holders
      BY <2>1 DEF Holders
    <2>3. /\ PoolInv'
          /\ \A c \in Holders' : timer'[c] \in acquired'
          /\ \A c, d \in Holders' : timer'[c] = timer'[d] => c = d
          /\ acquired' \subseteq {timer'[c] : c \in Holders'}
      BY <2>1, <2>2, SameHolders
    <2>4. TimerTypeOK'
      BY <2>1, <2>3 DEF TimerInv, TimerTypeOK, PoolInv
    <2>5. QED
      BY <2>1, <2>3, <2>4 DEF TimerInv
  <1>3. QED
    BY <1>1, <1>2, NewTimerKept, ReleaseTimerKept, CallKept DEF TimerNext

-----------------------------------------------------------------------------

(* However calls, handlers and failures interleave, a timer serves one     *)
(* call at a time and keeps its time point, no callback is early, and only *)
(* the timers of failed waits are lost.                                    *)
THEOREM TimersServeOneCallCorrect == TimerSpec => []TimersServeOneCall
  <1>1. TimerInv => TimersServeOneCall
    <2> SUFFICES ASSUME TimerInv PROVE TimersServeOneCall
      OBVIOUS
    <2>0. acquired \subseteq Objects /\ 0 \notin Objects
      BY DEF TimerInv, PoolInv, PoolTypeOK, Objects
    <2>1. \A c \in Calls : call[c] \in {"acquired", "waiting"} => c \in Holders
      BY DEF Holders
    <2>2. acquired = {timer[d] : d \in {c \in Calls : call[c] \in
                                {"acquired", "waiting", "failed"}}} \ {0}
      <3>1. \A d \in Holders : /\ call[d] \in {"acquired", "waiting", "failed"}
                               /\ d \in Calls /\ timer[d] # 0 /\ timer[d] \in acquired
        BY <2>0 DEF TimerInv, Holders
      <3>2. \A d \in Calls : call[d] \in {"acquired", "waiting", "failed"} /\ timer[d] # 0
                               => d \in Holders
        BY DEF Holders
      <3>3. \A x \in acquired : \E d \in Holders : timer[d] = x
        BY DEF TimerInv
      <3>4. QED
        BY <2>0, <3>1, <3>2, <3>3
    <2>3. QED
      BY <2>1, <2>2 DEF TimerInv, TimersServeOneCall
  <1>2. QED
    BY TimerInitial, TimerKept, <1>1, PTL DEF TimerSpec

-----------------------------------------------------------------------------
(* PolyVector.                                                             *)

(* What makes BuffersOwned inductive: the number of the next allocation    *)
(* was never given out, so realloc() finds a buffer nobody points to.      *)
PolyInv ==
    /\ PolyTypeOK
    /\ BuffersOwned
    /\ heap \subseteq 1 .. allocated

(* The initial state has no buffers. *)
LEMMA PolyInitial == PolyInit => PolyInv
  <1> SUFFICES ASSUME PolyInit PROVE PolyInv
    OBVIOUS
  <1>1. PICK c : c \in Contents
    BY PolyVectorAssumption
  <1>2. (CHOOSE d \in Contents : TRUE) \in Contents
    BY <1>1
  <1>3. PolyTypeOK
    BY <1>2, PolyVectorAssumption DEF PolyInit, PolyTypeOK, Buffers
  <1>4. \A v \in Vectors : ~Readable(v)
    <2>1. begin = [v \in Vectors |-> 0]
      BY DEF PolyInit
    <2>2. 0 \notin Buffers
      BY PolyVectorAssumption DEF Buffers
    <2>3. QED
      BY <2>1, <2>2 DEF Readable
  <1>5. QED
    BY <1>3, <1>4 DEF PolyInit, PolyInv, BuffersOwned

(* realloc() leaves the vectors one owner per buffer, whether or not the   *)
(* vector had a buffer before: that one is dropped.                        *)
LEMMA ReallocOwned ==
  ASSUME PolyInv, NEW v \in Vectors, NEW content \in Contents, Realloc(v, content),
         dropped' = dropped \cup ({begin[v]} \cap Buffers)
  PROVE  PolyInv'
  <1> DEFINE new == allocated + 1
  <1> USE PolyVectorAssumption
  <1>1. /\ new \in Buffers /\ new # 0 /\ new # NULL
        /\ new \notin heap
        /\ allocated \in Nat /\ allocated' = new
    BY DEF PolyInv, PolyTypeOK, Realloc, Buffers
  <1>2. PolyTypeOK'
    <2> USE DEF PolyInv, PolyTypeOK, Realloc
    <2>1. begin' \in [Vectors -> Buffers \cup {0, NULL}]
      BY <1>1
    <2>2. heap' \in SUBSET Buffers /\ dropped' \in SUBSET Buffers
      BY <1>1
    <2>3. written' \in [Buffers -> Contents]
      BY <1>1
    <2>4. allocated' \in 0 .. MaxBuffers
      BY <1>1
    <2>5. QED
      BY <2>1, <2>2, <2>3, <2>4
  <1>3. heap' \subseteq 1 .. allocated'
    <2>1. heap \subseteq 1 .. allocated /\ heap' = heap \cup {new}
      BY DEF PolyInv, Realloc
    <2>2. QED
      BY <2>1, <1>1
  <1>4. /\ begin' \in [Vectors -> Buffers \cup {0, NULL}]
        /\ begin'[v] = new
        /\ \A w \in Vectors : w # v => begin'[w] = begin[w]
    BY <1>2 DEF PolyInv, PolyTypeOK, Realloc
  <1>5. \A w \in Vectors : w # v => (Readable(w)' <=> Readable(w))
    BY <1>4 DEF Readable
  <1>6. \A w \in Vectors : Readable(w) => begin[w] \in heap /\ begin[w] \notin dropped /\ begin[w] # new
    BY <1>1 DEF PolyInv, BuffersOwned
  <1>7. \A w \in Vectors : Readable(w)' => begin'[w] \in heap' \ dropped'
    <2> SUFFICES ASSUME NEW w \in Vectors, Readable(w)' PROVE begin'[w] \in heap' \ dropped'
      OBVIOUS
    <2>1. CASE w = v
      <3>1. new \notin dropped
        BY <1>1 DEF PolyInv, BuffersOwned
      <3>2. begin[v] # new
        BY <1>1, <1>6 DEF Readable
      <3>3. QED
        BY <2>1, <1>4, <3>1, <3>2 DEF Realloc
    <2>2. CASE w # v
      <3>1. Readable(w) /\ begin'[w] = begin[w]
        BY <2>2, <1>4, <1>5
      <3>2. begin[w] # begin[v]
        BY <3>1, <2>2 DEF PolyInv, BuffersOwned
      <3>3. QED
        BY <3>1, <3>2, <1>6 DEF Realloc
    <2>3. QED
      BY <2>1, <2>2
  <1>8. \A w, x \in Vectors : Readable(w)' /\ begin'[w] = begin'[x] => w = x
    <2> SUFFICES ASSUME NEW w \in Vectors, NEW x \in Vectors, Readable(w)', begin'[w] = begin'[x]
                 PROVE  w = x
      OBVIOUS
    <2>1. Readable(x)'
      BY DEF Readable
    <2>2. CASE w = v \/ x = v
      BY <2>1, <2>2, <1>4, <1>5, <1>6
    <2>3. CASE w # v /\ x # v
      BY <2>3, <1>4, <1>5 DEF PolyInv, BuffersOwned
    <2>4. QED
      BY <2>2, <2>3
  <1>9. heap' = dropped' \cup {begin'[w] : w \in {x \in Vectors : Readable(x)'}}
    <2> DEFINE old == {begin[w] : w \in {x \in Vectors : Readable(x)}}
               next == {begin'[w] : w \in {x \in Vectors : Readable(x)'}}
    <2>1. next \subseteq old \cup {new}
      BY <1>4, <1>5
    <2>2. new \in next
      BY <1>1, <1>4 DEF Readable
    <2>3. old \subseteq next \cup ({begin[v]} \cap Buffers)
      BY <1>4, <1>5 DEF Readable
    <2>4. {begin[v]} \cap Buffers \subseteq old
      BY DEF Readable
    <2>5. heap = dropped \cup old
      BY DEF PolyInv, BuffersOwned
    <2>6. heap' = heap \cup {new} /\ dropped' = dropped \cup ({begin[v]} \cap Buffers)
      BY DEF Realloc
    <2>7. heap' = dropped' \cup next
      BY <2>1, <2>2, <2>3, <2>4, <2>5, <2>6
    <2>8. QED
      BY <2>7
  <1>10. BuffersOwned'
    BY <1>7, <1>8, <1>9 DEF BuffersOwned
  <1>11. QED
    BY <1>2, <1>3, <1>10 DEF PolyInv

(* Handing a buffer over, the receiver's own one being freed before. *)
LEMMA MovedOwned ==
  ASSUME PolyInv, NEW v \in Vectors, NEW other \in Vectors,
         begin' = [begin EXCEPT ![v] = begin[other], ![other] = NULL],
         heap' = heap \ ({begin[v]} \cap Buffers),
         UNCHANGED <<written, allocated, dropped>>
  PROVE  PolyInv'
  <1> USE PolyVectorAssumption
  <1>0. /\ begin \in [Vectors -> Buffers \cup {0, NULL}]
        /\ 0 \notin Buffers /\ NULL \notin Buffers
    BY DEF PolyInv, PolyTypeOK, Buffers
  <1>1. PolyTypeOK'
    BY <1>0 DEF PolyInv, PolyTypeOK
  <1>2. heap' \subseteq 1 .. allocated'
    BY DEF PolyInv
  <1>3. \A w \in Vectors : begin'[w] = IF w = other THEN NULL
                                       ELSE IF w = v THEN begin[other] ELSE begin[w]
    BY <1>0
  <1>4. /\ ~Readable(other)'
        /\ v # other => Readable(v)' = Readable(other)
        /\ \A w \in Vectors \ {v, other} : Readable(w)' = Readable(w)
    BY <1>0, <1>3 DEF Readable
  <1>5. \A w \in Vectors : Readable(w)' => begin'[w] \in heap' \ dropped'
    <2> SUFFICES ASSUME NEW w \in Vectors, Readable(w)' PROVE begin'[w] \in heap' \ dropped'
      OBVIOUS
    <2>1. PICK x \in Vectors : Readable(x) /\ begin'[w] = begin[x] /\ x # v
      BY <1>3, <1>4
    <2>2. begin[x] \in heap \ dropped /\ begin[x] # begin[v]
      BY <2>1 DEF PolyInv, BuffersOwned
    <2>3. QED
      BY <2>1, <2>2
  <1>6. \A w, x \in Vectors : Readable(w)' /\ begin'[w] = begin'[x] => w = x
    <2> SUFFICES ASSUME NEW w \in Vectors, NEW x \in Vectors, Readable(w)', begin'[w] = begin'[x]
                 PROVE  w = x
      OBVIOUS
    <2>1. Readable(x)'
      BY DEF Readable
    <2>2. w # other /\ x # other
      BY <2>1, <1>4
    <2>3. QED
      BY <2>1, <2>2, <1>3, <1>4, ZenonT(60) DEF PolyInv, BuffersOwned
  <1>7. heap' = dropped' \cup {begin'[w] : w \in {x \in Vectors : Readable(x)'}}
    <2> DEFINE old == {begin[w] : w \in {x \in Vectors : Readable(x)}}
               next == {begin'[w] : w \in {x \in Vectors : Readable(x)'}}
    <2>1. \A b \in next : b \in old /\ (b # begin[v] \/ b \notin Buffers)
      <3> SUFFICES ASSUME NEW w \in Vectors, Readable(w)'
                   PROVE  begin'[w] \in old /\ begin'[w] # begin[v]
        BY Zenon
      <3>1. PICK x \in Vectors : Readable(x) /\ begin'[w] = begin[x] /\ x # v
        BY <1>3, <1>4
      <3>2. QED
        BY <3>1 DEF PolyInv, BuffersOwned
    <2>2. \A b \in old : b = begin[v] \/ b \in next
      <3> SUFFICES ASSUME NEW w \in Vectors, Readable(w), begin[w] # begin[v]
                   PROVE  begin[w] \in next
        BY Zenon
      <3>1. PICK x \in Vectors : Readable(x)' /\ begin'[x] = begin[w]
        BY <1>3, <1>4
      <3>2. QED
        BY <3>1
    <2>3. heap = dropped \cup old
      BY DEF PolyInv, BuffersOwned
    <2>4. \A b \in dropped : b # begin[v] \/ b \notin Buffers
      BY DEF PolyInv, BuffersOwned, Readable
    <2>5. old \subseteq Buffers
      BY DEF Readable
    <2>6. heap' = dropped' \cup next
      BY <2>1, <2>2, <2>3, <2>4, <2>5
    <2>7. QED
      BY <2>6
  <1>8. BuffersOwned'
    BY <1>5, <1>6, <1>7 DEF BuffersOwned
  <1>9. QED
    BY <1>1, <1>2, <1>8 DEF PolyInv

(* Every operation keeps PolyInv. *)
LEMMA PolyKept == PolyInv /\ [PolyNext]_polyVars => PolyInv'
  <1> SUFFICES ASSUME PolyInv, [PolyNext]_polyVars PROVE PolyInv'
    OBVIOUS
  <1> USE PolyVectorAssumption
  <1>0. /\ begin \in [Vectors -> Buffers \cup {0, NULL}]
        /\ 0 \notin Buffers /\ NULL \notin Buffers /\ NULL # 0
    BY DEF PolyInv, PolyTypeOK, Buffers
  <1>1. ASSUME NEW v \in Vectors, NEW content \in Contents, Construct(v, content)
        PROVE  PolyInv'
    <2>1. dropped' = dropped \cup ({begin[v]} \cap Buffers)
      BY <1>0, <1>1 DEF Construct
    <2>2. QED
      BY <1>1, <2>1, ReallocOwned DEF Construct
  <1>2. ASSUME NEW v \in Vectors, NEW content \in Contents, Write(v, content)
        PROVE  PolyInv'
    BY <1>2 DEF Write, PolyInv, PolyTypeOK, BuffersOwned, Readable
  <1>3. ASSUME NEW v \in Vectors, NEW other \in Vectors, CopyConstruct(v, other)
        PROVE  PolyInv'
    <2>1. dropped' = dropped \cup ({begin[v]} \cap Buffers)
      BY <1>0, <1>3 DEF CopyConstruct
    <2>2. written[begin[other]] \in Contents
      BY <1>3 DEF CopyConstruct, Readable, PolyInv, PolyTypeOK
    <2>3. QED
      BY <1>3, <2>1, <2>2, ReallocOwned DEF CopyConstruct
  <1>4. ASSUME NEW v \in Vectors, NEW other \in Vectors, CopyAssign(v, other)
        PROVE  PolyInv'
    <2>1. written[begin[other]] \in Contents
      BY <1>4 DEF CopyAssign, Readable, PolyInv, PolyTypeOK
    <2>2. QED
      BY <1>4, <2>1, ReallocOwned DEF CopyAssign
  <1>5. ASSUME NEW v \in Vectors, NEW other \in Vectors,
               MoveConstruct(v, other) \/ MoveAssign(v, other)
        PROVE  PolyInv'
    <2>1. /\ begin' = [begin EXCEPT ![v] = begin[other], ![other] = NULL]
          /\ heap' = heap \ ({begin[v]} \cap Buffers)
          /\ begin[other] # 0 /\ UNCHANGED <<written, allocated, dropped>>
      BY <1>0, <1>5, ZenonT(60) DEF MoveConstruct, MoveAssign, PolyInv, PolyTypeOK
    <2>2. QED
      BY <1>0, <2>1, MovedOwned
  <1>6. ASSUME NEW v \in Vectors, NEW other \in Vectors, SwapBuffers(v, other)
        PROVE  PolyInv'
    <2> USE <1>6 DEF SwapBuffers
    <2>1. PolyTypeOK'
      BY DEF PolyInv, PolyTypeOK
    <2>2. QED
      BY <2>1, <1>0 DEF PolyInv, BuffersOwned, Readable
  <1>7. ASSUME NEW v \in Vectors, Destruct(v)
        PROVE  PolyInv'
    <2> USE <1>7 DEF Destruct
    <2>1. PolyTypeOK'
      BY <1>0 DEF PolyInv, PolyTypeOK
    <2>2. /\ ~Readable(v)'
          /\ \A w \in Vectors \ {v} : begin'[w] = begin[w] /\ Readable(w)' = Readable(w)
      BY <1>0 DEF Readable
    <2>3. \A w \in Vectors \ {v} : Readable(w) => begin[w] # begin[v]
      BY DEF PolyInv, BuffersOwned
    <2>4. /\ \A w \in Vectors : Readable(w)' => begin'[w] \in heap' \ dropped'
          /\ \A w, x \in Vectors : Readable(w)' /\ begin'[w] = begin'[x] => w = x
      <3>1. \A w, x \in Vectors : Readable(w)' /\ begin'[w] = begin'[x] => w # v /\ x # v
        BY <2>2 DEF Readable
      <3>2. QED
        BY <2>2, <2>3, <3>1 DEF PolyInv, BuffersOwned
    <2>5. heap' = dropped' \cup {begin'[w] : w \in {x \in Vectors : Readable(x)'}}
      <3> DEFINE old == {begin[w] : w \in {x \in Vectors : Readable(x)}}
                 next == {begin'[w] : w \in {x \in Vectors : Readable(x)'}}
      <3>1. next = old \ {begin[v]}
        BY <2>2, <2>3
      <3>2. heap = dropped \cup old
        BY DEF PolyInv, BuffersOwned
      <3>3. begin[v] \notin dropped
        BY <1>0 DEF PolyInv, PolyTypeOK, BuffersOwned, Readable
      <3>4. heap' = dropped' \cup next
        BY <3>1, <3>2, <3>3
      <3>5. QED
        BY <3>4
    <2>6. QED
      BY <2>1, <2>4, <2>5 DEF PolyInv, BuffersOwned
  <1>8. CASE UNCHANGED polyVars
    BY <1>8 DEF polyVars, PolyInv, PolyTypeOK, BuffersOwned, Readable
  <1>9. QED
    BY <1>1, <1>2, <1>3, <1>4, <1>5, <1>6, <1>7, <1>8 DEF PolyNext

-----------------------------------------------------------------------------

(* A vector's pointer is a buffer's number, NULL or nothing yet, and no    *)
(* more buffers are allocated than there are: every state of PolyVector is *)
(* well typed.                                                             *)
THEOREM PolyTypeCorrect == PolySpec => []PolyTypeOK
  <1>1. PolyInv => PolyTypeOK
    BY DEF PolyInv
  <1>2. QED
    BY PolyInitial, PolyKept, <1>1, PTL DEF PolySpec

(* However vectors are constructed, copied, moved, swapped, assigned to    *)
(* themselves and destroyed, each buffer has one owner that may use it, or *)
(* is one that a copy assignment dropped: no double free, no use after it. *)
THEOREM BuffersOwnedCorrect == PolySpec => []BuffersOwned
  <1>1. PolyInv => BuffersOwned
    BY DEF PolyInv
  <1>2. QED
    BY PolyInitial, PolyKept, <1>1, PTL DEF PolySpec

-----------------------------------------------------------------------------
(* Natural numbers: a set of them has a least element, without induction.  *)
LEMMA NatMin ==
    ASSUME NEW A \in SUBSET Nat, A # {}
    PROVE  \E x \in A : \A y \in A : x <= y
<1> DEFINE R == StrictSubsetOrdering(Nat)
           T == {0 .. x : x \in A}
<1>1. T \subseteq FiniteSubsetsOf(Nat) /\ T # {}
  <2>1. \A x \in Nat : IsFiniteSet(0 .. x) /\ 0 .. x \subseteq Nat
    BY FS_Interval
  <2> QED BY <2>1 DEF FiniteSubsetsOf
<1>2. IsWellFoundedOn(R, FiniteSubsetsOf(Nat))
  BY FS_StrictSubsetOrderingWellFounded
<1>3. PICK t \in T : \A u \in T : <<u, t>> \notin R
  <2> HIDE DEF R, T
  <2> QED BY <1>1, <1>2, WFMin
<1>4. PICK x \in A : t = 0 .. x
  OBVIOUS
<1>5. ASSUME NEW y \in A, y < x PROVE FALSE
  <2>1. 0 .. y \in T /\ 0 .. y \subseteq 0 .. x /\ 0 .. y # 0 .. x
    <3>1. x \in 0 .. x /\ x \notin 0 .. y
      BY <1>5
    <3> QED BY <1>5, <3>1
  <2>2. 0 .. y \in SUBSET Nat /\ 0 .. x \in SUBSET Nat
    OBVIOUS
  <2>3. <<0 .. y, t>> \in R
    BY <1>4, <2>1, <2>2 DEF StrictSubsetOrdering
  <2> QED BY <1>3, <2>1, <2>3
<1>6. \A y \in A : x <= y
  BY <1>5
<1> QED BY <1>6

-----------------------------------------------------------------------------
(* UnionFind.                                                              *)

Parents == [Indices -> Indices]

(* f is the chain of parents above x. *)
IsChain(f, p, x) ==
    f \in [Nat -> Indices] /\ f[0] = x /\ \A k \in Nat : f[k + 1] = p[f[k]]

(* A chain exists: its beginnings do, of every length, and agree. *)
LEMMA ChainExists ==
    ASSUME NEW p \in Parents, NEW x \in Indices
    PROVE  \E f : IsChain(f, p, x)
<1> DEFINE Starts(n, s) == /\ s \in [0 .. n -> Indices] /\ s[0] = x
                           /\ \A k \in 0 .. n - 1 : s[k + 1] = p[s[k]]
           Short == {n \in Nat : ~ \E s : Starts(n, s)}
<1>1. Short = {}
  <2> SUFFICES ASSUME Short # {} PROVE FALSE
    OBVIOUS
  <2>1. PICK n \in Short : \A m \in Short : n <= m
    BY NatMin
  <2>2. n # 0
    <3>1. Starts(0, [k \in 0 .. 0 |-> x])
      OBVIOUS
    <3>2. 0 \notin Short
      BY <3>1
    <3> QED BY <2>1, <3>2
  <2>3. n - 1 \in Nat /\ n - 1 \notin Short
    <3>1. n \in Nat
      BY <2>1
    <3>2. n - 1 \in Nat
      BY <2>2, <3>1
    <3> HIDE DEF Short
    <3> QED BY <2>1, <3>1, <3>2
  <2>4. PICK s : Starts(n - 1, s)
    BY <2>3
  <2> DEFINE t == [k \in 0 .. n |-> IF k = n THEN p[s[n - 1]] ELSE s[k]]
  <2>5. Starts(n, t)
    <3>1. s[n - 1] \in Indices /\ p[s[n - 1]] \in Indices
      BY <2>3, <2>4 DEF Parents
    <3>2. t \in [0 .. n -> Indices] /\ t[0] = x
      BY <2>2, <2>3, <2>4, <3>1
    <3>3. ASSUME NEW k \in 0 .. n - 1 PROVE t[k + 1] = p[t[k]]
      <4>1. t[k] = s[k]
        BY <2>3
      <4>2. CASE k = n - 1
        BY <2>3, <4>1, <4>2
      <4>3. CASE k # n - 1
        <5>1. k \in 0 .. (n - 1) - 1 /\ k + 1 \in 0 .. n /\ k + 1 # n
          BY <2>3, <4>3
        <5> QED BY <2>4, <4>1, <5>1
      <4> QED BY <4>2, <4>3
    <3> QED BY <3>2, <3>3
  <2> QED BY <2>1, <2>5
<1>2. \A n \in Nat : \E s : Starts(n, s)
  BY <1>1
<1> DEFINE s(n) == CHOOSE s : Starts(n, s)
           f == [n \in Nat |-> s(n)[n]]
<1>3. \A n \in Nat : Starts(n, s(n))
  BY <1>2
<1>4. f = [n \in Nat |-> s(n)[n]]
  OBVIOUS
<1> HIDE DEF s
<1>5. ASSUME NEW m \in Nat, NEW n \in Nat, m <= n PROVE s(m)[m] = s(n)[m]
  <2> DEFINE Apart == {k \in 0 .. m : s(m)[k] # s(n)[k]}
  <2> SUFFICES ASSUME Apart # {} PROVE FALSE
    OBVIOUS
  <2>1. PICK k \in Apart : \A j \in Apart : k <= j
    <3>1. Apart \in SUBSET Nat
      OBVIOUS
    <3> HIDE DEF Apart
    <3> QED BY <3>1, NatMin
  <2>2. Starts(m, s(m)) /\ Starts(n, s(n))
    BY <1>3
  <2>3. k # 0
    BY <2>1, <2>2
  <2>4. k - 1 \in 0 .. m - 1 /\ k - 1 \in 0 .. n - 1 /\ k - 1 \notin Apart /\ (k - 1) + 1 = k
    BY <1>5, <2>1, <2>3
  <2>5. s(m)[k] = p[s(m)[k - 1]] /\ s(n)[k] = p[s(n)[k - 1]]
    BY <2>2, <2>4
  <2> QED BY <2>1, <2>4, <2>5
<1>6. \A n \in Nat : f[n] = s(n)[n] /\ f[n] \in Indices
  <2> SUFFICES ASSUME NEW n \in Nat PROVE f[n] = s(n)[n] /\ f[n] \in Indices
    OBVIOUS
  <2>1. Starts(n, s(n))
    BY <1>3
  <2> QED BY <1>4, <2>1
<1>7. f[0] = x
  <2>1. Starts(0, s(0))
    BY <1>3
  <2> QED BY <2>1, <1>6
<1>8. ASSUME NEW k \in Nat PROVE f[k + 1] = p[f[k]]
  <2>1. Starts(k + 1, s(k + 1)) /\ s(k)[k] = s(k + 1)[k]
    BY <1>3, <1>5
  <2>2. k \in 0 .. (k + 1) - 1
    OBVIOUS
  <2>3. s(k + 1)[k + 1] = p[s(k + 1)[k]]
    BY <2>1, <2>2
  <2> QED BY <1>6, <2>1, <2>3
<1>9. f \in [Nat -> Indices]
  <2> QED BY <1>6
<1> HIDE DEF f
<1> QED BY <1>7, <1>8, <1>9 DEF IsChain

(* ... and the recursive definition chooses one. *)
LEMMA AboveIsChain ==
    ASSUME NEW p \in Parents, NEW x \in Indices
    PROVE  IsChain(Above(p, x), p, x)
<1> DEFINE Up(f) == [k \in Nat |-> IF k = 0 THEN x ELSE p[f[k - 1]]]
           g == CHOOSE f : f = Up(f)
<1>1. PICK f : IsChain(f, p, x)
  BY ChainExists
<1>2. f = Up(f)
  <2>1. \A k \in Nat : f[k] = Up(f)[k]
    <3> SUFFICES ASSUME NEW k \in Nat, k # 0 PROVE f[k] = p[f[k - 1]]
      BY <1>1 DEF IsChain
    <3>1. k - 1 \in Nat /\ (k - 1) + 1 = k
      OBVIOUS
    <3> QED BY <1>1, <3>1 DEF IsChain
  <2> QED BY <1>1, <2>1 DEF IsChain
<1>3. g = Up(g)
  BY <1>2
<1>4. Above(p, x) = g
  BY DEF Above
<1> HIDE DEF g
<1>5. \A k \in Nat : g[k] = IF k = 0 THEN x ELSE p[g[k - 1]]
  BY <1>3
<1>6. g[0] = x /\ \A k \in Nat : g[k + 1] = p[g[k]]
  <2>1. ASSUME NEW k \in Nat PROVE g[k + 1] = p[g[k]]
    <3>1. k + 1 \in Nat /\ k + 1 # 0 /\ (k + 1) - 1 = k
      OBVIOUS
    <3> QED BY <1>5, <3>1
  <2> QED BY <1>5, <2>1
<1>7. ASSUME NEW k \in Nat, g[k] \notin Indices PROVE FALSE
  <2> DEFINE Out == {n \in Nat : g[n] \notin Indices}
  <2>1. PICK n \in Out : \A m \in Out : n <= m
    BY <1>7, NatMin
  <2>2. n # 0
    BY <1>6, <2>1
  <2>3. n - 1 \in Nat /\ (n - 1) + 1 = n /\ g[n - 1] \in Indices
    BY <2>1, <2>2
  <2>4. g[n] = p[g[n - 1]]
    BY <1>6, <2>3
  <2> QED BY <2>1, <2>3, <2>4 DEF Parents
<1>8. g \in [Nat -> Indices]
  <2>1. g = [k \in Nat |-> g[k]]
    BY <1>3
  <2> QED BY <1>7, <2>1
<1> QED BY <1>4, <1>6, <1>8 DEF IsChain

(* The distance to the root decreases along the parents: no cycles.        *)
Acyclic(p) ==
    \E d \in [Indices -> Nat] : \A i \in Indices : p[i] # i => d[p[i]] < d[i]

(* A chain of Elements steps in a forest ends in a root: otherwise it      *)
(* would have passed more indices than there are.                          *)
LEMMA RootIs ==
    ASSUME NEW p \in Parents, Acyclic(p), NEW x \in Indices
    PROVE  RootOf(p, x) \in Indices /\ Root(p, RootOf(p, x))
<1> DEFINE f == Above(p, x)
<1>1. Elements \in Nat
  BY UnionFindAssumption
<1>2. f \in [Nat -> Indices] /\ \A k \in Nat : f[k + 1] = p[f[k]]
  BY AboveIsChain DEF IsChain
<1>3. PICK d \in [Indices -> Nat] : \A i \in Indices : p[i] # i => d[p[i]] < d[i]
  BY DEF Acyclic
<1> HIDE DEF f
<1>4. SUFFICES ASSUME p[f[Elements]] # f[Elements] PROVE FALSE
  BY <1>1, <1>2 DEF RootOf, Root, f
<1>5. ASSUME NEW m \in 0 .. Elements, NEW n \in 0 .. Elements, m < n PROVE d[f[n]] < d[f[m]]
  <2> DEFINE Up == {k \in Nat : m < k /\ k <= Elements /\ ~ (d[f[k]] < d[f[m]])}
  <2> SUFFICES ASSUME Up # {} PROVE FALSE
    BY <1>1, <1>5
  <2>1. PICK k \in Up : \A j \in Up : k <= j
    BY NatMin
  <2>2. k \in Nat /\ k - 1 \in Nat /\ (k - 1) + 1 = k /\ m < k /\ k <= Elements
    BY <1>1, <2>1
  <2>3. d[f[k - 1]] \in Nat /\ d[f[k]] \in Nat /\ d[f[m]] \in Nat
    BY <1>1, <1>2, <1>3, <2>2
  <2>4. f[k] = p[f[k - 1]]
    BY <1>2, <2>2
  <2>5. k - 1 = m \/ d[f[k - 1]] < d[f[m]]
    <3>1. k - 1 \notin Up
      BY <2>1, <2>2
    <3> QED BY <1>1, <2>2, <3>1
  <2>6. CASE f[k] # f[k - 1]
    <3>1. d[f[k]] < d[f[k - 1]]
      BY <1>2, <1>3, <2>2, <2>4, <2>6
    <3> QED BY <2>1, <2>3, <2>5, <3>1
  <2>7. CASE f[k] = f[k - 1]
    <3> DEFINE Left == {j \in Nat : k <= j /\ j <= Elements /\ f[j] # f[k]}
    <3>1. Elements \in Left
      <4>1. p[f[k]] = f[k]
        BY <2>4, <2>7
      <4>2. f[Elements] # f[k]
        BY <1>4, <4>1
      <4> QED BY <1>1, <2>2, <4>2
    <3>2. PICK j \in Left : \A i \in Left : j <= i
      BY <3>1, NatMin
    <3>3. j # k /\ j - 1 \in Nat /\ (j - 1) + 1 = j /\ k <= j - 1 /\ j - 1 <= Elements
      BY <1>1, <2>2, <3>2
    <3>4. f[j - 1] = f[k]
      BY <3>2, <3>3
    <3>5. f[j] = p[f[j - 1]]
      BY <1>2, <3>3
    <3> QED BY <2>4, <2>7, <3>2, <3>4, <3>5
  <2> QED BY <2>6, <2>7
<1>6. IsFiniteSet(0 .. Elements) /\ Cardinality(0 .. Elements) = Elements + 1
  BY <1>1, FS_Interval
<1>7. IsFiniteSet(Indices) /\ Cardinality(Indices) = Elements
  BY <1>1, UnionFindAssumption, FS_Interval DEF Indices
<1> DEFINE g == [k \in 0 .. Elements |-> f[k]]
<1>8. g \in [0 .. Elements -> Indices]
  BY <1>1, <1>2
<1>9. PICK m, n \in 0 .. Elements : m # n /\ g[m] = g[n]
  <2>1. Cardinality(Indices) < Cardinality(0 .. Elements)
    BY <1>1, <1>6, <1>7
  <2> HIDE DEF g
  <2> QED BY <1>6, <1>7, <1>8, <2>1, FS_PigeonHole, ZenonT(60)
<1>10. d[f[m]] \in Nat /\ f[m] = f[n] /\ (m < n \/ n < m)
  <2>1. f[m] = f[n]
    BY <1>9
  <2> QED BY <1>1, <1>2, <1>3, <1>9, <2>1, SMTT(30)
<1> QED BY <1>5, <1>10

(* What the parents keep, the root has as well.                            *)
LEMMA RootKeeps ==
    ASSUME NEW p \in Parents, NEW x \in Indices, NEW g, \A i \in Indices : g[p[i]] = g[i]
    PROVE  g[RootOf(p, x)] = g[x]
<1> DEFINE f == Above(p, x)
           Changed == {k \in Nat : g[f[k]] # g[x]}
<1>1. f \in [Nat -> Indices] /\ f[0] = x /\ \A k \in Nat : f[k + 1] = p[f[k]]
  BY AboveIsChain DEF IsChain
<1> HIDE DEF f
<1>2. SUFFICES Changed = {}
  BY UnionFindAssumption DEF RootOf, f
<1>3. SUFFICES ASSUME Changed # {} PROVE FALSE
  OBVIOUS
<1>4. PICK k \in Changed : \A j \in Changed : k <= j
  BY <1>3, NatMin
<1>5. k # 0 /\ k \in Nat /\ k - 1 \in Nat /\ (k - 1) + 1 = k
  BY <1>1, <1>4
<1>6. g[f[k - 1]] = g[x] /\ f[k] = p[f[k - 1]] /\ f[k - 1] \in Indices
  BY <1>1, <1>4, <1>5
<1> QED BY <1>4, <1>6

LEMMA RootOfParent ==
    ASSUME NEW p \in Parents, Acyclic(p), NEW x \in Indices
    PROVE  /\ p[x] \in Indices /\ RootOf(p, p[x]) = RootOf(p, x)
           /\ Root(p, x) => RootOf(p, x) = x
<1> DEFINE f == Above(p, x)
           h == Above(p, p[x])
           Apart == {k \in Nat : h[k] # f[k + 1]}
           Left == {k \in Nat : f[k] # x}
<1>1. p[x] \in Indices /\ Elements \in Nat
  BY UnionFindAssumption DEF Parents
<1>2. /\ f \in [Nat -> Indices] /\ f[0] = x /\ \A k \in Nat : f[k + 1] = p[f[k]]
      /\ h \in [Nat -> Indices] /\ h[0] = p[x] /\ \A k \in Nat : h[k + 1] = p[h[k]]
  BY <1>1, AboveIsChain DEF IsChain
<1>3. RootOf(p, x) = f[Elements] /\ RootOf(p, p[x]) = h[Elements]
  BY DEF RootOf
<1> HIDE DEF f, h
<1>4. ASSUME Apart # {} PROVE FALSE
  <2>1. PICK k \in Apart : \A j \in Apart : k <= j
    BY <1>4, NatMin
  <2>2. k # 0
    BY <1>2, <2>1
  <2>3. k \in Nat /\ k - 1 \in Nat /\ (k - 1) + 1 = k
    BY <2>1, <2>2
  <2>4. h[k - 1] = f[k]
    BY <2>1, <2>3
  <2>5. h[k] = p[h[k - 1]] /\ f[k + 1] = p[f[k]]
    BY <1>2, <2>3
  <2> QED BY <2>1, <2>4, <2>5
<1>5. h[Elements] = p[f[Elements]]
  BY <1>1, <1>2, <1>4
<1>6. p[f[Elements]] = f[Elements]
  BY <1>3, RootIs DEF Root
<1>7. ASSUME Root(p, x), Left # {} PROVE FALSE
  <2>1. PICK k \in Left : \A j \in Left : k <= j
    BY <1>7, NatMin
  <2>2. k # 0
    BY <1>2, <2>1
  <2>3. k \in Nat /\ k - 1 \in Nat /\ (k - 1) + 1 = k
    BY <2>1, <2>2
  <2>4. f[k - 1] = x
    BY <2>1, <2>3
  <2> QED BY <1>2, <1>7, <2>1, <2>3, <2>4 DEF Root
<1> QED BY <1>1, <1>3, <1>5, <1>6, <1>7

(* The roots of a forest are the only labels that the parents keep and     *)
(* that the roots have of themselves.                                      *)
LEMMA RootsUnique ==
    ASSUME NEW p \in Parents, Acyclic(p), NEW g \in [Indices -> Indices],
           \A i \in Indices : g[p[i]] = g[i] /\ (Root(p, i) => g[i] = i)
    PROVE  \A i \in Indices : RootOf(p, i) = g[i]
<1> SUFFICES ASSUME NEW i \in Indices PROVE RootOf(p, i) = g[i]
  OBVIOUS
<1>1. RootOf(p, i) \in Indices /\ Root(p, RootOf(p, i))
  BY RootIs
<1>2. g[RootOf(p, i)] = g[i]
  BY RootKeeps
<1> QED BY <1>1, <1>2

(* Path halving leaves a forest with the same roots.                       *)
LEMMA HalvedKept ==
    ASSUME NEW p \in Parents, Acyclic(p), NEW x \in Indices
    PROVE  LET q == Halved(p, x)
           IN  /\ q \in Parents /\ Acyclic(q)
               /\ \A i \in Indices : q[i] = p[i] \/ q[i] = p[p[i]]
               /\ \A i \in Indices : /\ RootOf(q, i) = RootOf(p, i)
                                     /\ Root(q, i) <=> Root(p, i)
<1> DEFINE q == Halved(p, x)
           g == [i \in Indices |-> RootOf(p, i)]
<1>1. q \in Parents /\ \A i \in Indices : q[i] = p[i] \/ q[i] = p[p[i]]
  BY DEF Halved, Parents
<1> HIDE DEF q
<1>2. PICK d \in [Indices -> Nat] : \A i \in Indices : p[i] # i => d[p[i]] < d[i]
  BY DEF Acyclic
<1>3. \A i \in Indices : p[i] \in Indices /\ p[p[i]] \in Indices
  BY DEF Parents
<1>4. ASSUME NEW i \in Indices
      PROVE  (q[i] # i => d[q[i]] < d[i]) /\ (q[i] = i <=> p[i] = i)
  <2>1. /\ d[i] \in Nat /\ d[p[i]] \in Nat /\ d[p[p[i]]] \in Nat
        /\ p[i] # i => d[p[i]] < d[i]
        /\ p[p[i]] # p[i] => d[p[p[i]]] < d[p[i]]
    BY <1>2, <1>3
  <2>2. CASE p[i] = i
    BY <1>1, <2>2
  <2>3. CASE p[i] # i
    <3>1. d[p[p[i]]] < d[i] /\ d[p[i]] < d[i]
      BY <2>1, <2>3
    <3> QED BY <1>1, <2>1, <2>3, <3>1
  <2> QED BY <2>2, <2>3
<1>5. Acyclic(q) /\ \A i \in Indices : Root(q, i) <=> Root(p, i)
  BY <1>4 DEF Acyclic, Root
<1>6. g \in [Indices -> Indices]
  BY RootIs
<1>7. ASSUME NEW i \in Indices PROVE g[q[i]] = g[i] /\ (Root(q, i) => g[i] = i)
  <2>1. RootOf(p, p[i]) = RootOf(p, i) /\ RootOf(p, p[p[i]]) = RootOf(p, p[i])
    BY <1>3, RootOfParent
  <2>2. Root(p, i) => RootOf(p, i) = i
    BY RootOfParent
  <2> QED BY <1>1, <1>3, <1>5, <2>1, <2>2
<1>8. \A i \in Indices : RootOf(q, i) = g[i]
  <2> HIDE DEF g
  <2> QED BY <1>1, <1>5, <1>6, <1>7, RootsUnique
<1> QED BY <1>1, <1>5, <1>8 DEF q

(* Indices hung under a root leave a forest, whatever they were.           *)
LEMMA HungForest ==
    ASSUME NEW p \in Parents, Acyclic(p), NEW top \in Indices, Root(p, top),
           NEW H \in SUBSET Indices, top \notin H,
           NEW q, q = [i \in Indices |-> IF i \in H THEN top ELSE p[i]]
    PROVE  /\ q \in Parents /\ Acyclic(q)
           /\ \A i \in Indices : Root(q, i) <=> Root(p, i) /\ i \notin H
<1>1. PICK d \in [Indices -> Nat] : \A i \in Indices : p[i] # i => d[p[i]] < d[i]
  BY DEF Acyclic
<1> DEFINE e == [i \in Indices |-> IF i = top THEN 0 ELSE d[i] + 1]
<1>2. q \in Parents /\ e \in [Indices -> Nat]
  BY <1>1 DEF Parents
<1>3. ASSUME NEW i \in Indices, q[i] # i PROVE e[q[i]] < e[i]
  <2>1. i # top
    BY <1>3 DEF Root
  <2>2. d[i] \in Nat /\ d[p[i]] \in Nat /\ p[i] \in Indices
    BY <1>1 DEF Parents
  <2>3. CASE q[i] = top
    BY <2>1, <2>2, <2>3
  <2>4. CASE q[i] # top
    <3>1. q[i] = p[i] /\ d[p[i]] < d[i]
      BY <1>1, <1>3, <2>4
    <3> QED BY <2>1, <2>2, <2>4, <3>1
  <2> QED BY <2>3, <2>4
<1>4. Acyclic(q)
  <2> HIDE DEF e
  <2> QED BY <1>2, <1>3 DEF Acyclic
<1> QED BY <1>2, <1>4 DEF Root

(* A root hung under another one takes its tree along.                     *)
LEMMA LinkedRoots ==
    ASSUME NEW p \in Parents, Acyclic(p), NEW top \in Indices, Root(p, top),
           NEW child \in Indices, Root(p, child), child # top
    PROVE  LET q == [p EXCEPT ![child] = top]
           IN  /\ q \in Parents /\ Acyclic(q)
               /\ \A i \in Indices : Root(q, i) <=> Root(p, i) /\ i # child
               /\ \A i \in Indices :
                    RootOf(q, i) = IF RootOf(p, i) = child THEN top ELSE RootOf(p, i)
<1> DEFINE q == [p EXCEPT ![child] = top]
           g == [i \in Indices |-> IF RootOf(p, i) = child THEN top ELSE RootOf(p, i)]
<1>1. q = [i \in Indices |-> IF i \in {child} THEN top ELSE p[i]]
  BY DEF Parents
<1>2. /\ q \in Parents /\ Acyclic(q)
      /\ \A i \in Indices : Root(q, i) <=> Root(p, i) /\ i # child
  <2> HIDE DEF q
  <2> DEFINE H == {child}
  <2>1. H \in SUBSET Indices /\ top \notin H /\ \A i : i \in H <=> i = child
    OBVIOUS
  <2> HIDE DEF H
  <2>2. q = [i \in Indices |-> IF i \in H THEN top ELSE p[i]]
    BY <1>1 DEF H
  <2>3. /\ q \in Parents /\ Acyclic(q)
        /\ \A i \in Indices : Root(q, i) <=> Root(p, i) /\ i \notin H
    BY <2>1, <2>2, HungForest
  <2> QED BY <2>1, <2>3
<1> HIDE DEF q
<1>3. g \in [Indices -> Indices]
  BY RootIs
<1>4. RootOf(p, child) = child /\ RootOf(p, top) = top
  BY RootOfParent
<1>5. ASSUME NEW i \in Indices PROVE g[q[i]] = g[i] /\ (Root(q, i) => g[i] = i)
  <2>1. CASE i = child
    <3>1. q[i] = top
      BY <1>1, <2>1
    <3> QED BY <1>2, <1>4, <2>1, <3>1
  <2>2. CASE i # child
    <3>1. q[i] = p[i] /\ p[i] \in Indices /\ RootOf(p, p[i]) = RootOf(p, i)
      BY <1>1, <2>2, RootOfParent
    <3>2. Root(q, i) => RootOf(p, i) = i
      BY <1>2, RootOfParent
    <3> QED BY <2>2, <3>1, <3>2
  <2> QED BY <2>1, <2>2
<1>6. \A i \in Indices : RootOf(q, i) = g[i]
  <2> HIDE DEF g
  <2> QED BY <1>2, <1>3, <1>5, RootsUnique
<1> QED BY <1>2, <1>6 DEF q

(* Indices hung under a root have that root, with everything that was hung *)
(* there before; if nothing was hung under them, nothing else changes.     *)
LEMMA HungRoots ==
    ASSUME NEW p \in Parents, Acyclic(p), NEW top \in Indices, Root(p, top),
           NEW H \in SUBSET Indices, top \notin H,
           NEW q, q = [i \in Indices |-> IF i \in H THEN top ELSE p[i]]
    PROVE  /\ \A i \in Indices : i \in H \/ p[i] = top => RootOf(q, i) = top
           /\ (\A i \in Indices : p[i] \in H => p[i] = i) =>
                \A i \in Indices : RootOf(q, i) = IF i \in H THEN top ELSE RootOf(p, i)
<1> DEFINE g == [i \in Indices |-> IF i \in H THEN top ELSE RootOf(p, i)]
<1>1. /\ q \in Parents /\ Acyclic(q)
      /\ \A i \in Indices : Root(q, i) <=> Root(p, i) /\ i \notin H
  BY HungForest
<1>2. ASSUME NEW i \in Indices, i \in H \/ p[i] = top PROVE RootOf(q, i) = top
  <2>1. q[i] = top /\ Root(q, top)
    BY <1>1, <1>2
  <2> QED BY <1>1, <2>1, RootOfParent
<1>3. ASSUME \A i \in Indices : p[i] \in H => p[i] = i
      PROVE  \A i \in Indices : RootOf(q, i) = g[i]
  <2>1. g \in [Indices -> Indices]
    BY RootIs
  <2>2. RootOf(p, top) = top
    BY RootOfParent
  <2>3. ASSUME NEW i \in Indices PROVE g[q[i]] = g[i] /\ (Root(q, i) => g[i] = i)
    <3>1. p[i] \in Indices /\ RootOf(p, p[i]) = RootOf(p, i) /\ (Root(p, i) => RootOf(p, i) = i)
      BY RootOfParent
    <3>2. CASE i \in H
      BY <1>1, <2>2, <3>2
    <3>3. CASE i \notin H
      <4>1. q[i] = p[i] /\ p[i] \notin H
        BY <1>3, <3>3
      <4> QED BY <1>1, <3>1, <3>3, <4>1
    <3> QED BY <3>2, <3>3
  <2> HIDE DEF g
  <2> QED BY <1>1, <2>1, <2>3, RootsUnique, ZenonT(60)
<1> QED BY <1>2, <1>3

(* If no parent is smaller than its child, no root is smaller than what    *)
(* hangs under it.                                                         *)
LEMMA RootIsLargest ==
    ASSUME NEW p \in Parents, NEW x \in Indices, \A i \in Indices : i <= p[i]
    PROVE  x <= RootOf(p, x)
<1> DEFINE f == Above(p, x)
           Below == {k \in Nat : ~ (x <= f[k])}
<1>1. f \in [Nat -> Indices] /\ f[0] = x /\ \A k \in Nat : f[k + 1] = p[f[k]]
  BY AboveIsChain DEF IsChain
<1> HIDE DEF f
<1>2. SUFFICES Below = {}
  BY UnionFindAssumption DEF RootOf, f
<1>3. SUFFICES ASSUME Below # {} PROVE FALSE
  OBVIOUS
<1>4. PICK k \in Below : \A j \in Below : k <= j
  BY <1>3, NatMin
<1>5. Indices \subseteq Nat
  BY UnionFindAssumption DEF Indices
<1>6. k # 0 /\ k \in Nat /\ k - 1 \in Nat /\ (k - 1) + 1 = k
  BY <1>1, <1>4, <1>5
<1>7. /\ x <= f[k - 1] /\ f[k] = p[f[k - 1]] /\ f[k - 1] \in Indices /\ f[k - 1] <= p[f[k - 1]]
      /\ f[k] \in Indices
  BY <1>1, <1>4, <1>6
<1>8. x \in Nat /\ f[k - 1] \in Nat /\ f[k] \in Nat /\ f[k - 1] <= f[k]
  BY <1>5, <1>7
<1>9. x <= f[k]
  BY <1>7, <1>8
<1> QED BY <1>4, <1>9

-----------------------------------------------------------------------------
(* The partition.                                                          *)

IsPartition(P) ==
    /\ UNION P = Indices /\ {} \notin P
    /\ \A S, T \in P : S \cap T # {} => S = T

BlockOf(P, x) == CHOOSE S \in P : x \in S

LEMMA BlockIs ==
    ASSUME NEW P, IsPartition(P), NEW x \in Indices
    PROVE  /\ BlockOf(P, x) \in P /\ x \in BlockOf(P, x) /\ BlockOf(P, x) \subseteq Indices
           /\ \A S \in P : x \in S => S = BlockOf(P, x)
           /\ \A y \in BlockOf(P, x) : BlockOf(P, y) = BlockOf(P, x)
<1>1. \E S \in P : x \in S
  BY DEF IsPartition
<1>2. BlockOf(P, x) \in P /\ x \in BlockOf(P, x)
  BY <1>1 DEF BlockOf
<1>3. BlockOf(P, x) \subseteq Indices
  BY <1>2 DEF IsPartition
<1>4. \A S \in P : x \in S => S = BlockOf(P, x)
  BY <1>2 DEF IsPartition
<1>5. ASSUME NEW y \in BlockOf(P, x) PROVE BlockOf(P, y) = BlockOf(P, x)
  <2>1. BlockOf(P, y) \in P /\ y \in BlockOf(P, y)
    BY <1>2, <1>5 DEF BlockOf
  <2> QED BY <1>2, <1>5, <2>1 DEF IsPartition
<1> QED BY <1>2, <1>3, <1>4, <1>5

(* The indices whose set meets m. *)
Reached(m) == {y \in Indices : BlockOf(partition, y) \cap m # {}}

(* Joining makes one set of those that meet m and leaves the others.       *)
LEMMA JoinedBlocks ==
    ASSUME IsPartition(partition), NEW m \in SUBSET Indices, m # {}
    PROVE  /\ IsPartition(Joined(m))
           /\ \A x \in Indices :
                BlockOf(Joined(m), x) = IF x \in Reached(m) THEN Reached(m)
                                        ELSE BlockOf(partition, x)
<1> DEFINE touched == {S \in partition : S \cap m # {}}
           Q == (partition \ touched) \cup {UNION touched}
<1>1. Joined(m) = Q
  BY DEF Joined
<1>2. ASSUME NEW S \in partition, NEW x \in S PROVE x \in Indices /\ S = BlockOf(partition, x)
  <2>1. x \in Indices
    BY DEF IsPartition
  <2> QED BY <2>1, BlockIs
<1>3. UNION touched = Reached(m)
  <2>1. ASSUME NEW x \in UNION touched PROVE x \in Reached(m)
    <3>1. PICK S \in partition : S \cap m # {} /\ x \in S
      OBVIOUS
    <3> QED BY <1>2, <3>1 DEF Reached
  <2>2. ASSUME NEW x \in Reached(m) PROVE x \in UNION touched
    <3>1. x \in Indices /\ BlockOf(partition, x) \cap m # {}
      BY DEF Reached
    <3>2. BlockOf(partition, x) \in partition /\ x \in BlockOf(partition, x)
      BY <3>1, BlockIs
    <3> QED BY <3>1, <3>2
  <2> QED BY <2>1, <2>2
<1>4. Reached(m) # {} /\ Reached(m) \subseteq Indices
  <2>1. PICK x \in m : x \in Indices
    OBVIOUS
  <2>2. x \in BlockOf(partition, x)
    BY BlockIs
  <2> QED BY <2>1, <2>2 DEF Reached
<1>5. Q = (partition \ touched) \cup {Reached(m)}
  BY <1>3
<1>6. ASSUME NEW x \in Indices
      PROVE  /\ BlockOf(partition, x) \in partition /\ x \in BlockOf(partition, x)
             /\ x \in Reached(m) <=> BlockOf(partition, x) \in touched
  BY BlockIs DEF Reached
<1>7. ASSUME NEW S \in partition \ touched, NEW x \in S PROVE x \notin Reached(m) /\ x \in Indices
  BY <1>2, <1>6
<1> HIDE DEF Q
<1>8. IsPartition(Q)
  <2>1. UNION Q = Indices
    <3>1. \A S \in Q : S \subseteq Indices
      BY <1>4, <1>5, <1>7
    <3>2. \A x \in Indices : \E S \in Q : x \in S
      BY <1>5, <1>6
    <3> QED BY <3>1, <3>2
  <2>2. {} \notin Q
    BY <1>4, <1>5 DEF IsPartition
  <2>3. ASSUME NEW S \in Q, NEW T \in Q, S \cap T # {} PROVE S = T
    <3>1. PICK x : x \in S /\ x \in T
      BY <2>3
    <3>2. CASE S \in partition \ touched /\ T \in partition \ touched
      BY <2>3, <3>2 DEF IsPartition
    <3>3. CASE S = Reached(m)
      BY <1>5, <1>7, <3>1, <3>3
    <3>4. CASE T = Reached(m)
      BY <1>5, <1>7, <3>1, <3>4
    <3> QED BY <1>5, <3>2, <3>3, <3>4
  <2> QED BY <2>1, <2>2, <2>3 DEF IsPartition
<1>9. ASSUME NEW x \in Indices
      PROVE  BlockOf(Q, x) = IF x \in Reached(m) THEN Reached(m) ELSE BlockOf(partition, x)
  <2> HIDE DEF touched
  <2>1. CASE x \in Reached(m)
    <3>1. Reached(m) \in Q
      BY <1>5
    <3> QED BY <1>8, <2>1, <3>1, BlockIs
  <2>2. CASE x \notin Reached(m)
    <3>1. BlockOf(partition, x) \in Q /\ x \in BlockOf(partition, x)
      BY <1>5, <1>6, <2>2
    <3>2. BlockOf(partition, x) = BlockOf(Q, x)
      BY <1>8, <3>1, BlockIs
    <3> QED BY <2>2, <3>2
  <2> QED BY <2>1, <2>2
<1> QED BY <1>1, <1>8, <1>9

-----------------------------------------------------------------------------
(* The invariant.                                                          *)

(* The trees of p are the sets of P, and the roots know their sizes.       *)
TreesAreSets(p, n, P) ==
    /\ \A x, y \in Indices : y \in BlockOf(P, x) <=> RootOf(p, y) = RootOf(p, x)
    /\ \A x \in Indices : Root(p, x) => n[x] = Cardinality(BlockOf(P, x))

ForestInv ==
    /\ parent \in Parents /\ Acyclic(parent) /\ setSize \in [Indices -> Nat]
    /\ IsPartition(partition) /\ exact \in BOOLEAN /\ paired \in BOOLEAN
    /\ lastGroup \subseteq Indices
    /\ \A x, y \in lastGroup : RootOf(parent, x) = RootOf(parent, y)
    /\ exact => TreesAreSets(parent, setSize, partition)
    /\ paired => exact /\ \A i \in Indices : i <= parent[i]

LEMMA IndicesFinite ==
    /\ Indices \subseteq Nat
    /\ IsFiniteSet(Indices)
    /\ \A S \in SUBSET Indices : IsFiniteSet(S) /\ Cardinality(S) \in Nat
<1>1. Indices \subseteq Nat /\ IsFiniteSet(Indices)
  BY UnionFindAssumption, FS_Interval DEF Indices
<1> QED BY <1>1, FS_Subset, FS_CardinalityType

LEMMA ForestInitial == UnionFindInit => ForestInv
<1> SUFFICES ASSUME UnionFindInit PROVE ForestInv
  OBVIOUS
<1> USE DEF UnionFindInit
<1>1. parent \in Parents /\ \A i \in Indices : parent[i] = i
  BY DEF Parents
<1>2. Acyclic(parent)
  <2>1. [i \in Indices |-> 0] \in [Indices -> Nat]
    OBVIOUS
  <2> QED BY <1>1, <2>1 DEF Acyclic
<1>3. IsPartition(partition)
  BY DEF IsPartition
<1>4. \A x \in Indices : RootOf(parent, x) = x /\ BlockOf(partition, x) = {x}
  <2> SUFFICES ASSUME NEW x \in Indices PROVE RootOf(parent, x) = x /\ BlockOf(partition, x) = {x}
    OBVIOUS
  <2>1. RootOf(parent, x) = x
    BY <1>1, <1>2, RootOfParent DEF Root
  <2>2. {x} \in partition /\ x \in {x}
    OBVIOUS
  <2> QED BY <1>3, <2>1, <2>2, BlockIs, ZenonT(60)
<1>5. \A x \in Indices : setSize[x] = 1 /\ Cardinality({x}) = 1
  BY FS_Singleton
<1>6. TreesAreSets(parent, setSize, partition)
  BY <1>4, <1>5, ZenonT(60) DEF TreesAreSets
<1>7. setSize \in [Indices -> Nat] /\ lastGroup = {} /\ paired = TRUE /\ exact = TRUE
  OBVIOUS
<1>8. \A i \in Indices : i <= parent[i]
  BY <1>1, IndicesFinite
<1> QED BY <1>1, <1>2, <1>3, <1>6, <1>7, <1>8 DEF ForestInv

(* Path halving keeps parents as large as their children.                  *)
LEMMA HalvedGrows ==
    ASSUME NEW p \in Parents, \A i \in Indices : i <= p[i],
           NEW q, \A i \in Indices : q[i] = p[i] \/ q[i] = p[p[i]]
    PROVE  \A i \in Indices : i <= q[i]
<1> SUFFICES ASSUME NEW i \in Indices PROVE i <= q[i]
  OBVIOUS
<1>1. p[i] \in Indices /\ p[p[i]] \in Indices
  BY DEF Parents
<1>2. i \in Nat /\ p[i] \in Nat /\ p[p[i]] \in Nat
  BY <1>1, IndicesFinite
<1>3. i <= p[i] /\ p[i] <= p[p[i]]
  BY <1>1
<1>4. i <= p[p[i]]
  BY <1>2, <1>3
<1> QED BY <1>3, <1>4

LEMMA FindKept == ASSUME ForestInv, NEW x \in Indices, FindStep(x) PROVE ForestInv'
<1> DEFINE q == Halved(parent, x)
<1>1. parent' = q /\ UNCHANGED <<setSize, partition, lastGroup, paired, exact>>
  BY DEF FindStep
<1>2. /\ q \in Parents /\ Acyclic(q)
      /\ \A i \in Indices : q[i] = parent[i] \/ q[i] = parent[parent[i]]
      /\ \A i \in Indices : /\ RootOf(q, i) = RootOf(parent, i)
                            /\ Root(q, i) <=> Root(parent, i)
  BY HalvedKept DEF ForestInv
<1> HIDE DEF q
<1>3. ASSUME exact PROVE TreesAreSets(q, setSize, partition)
  BY <1>2, <1>3 DEF ForestInv, TreesAreSets
<1>4. ASSUME paired PROVE \A i \in Indices : i <= q[i]
  <2>1. parent \in Parents /\ \A i \in Indices : i <= parent[i]
    BY <1>4 DEF ForestInv
  <2> QED BY <1>2, <2>1, HalvedGrows
<1>5. \A a, b \in lastGroup : RootOf(q, a) = RootOf(q, b)
  BY <1>2 DEF ForestInv
<1> QED BY <1>1, <1>2, <1>3, <1>4, <1>5 DEF ForestInv

LEMMA MergeKept == ASSUME ForestInv, NEW lhs \in Indices, NEW rhs \in Indices, Merge(lhs, rhs)
                   PROVE  ForestInv'
<1> DEFINE once == Halved(parent, lhs)
           found == Halved(once, rhs)
           left == RootOf(parent, lhs)
           right == RootOf(once, rhs)
           child == IF right < left THEN right ELSE left
           top == IF right < left THEN left ELSE right
           q == [found EXCEPT ![child] = top]
           R(i) == RootOf(parent, i)
           m == {lhs, rhs}
           n == IF child = top THEN setSize
                ELSE [setSize EXCEPT ![top] = setSize[top] + setSize[child]]
<1>1. /\ parent' = q /\ setSize' = n /\ partition' = Joined(m) /\ lastGroup' = {}
      /\ UNCHANGED <<paired, exact>>
  BY DEF Merge
<1>2. parent \in Parents /\ Acyclic(parent)
  BY DEF ForestInv
<1>3. /\ once \in Parents /\ Acyclic(once)
      /\ \A i \in Indices : once[i] = parent[i] \/ once[i] = parent[parent[i]]
      /\ \A i \in Indices : /\ RootOf(once, i) = RootOf(parent, i)
                            /\ Root(once, i) <=> Root(parent, i)
  BY <1>2, HalvedKept
<1> HIDE DEF once
<1>4. /\ found \in Parents /\ Acyclic(found)
      /\ \A i \in Indices : found[i] = once[i] \/ found[i] = once[once[i]]
      /\ \A i \in Indices : /\ RootOf(found, i) = RootOf(once, i)
                            /\ Root(found, i) <=> Root(once, i)
  BY <1>3, HalvedKept
<1> HIDE DEF found
<1>5. left = R(lhs) /\ right = R(rhs) /\ left \in Indices /\ right \in Indices
      /\ Root(parent, left) /\ Root(parent, right)
  BY <1>2, <1>3, RootIs
<1> HIDE DEF left, right
<1>6. /\ child \in Indices /\ top \in Indices /\ {child, top} = {left, right} /\ child <= top
      /\ Root(parent, child) /\ Root(parent, top)
  BY <1>5, IndicesFinite
<1> HIDE DEF child, top
<1>7. /\ q \in Parents /\ Acyclic(q)
      /\ \A i \in Indices : Root(q, i) <=> Root(parent, i) /\ (i = child => i = top)
      /\ \A i \in Indices : RootOf(q, i) = IF R(i) \in {left, right} THEN top ELSE R(i)
  <2>1. CASE child = top
    <3>1. q = found
      BY <1>3, <1>4, <1>6, <2>1 DEF Parents, Root
    <3> HIDE DEF q
    <3> QED BY <1>3, <1>4, <1>6, <2>1, <3>1
  <2>2. CASE child # top
    <3>1. /\ q \in Parents /\ Acyclic(q)
          /\ \A i \in Indices : Root(q, i) <=> Root(found, i) /\ i # child
          /\ \A i \in Indices :
               RootOf(q, i) = IF RootOf(found, i) = child THEN top ELSE RootOf(found, i)
      BY <1>3, <1>4, <1>6, <2>2, LinkedRoots, ZenonT(60)
    <3> HIDE DEF q
    <3> QED BY <1>3, <1>4, <1>6, <2>2, <3>1
  <2> QED BY <2>1, <2>2
<1>8. n \in [Indices -> Nat]
  BY <1>6 DEF ForestInv
<1>9. /\ IsPartition(partition) /\ IsPartition(Joined(m))
      /\ \A x \in Indices :
           BlockOf(Joined(m), x) = IF x \in Reached(m) THEN Reached(m) ELSE BlockOf(partition, x)
  BY JoinedBlocks DEF ForestInv
<1>10. ASSUME paired, NEW i \in Indices PROVE i <= q[i]
  <2>1. \A j \in Indices : j <= parent[j]
    BY <1>10 DEF ForestInv
  <2>2. \A j \in Indices : j <= once[j]
    BY <1>2, <1>3, <2>1, HalvedGrows
  <2>3. i <= found[i]
    BY <1>3, <1>4, <2>2, HalvedGrows
  <2> QED BY <1>4, <1>6, <2>3 DEF Parents
<1>11. ASSUME exact PROVE TreesAreSets(q, n, Joined(m))
  <2>1. /\ \A x, y \in Indices : y \in BlockOf(partition, x) <=> R(y) = R(x)
        /\ \A x \in Indices : Root(parent, x) => setSize[x] = Cardinality(BlockOf(partition, x))
    BY <1>11 DEF ForestInv, TreesAreSets
  <2>2. \A x \in Indices : x \in Reached(m) <=> R(x) \in {left, right}
    BY <1>5, <2>1 DEF Reached
  <2>3. ASSUME NEW x \in Indices, NEW y \in Indices
        PROVE  y \in BlockOf(Joined(m), x) <=> RootOf(q, y) = RootOf(q, x)
    <3>1. top \in {left, right}
      BY <1>6
    <3>2. CASE x \in Reached(m)
      BY <1>7, <1>9, <2>2, <3>1, <3>2
    <3>3. CASE x \notin Reached(m)
      BY <1>7, <1>9, <2>1, <2>2, <3>1, <3>3
    <3> QED BY <3>2, <3>3
  <2>4. ASSUME NEW x \in Indices, Root(q, x)
        PROVE  n[x] = Cardinality(BlockOf(Joined(m), x))
    <3>1. Root(parent, x) /\ R(x) = x /\ R(child) = child /\ R(top) = top
      BY <1>2, <1>6, <1>7, <2>4, RootOfParent
    <3>2. CASE x # top
      <4>1. x \notin {left, right}
        BY <1>6, <1>7, <2>4, <3>2
      <4>2. BlockOf(Joined(m), x) = BlockOf(partition, x)
        BY <1>9, <2>2, <3>1, <4>1
      <4>3. n[x] = setSize[x]
        BY <3>2 DEF ForestInv
      <4> QED BY <2>1, <3>1, <4>2, <4>3
    <3>3. CASE x = top /\ child = top
      <4>1. Reached(m) = BlockOf(partition, x)
        <5>1. BlockOf(partition, x) \subseteq Indices /\ Reached(m) \subseteq Indices
          BY <1>9, BlockIs DEF Reached
        <5>2. left = top /\ right = top
          BY <1>6, <3>3
        <5> QED BY <2>1, <2>2, <3>1, <3>3, <5>1, <5>2
      <4>2. x \in Reached(m)
        BY <1>6, <2>2, <3>1, <3>3
      <4> QED BY <1>9, <2>1, <3>1, <3>3, <4>1, <4>2
    <3>4. CASE x = top /\ child # top
      <4> DEFINE A == BlockOf(partition, top)
                 B == BlockOf(partition, child)
      <4>1. A \subseteq Indices /\ B \subseteq Indices /\ Reached(m) \subseteq Indices
        BY <1>6, <1>9, BlockIs DEF Reached
      <4>2. \A y \in Indices : (y \in A <=> R(y) = top) /\ (y \in B <=> R(y) = child)
        BY <1>6, <2>1, <3>1
      <4>3. Cardinality(A) = setSize[top] /\ Cardinality(B) = setSize[child]
        BY <1>6, <2>1
      <4> HIDE DEF A, B
      <4>4. Reached(m) = A \cup B /\ A \cap B = {}
        BY <1>6, <2>2, <3>4, <4>1, <4>2
      <4>5. Cardinality(A \cup B) = Cardinality(A) + Cardinality(B)
        <5>1. /\ IsFiniteSet(A) /\ Cardinality(A) \in Nat
              /\ IsFiniteSet(B) /\ Cardinality(B) \in Nat
          BY <4>1, IndicesFinite
        <5>2. Cardinality(A \cup B) = Cardinality(A) + Cardinality(B) - Cardinality(A \cap B)
          BY <5>1, FS_Union
        <5>3. Cardinality(A \cap B) = 0
          BY <4>4, FS_EmptySet
        <5> QED BY <5>1, <5>2, <5>3
      <4>6. top \in Reached(m)
        BY <1>6, <2>2, <3>1
      <4>7. n[top] = setSize[top] + setSize[child]
        BY <1>6, <3>4 DEF ForestInv
      <4> QED BY <1>6, <1>9, <3>4, <4>3, <4>4, <4>5, <4>6, <4>7
    <3> QED BY <3>2, <3>3, <3>4
  <2> QED BY <2>3, <2>4 DEF TreesAreSets
<1> HIDE DEF q, n
<1> QED BY <1>1, <1>7, <1>8, <1>9, <1>10, <1>11 DEF ForestInv

LEMMA GroupKept == ASSUME ForestInv, NEW group \in Groups, MergeGroup(group) PROVE ForestInv'
<1> DEFINE root == RootOf(parent, group[1])
           found == Halved(parent, group[1])
           m == ToSet(group)
           H == {x \in m : found[x] # root}
           q == [i \in Indices |-> IF i \in H THEN root ELSE found[i]]
           R(i) == RootOf(parent, i)
           n == [setSize EXCEPT ![root] = @ + Cardinality(H)]
<1>1. /\ group # <<>>
      /\ parent' = q /\ setSize' = n /\ partition' = Joined(m) /\ lastGroup' = m
      /\ paired' = FALSE
      /\ exact' = (exact /\ \A x \in H : Cardinality(SetOf(x)) = 1)
  BY DEF MergeGroup
<1>2. group[1] \in m /\ m \in SUBSET Indices
  <2>1. group \in Seq(Indices)
    BY UnionFindAssumption DEF Indices
  <2>2. 1 \in DOMAIN group
    BY <1>1, <2>1
  <2> QED BY <2>1, <2>2 DEF ToSet
<1> HIDE DEF m
<1>3. parent \in Parents /\ Acyclic(parent)
  BY DEF ForestInv
<1>4. /\ found \in Parents /\ Acyclic(found)
      /\ \A i \in Indices : /\ RootOf(found, i) = R(i)
                            /\ Root(found, i) <=> Root(parent, i)
  BY <1>2, <1>3, HalvedKept
<1>5. root \in Indices /\ Root(parent, root) /\ Root(found, root) /\ R(root) = root
  <2>1. root \in Indices /\ Root(parent, root)
    BY <1>2, <1>3, RootIs
  <2> QED BY <1>3, <1>4, <2>1, RootOfParent
<1>6. root = R(group[1])
  OBVIOUS
<1> HIDE DEF found, root
<1>7. H \in SUBSET Indices /\ root \notin H
  BY <1>2, <1>5 DEF Root
<1>8. /\ q \in Parents /\ Acyclic(q)
      /\ \A i \in Indices : Root(q, i) <=> Root(parent, i) /\ i \notin H
      /\ \A i \in Indices : i \in H \/ found[i] = root => RootOf(q, i) = root
      /\ (\A i \in Indices : found[i] \in H => found[i] = i) =>
           \A i \in Indices : RootOf(q, i) = IF i \in H THEN root ELSE R(i)
  <2> HIDE DEF H
  <2>0. q = [i \in Indices |-> IF i \in H THEN root ELSE found[i]]
    OBVIOUS
  <2> HIDE DEF q
  <2>1. /\ q \in Parents /\ Acyclic(q)
        /\ \A i \in Indices : Root(q, i) <=> Root(found, i) /\ i \notin H
    BY <1>4, <1>5, <1>7, <2>0, HungForest
  <2>2. /\ \A i \in Indices : i \in H \/ found[i] = root => RootOf(q, i) = root
        /\ (\A i \in Indices : found[i] \in H => found[i] = i) =>
             \A i \in Indices : RootOf(q, i) = IF i \in H THEN root ELSE RootOf(found, i)
    BY <1>4, <1>5, <1>7, <2>0, HungRoots
  <2> QED BY <1>4, <2>1, <2>2
<1> HIDE DEF q
<1>9. \A x \in m : RootOf(q, x) = root
  BY <1>2, <1>8
<1>10. /\ IsPartition(partition) /\ IsPartition(Joined(m))
       /\ \A x \in Indices :
            BlockOf(Joined(m), x) = IF x \in Reached(m) THEN Reached(m) ELSE BlockOf(partition, x)
  BY <1>2, JoinedBlocks DEF ForestInv
<1>11. n \in [Indices -> Nat] /\ Cardinality(H) \in Nat
  <2>1. Cardinality(H) \in Nat
    BY <1>7, IndicesFinite
  <2> QED BY <1>5, <2>1 DEF ForestInv
<1>12. ASSUME exact, \A x \in H : Cardinality(SetOf(x)) = 1
       PROVE  TreesAreSets(q, n, Joined(m))
  <2>1. /\ \A x, y \in Indices : y \in BlockOf(partition, x) <=> R(y) = R(x)
        /\ \A x \in Indices : Root(parent, x) => setSize[x] = Cardinality(BlockOf(partition, x))
    BY <1>12 DEF ForestInv, TreesAreSets
  <2>2. ASSUME NEW x \in H PROVE BlockOf(partition, x) = {x}
    <3>1. x \in Indices
      BY <1>7
    <3>2. /\ x \in BlockOf(partition, x) /\ IsFiniteSet(BlockOf(partition, x))
          /\ Cardinality(BlockOf(partition, x)) = 1
      <4>1. Cardinality(BlockOf(partition, x)) = 1
        BY <1>12 DEF SetOf, BlockOf
      <4> QED BY <1>10, <3>1, <4>1, BlockIs, IndicesFinite
    <3>3. Cardinality(BlockOf(partition, x) \ {x}) = 0 /\ IsFiniteSet(BlockOf(partition, x) \ {x})
      BY <3>2, FS_RemoveElement
    <3>4. BlockOf(partition, x) \ {x} = {}
      BY <3>3, FS_EmptySet
    <3> QED BY <3>2, <3>4
  <2>3. \A i \in Indices : found[i] \in H => found[i] = i
    <3> SUFFICES ASSUME NEW i \in Indices, found[i] \in H PROVE found[i] = i
      OBVIOUS
    <3>1. R(found[i]) = R(i) /\ found[i] \in Indices
      BY <1>4, RootOfParent
    <3> QED BY <2>1, <2>2, <3>1
  <2>4. \A i \in Indices : RootOf(q, i) = IF i \in H THEN root ELSE R(i)
    BY <1>8, <2>3
  <2>5. \A x \in m : x \notin H => R(x) = root
    <3> SUFFICES ASSUME NEW x \in m, found[x] = root PROVE R(x) = root
      OBVIOUS
    <3>1. R(found[x]) = R(x)
      BY <1>2, <1>4, RootOfParent
    <3> QED BY <1>5, <3>1
  <2>6. \A x \in Indices : x \in Reached(m) <=> x \in H \/ R(x) = root
    <3>1. ASSUME NEW x \in Indices, x \in H PROVE x \in Reached(m)
      BY <1>10, <3>1, BlockIs DEF Reached
    <3>2. ASSUME NEW x \in Indices, R(x) = root PROVE x \in Reached(m)
      BY <1>2, <1>6, <2>1, <3>2 DEF Reached
    <3>3. ASSUME NEW x \in Reached(m), x \notin H PROVE R(x) = root
      <4>1. PICK y \in m : y \in BlockOf(partition, x) /\ x \in Indices /\ y \in Indices
        BY <1>2 DEF Reached
      <4>2. R(y) = R(x)
        BY <2>1, <4>1
      <4>3. y \notin H
        <5>1. x \in BlockOf(partition, y)
          BY <2>1, <4>1, <4>2
        <5> QED BY <2>2, <3>3, <5>1
      <4> QED BY <2>5, <4>2, <4>3
    <3> QED BY <3>1, <3>2, <3>3
  <2>7. \A x \in H : R(x) # root
    BY <1>5, <1>7, <2>1, <2>2
  <2> HIDE DEF H
  <2>8. ASSUME NEW x \in Indices, NEW y \in Indices
        PROVE  y \in BlockOf(Joined(m), x) <=> RootOf(q, y) = RootOf(q, x)
    <3>1. CASE x \in Reached(m)
      BY <1>10, <2>4, <2>6, <3>1
    <3>2. CASE x \notin Reached(m)
      <4>1. BlockOf(Joined(m), x) = BlockOf(partition, x) /\ RootOf(q, x) = R(x)
            /\ R(x) # root /\ x \notin H
        BY <1>10, <2>4, <2>6, <3>2
      <4>2. ASSUME y \in H PROVE R(y) # R(x)
        BY <2>1, <2>2, <4>1, <4>2
      <4> QED BY <2>1, <2>4, <4>1, <4>2
    <3> QED BY <3>1, <3>2
  <2>9. ASSUME NEW x \in Indices, Root(q, x)
        PROVE  n[x] = Cardinality(BlockOf(Joined(m), x))
    <3>1. Root(parent, x) /\ x \notin H /\ R(x) = x
      BY <1>3, <1>8, <2>9, RootOfParent
    <3>2. CASE x # root
      <4>1. x \notin Reached(m) /\ n[x] = setSize[x]
        BY <2>6, <3>1, <3>2 DEF ForestInv
      <4> QED BY <1>10, <2>1, <3>1, <4>1
    <3>3. CASE x = root
      <4> DEFINE A == BlockOf(partition, root)
      <4>1. A \subseteq Indices /\ Reached(m) \subseteq Indices
        BY <1>5, <1>10, BlockIs DEF Reached
      <4>2. \A y \in Indices : y \in A <=> R(y) = root
        BY <1>5, <2>1
      <4>3. Cardinality(A) = setSize[root]
        BY <1>5, <2>1
      <4> HIDE DEF A
      <4>4. Reached(m) = A \cup H /\ A \cap H = {}
        BY <1>7, <2>6, <2>7, <4>1, <4>2
      <4>5. Cardinality(A \cup H) = Cardinality(A) + Cardinality(H)
        <5>1. /\ IsFiniteSet(A) /\ Cardinality(A) \in Nat
              /\ IsFiniteSet(H) /\ Cardinality(H) \in Nat
          BY <1>7, <4>1, IndicesFinite
        <5>2. Cardinality(A \cup H) = Cardinality(A) + Cardinality(H) - Cardinality(A \cap H)
          BY <5>1, FS_Union
        <5>3. Cardinality(A \cap H) = 0
          BY <4>4, FS_EmptySet
        <5> QED BY <5>1, <5>2, <5>3
      <4>6. n[root] = setSize[root] + Cardinality(H)
        BY <1>5 DEF ForestInv
      <4>7. root \in Reached(m)
        BY <1>5, <2>6
      <4> QED BY <1>5, <1>10, <3>3, <4>3, <4>4, <4>5, <4>6, <4>7
    <3> QED BY <3>2, <3>3
  <2> QED BY <2>8, <2>9 DEF TreesAreSets
<1>13. exact' \in BOOLEAN
  BY <1>1
<1> HIDE DEF n, H
<1> QED BY <1>1, <1>2, <1>8, <1>9, <1>10, <1>11, <1>12, <1>13 DEF ForestInv

LEMMA ForestKept == ForestInv /\ [UnionFindNext]_unionFindVars => ForestInv'
<1>1. ASSUME ForestInv, UNCHANGED unionFindVars PROVE ForestInv'
  BY <1>1 DEF unionFindVars, ForestInv
<1> QED BY <1>1, FindKept, MergeKept, GroupKept DEF UnionFindNext

(* A tree per set of the partition, with the largest index on top as long  *)
(* as only pairs were merged.                                              *)
LEMMA ForestInvSuffices == ForestInv => ForestIsPartition
<1> SUFFICES ASSUME ForestInv PROVE ForestIsPartition
  OBVIOUS
<1>1. parent \in Parents /\ Acyclic(parent) /\ IsPartition(partition)
  BY DEF ForestInv
<1>2. \A x \in Indices : Root(parent, RootOf(parent, x))
  BY <1>1, RootIs
<1>3. \A x, y \in lastGroup : RootOf(parent, x) = RootOf(parent, y)
  BY DEF ForestInv
<1>4. \A x \in Indices : SetOf(x) = BlockOf(partition, x)
  BY DEF SetOf, BlockOf
<1>5. ASSUME exact
      PROVE  /\ MergesAreUnions
             /\ \A x \in Indices : Root(parent, x) => setSize[x] = Cardinality(SetOf(x))
  <2>1. TreesAreSets(parent, setSize, partition)
    BY <1>5 DEF ForestInv
  <2>2. \A x \in Indices : {y \in Indices : RootOf(parent, y) = RootOf(parent, x)}
                             = BlockOf(partition, x)
    <3> SUFFICES ASSUME NEW x \in Indices
                 PROVE  {y \in Indices : RootOf(parent, y) = RootOf(parent, x)}
                          = BlockOf(partition, x)
      OBVIOUS
    <3>1. BlockOf(partition, x) \subseteq Indices
      BY <1>1, BlockIs
    <3> QED BY <2>1, <3>1 DEF TreesAreSets
  <2>3. All(parent) = {BlockOf(partition, x) : x \in Indices}
    BY <2>2 DEF All
  <2>4. ASSUME NEW S \in partition PROVE \E x \in Indices : S = BlockOf(partition, x)
    <3>1. PICK x \in S : x \in Indices
      BY <1>1 DEF IsPartition
    <3> QED BY <1>1, <3>1, BlockIs
  <2>5. \A x \in Indices : BlockOf(partition, x) \in partition
    BY <1>1, BlockIs
  <2>6. {BlockOf(partition, x) : x \in Indices} = partition
    BY <2>4, <2>5
  <2> QED BY <1>4, <2>1, <2>3, <2>6 DEF TreesAreSets, MergesAreUnions
<1>6. ASSUME paired, NEW x \in Indices, NEW y \in SetOf(x) PROVE y <= RootOf(parent, x)
  <2>1. TreesAreSets(parent, setSize, partition) /\ \A i \in Indices : i <= parent[i]
    BY <1>6 DEF ForestInv
  <2>2. y \in Indices /\ RootOf(parent, y) = RootOf(parent, x)
    <3>1. y \in BlockOf(partition, x) /\ BlockOf(partition, x) \subseteq Indices
      BY <1>1, <1>4, <1>6, BlockIs
    <3> QED BY <2>1, <3>1 DEF TreesAreSets
  <2>3. y <= RootOf(parent, y)
    BY <1>1, <2>1, <2>2, RootIsLargest
  <2> QED BY <2>2, <2>3
<1> QED BY <1>2, <1>3, <1>5, <1>6 DEF ForestIsPartition

(* However pairs and groups are merged and paths halved, every chain of    *)
(* parents ends in a root and the last group is in one tree; all() is the  *)
(* partition asked for, and the roots know its sizes, until a group takes  *)
(* a member out of a larger set.                                           *)
THEOREM ForestIsPartitionCorrect == UnionFindSpec => []ForestIsPartition
<1> QED BY ForestInitial, ForestKept, ForestInvSuffices, PTL DEF UnionFindSpec

-----------------------------------------------------------------------------
(* Assignment.                                                             *)

Load(b) == {a \in As : aToB[a] = b}

(* s lists the members of S, each once. *)
Lists(s, S) == ToSet(s) = S /\ \A i, j \in DOMAIN s : s[i] = s[j] => i = j

(* The a's a search has met. *)
Searched == {a \in As : a = placing \/ (aToB[a] # 0 /\ parentB[aToB[a]] # 0)}

(* b was reached from an option of the a that is placed, or of an a whose  *)
(* own b was reached before.                                               *)
Linked(b, rank) ==
    /\ b \in ToSet(options[parentB[b]])
    /\ parentB[b] # placing =>
         /\ aToB[parentB[b]] # 0 /\ parentB[aToB[parentB[b]]] # 0
         /\ rank[aToB[parentB[b]]] < rank[b]

AssignTypes ==
    /\ unique \in BOOLEAN /\ waterLevel \in Nat /\ bMax \in [Bs -> Nat]
    /\ options \in [As -> Seq(Bs)]
    /\ aToB \in [As -> 0 .. BCount] /\ bToA \in [Bs -> Seq(As)]
    /\ searchQueue \in Seq(As) /\ nextOption \in Nat \ {0}
    /\ parentB \in [Bs -> 0 .. ACount]
    /\ unique => \A b \in Bs : bMax[b] = 1

TablesAgree ==
    /\ \A a \in As : aToB[a] # 0 => aToB[a] \in ToSet(options[a])
    /\ \A b \in Bs : Lists(bToA[b], Load(b)) /\ Len(bToA[b]) <= Capacity(b)

(* The a's that left the queue have all their b's visited, and the one at  *)
(* its head those before nextOption; every visited b was reached on a path *)
(* that starts at the a to place; and all of them are full.                *)
LeftTheQueue ==
    \A a \in Searched \ ToSet(searchQueue) :
        \A k \in DOMAIN options[a] : parentB[options[a][k]] # 0

HeadSoFar ==
    searchQueue # <<>> =>
        \A k \in DOMAIN options[Head(searchQueue)] :
            k < nextOption => parentB[options[Head(searchQueue)][k]] # 0

PathsBack ==
    \E n \in Nat : \E rank \in [Bs -> 0 .. n] :
        \A b \in Bs : parentB[b] # 0 => Linked(b, rank)

SearchInv ==
    phase = "search" =>
        /\ placing \in As /\ aToB[placing] = 0
        /\ ToSet(searchQueue) \subseteq Searched
        /\ \A b \in Bs : parentB[b] # 0 => ~HasRoom(b)
        /\ LeftTheQueue /\ HeadSoFar /\ PathsBack

(* The b that takes an a has room, and the path behind it is untouched.    *)
FlipInv ==
    phase = "flip" =>
        /\ placing \in As /\ aToB[placing] = 0
        /\ currentB \in Bs /\ parentB[currentB] # 0 /\ HasRoom(currentB)
        /\ \E rank \in [Bs -> Nat] : \A b \in Bs :
             parentB[b] # 0 /\ rank[b] <= rank[currentB] => Linked(b, rank)

(* There was no assignment at the last level; and none at this one as soon *)
(* as a search of the round has failed.                                    *)
LevelInv ==
    /\ phase = "raise" =>
         IF Unplaced(1) = {} THEN waterLevel >= 1 /\ Assignments(waterLevel - 1) = {}
                             ELSE Assignments(waterLevel) = {}
    /\ phase \in {"search", "flip"} =>
         /\ waterLevel >= 1 /\ Assignments(waterLevel - 1) = {}
         /\ (\E a \in As : a < placing /\ aToB[a] = 0) => Assignments(waterLevel) = {}

AssignInv ==
    AssignTypes /\ TablesAgree /\ SearchInv /\ FlipInv /\ LevelInv /\ AssignsAndSpreads

LEMMA BasicSets ==
    /\ ACount \in Nat \ {0} /\ BCount \in Nat \ {0} /\ OptionLists \subseteq Seq(Bs)
    /\ Maxima \subseteq [Bs -> Nat] /\ 0 \notin Bs /\ 0 \notin As
    /\ \A S \in SUBSET As : IsFiniteSet(S) /\ Cardinality(S) \in Nat /\ Cardinality(S) <= ACount
<1>1. IsFiniteSet(As) /\ Cardinality(As) = ACount
  BY AssignmentAssumption, FS_Interval DEF As
<1>2. \A S \in SUBSET As : IsFiniteSet(S) /\ Cardinality(S) \in Nat /\ Cardinality(S) <= ACount
  BY <1>1, FS_Subset, FS_CardinalityType
<1> QED BY <1>2, AssignmentAssumption DEF As, Bs

(* push_back() and the swap-and-pop. *)
LEMMA ListedOneMore ==
    ASSUME NEW s \in Seq(As), NEW S, Lists(s, S), NEW a \in As, a \notin S
    PROVE  /\ Append(s, a) \in Seq(As) /\ Len(Append(s, a)) = Len(s) + 1
           /\ Lists(Append(s, a), S \cup {a})
<1> DEFINE t == Append(s, a)
<1>1. /\ t \in Seq(As) /\ Len(t) = Len(s) + 1 /\ Len(s) \in Nat
      /\ DOMAIN s = 1 .. Len(s) /\ DOMAIN t = 1 .. Len(s) + 1
      /\ \A i \in 1 .. Len(s) : t[i] = s[i]
      /\ t[Len(s) + 1] = a
  OBVIOUS
<1> HIDE DEF t
<1>2. \A i \in 1 .. Len(s) : s[i] \in S
  BY <1>1 DEF Lists, ToSet
<1>3. ToSet(t) = S \cup {a}
  <2>1. \A x \in S : \E i \in 1 .. Len(s) : x = s[i]
    BY <1>1 DEF Lists, ToSet
  <2>2. S \subseteq ToSet(t)
    BY <1>1, <2>1 DEF ToSet
  <2>3. a \in ToSet(t)
    BY <1>1 DEF ToSet
  <2>4. ToSet(t) \subseteq S \cup {a}
    <3> SUFFICES ASSUME NEW i \in DOMAIN t PROVE t[i] \in S \cup {a}
      BY DEF ToSet
    <3>1. i \in 1 .. Len(s) \/ i = Len(s) + 1
      BY <1>1
    <3> QED BY <1>1, <1>2, <3>1
  <2> QED BY <2>2, <2>3, <2>4
<1>4. \A i, j \in DOMAIN t : t[i] = t[j] => i = j
  <2>1. \A i \in DOMAIN t : i \in 1 .. Len(s) \/ i = Len(s) + 1
    BY <1>1
  <2> QED BY <1>1, <1>2, <2>1 DEF Lists
<1> QED BY <1>1, <1>3, <1>4 DEF Lists, t

LEMMA ListedOneLess ==
    ASSUME NEW s \in Seq(As), NEW S, Lists(s, S), NEW a \in S
    PROVE  /\ Without(s, a) \in Seq(As) /\ Len(Without(s, a)) = Len(s) - 1
           /\ Len(s) >= 1 /\ Lists(Without(s, a), S \ {a})
<1> DEFINE at == CHOOSE k \in DOMAIN s : s[k] = a
           t == Without(s, a)
           n == Len(s)
<1>1. at \in DOMAIN s /\ s[at] = a
  BY DEF Lists, ToSet
<1>2. t = [k \in 1 .. n - 1 |-> IF k = at THEN s[n] ELSE s[k]]
  BY DEF Without
<1>3. n \in Nat /\ DOMAIN s = 1 .. n /\ n >= 1 /\ at \in 1 .. n
  BY <1>1
<1> HIDE DEF at, t, n
<1>4. t \in Seq(As) /\ Len(t) = n - 1 /\ DOMAIN t = 1 .. n - 1
  <2>1. \A k \in 1 .. n - 1 : k \in 1 .. n /\ n \in 1 .. n
    BY <1>3
  <2>2. t \in [1 .. n - 1 -> As]
    BY <1>2, <1>3, <2>1
  <2>3. n - 1 \in Nat
    BY <1>3
  <2> QED BY <2>2, <2>3
<1>5. \A i, j \in 1 .. n : s[i] = s[j] => i = j
  BY <1>3 DEF Lists
<1>6. \A k \in 1 .. n - 1 : t[k] = IF k = at THEN s[n] ELSE s[k]
  BY <1>2
<1>7. ToSet(t) = S \ {a}
  <2>1. ASSUME NEW k \in 1 .. n - 1 PROVE t[k] \in S \ {a}
    <3>1. s[k] \in S /\ s[n] \in S /\ k \in 1 .. n /\ n \in 1 .. n /\ k # n
      BY <1>3 DEF Lists, ToSet
    <3> QED BY <1>1, <1>3, <1>5, <1>6, <3>1
  <2>2. ASSUME NEW x \in S \ {a} PROVE \E k \in 1 .. n - 1 : t[k] = x
    <3>1. PICK i \in 1 .. n : s[i] = x
      BY <1>3 DEF Lists, ToSet
    <3>2. CASE i = n
      <4>1. at # n /\ at \in 1 .. n - 1
        BY <1>1, <1>3, <3>1, <3>2
      <4> QED BY <1>6, <3>1, <3>2, <4>1
    <3>3. CASE i # n
      <4>1. i \in 1 .. n - 1 /\ i # at
        BY <1>1, <1>3, <3>1, <3>3
      <4> QED BY <1>6, <3>1, <4>1
    <3> QED BY <3>2, <3>3
  <2> QED BY <1>4, <2>1, <2>2 DEF ToSet
<1>8. \A i, j \in DOMAIN t : t[i] = t[j] => i = j
  <2> SUFFICES ASSUME NEW i \in 1 .. n - 1, NEW j \in 1 .. n - 1, t[i] = t[j] PROVE i = j
    BY <1>4
  <2>1. i \in 1 .. n /\ j \in 1 .. n /\ n \in 1 .. n /\ i # n /\ j # n
    BY <1>3
  <2> QED BY <1>5, <1>6, <2>1
<1> QED BY <1>3, <1>4, <1>7, <1>8 DEF Lists, t, n

LEMMA ListedCount ==
    ASSUME NEW s \in Seq(As), NEW S, Lists(s, S)
    PROVE  IsFiniteSet(S) /\ Cardinality(S) = Len(s)
<1>1. Len(s) \in Nat /\ DOMAIN s = 1 .. Len(s) /\ IsFiniteSet(1 .. Len(s))
      /\ Cardinality(1 .. Len(s)) = Len(s)
  <2>1. Len(s) \in Nat /\ 1 \in Int /\ Len(s) \in Int
    OBVIOUS
  <2> QED BY <2>1, FS_Interval, SMTT(60)
<1>2. s \in [1 .. Len(s) -> S]
  BY <1>1 DEF Lists, ToSet
<1>3. s \in Bijection(1 .. Len(s), S)
  <2>1. \A t \in S : \E k \in 1 .. Len(s) : s[k] = t
    BY <1>1 DEF Lists, ToSet
  <2>2. IsInjective(s)
    BY DEF Lists, IsInjective
  <2> QED BY <1>2, <2>1, <2>2 DEF Bijection, Injection, Surjection
<1>4. ExistsBijection(1 .. Len(s), S)
  BY <1>3 DEF ExistsBijection
<1> QED BY <1>1, <1>4, FS_Bijection

(* An assignment at a level is one at every higher level. *)
LEMMA HigherLevels ==
    ASSUME bMax \in [Bs -> Nat], NEW l \in Nat, NEW h \in Nat,
           \A b \in Bs : l <= h \/ bMax[b] <= h
    PROVE  Assignments(l) \subseteq Assignments(h)
<1> SUFFICES ASSUME NEW f \in Assignments(l), NEW b \in Bs
             PROVE  Cardinality({a \in As : f[a] = b}) <= SmallerOf(h, bMax[b])
  BY DEF Assignments
<1>1. Cardinality({a \in As : f[a] = b}) <= SmallerOf(l, bMax[b])
  BY DEF Assignments
<1>2. Cardinality({a \in As : f[a] = b}) \in Nat
  BY BasicSets
<1> QED BY <1>1, <1>2 DEF SmallerOf

(* A search that ends without a path has shown that there is no assignment *)
(* at this level: the a's it met have only full b's to choose from, which  *)
(* the a's it met without the one to place already fill.                   *)
LEMMA NoPathNoAssignment ==
    ASSUME AssignTypes, TablesAgree, SearchInv, phase = "search", searchQueue = <<>>
    PROVE  Assignments(waterLevel) = {}
<1> SUFFICES ASSUME NEW f \in Assignments(waterLevel) PROVE FALSE
  OBVIOUS
<1> DEFINE F(b) == {a \in As : f[a] = b}
           V == {b \in Bs : parentB[b] # 0}
<1>1. /\ f \in [As -> Bs] /\ \A a \in As : f[a] \in ToSet(options[a])
      /\ \A b \in Bs : Cardinality(F(b)) <= Capacity(b)
  BY DEF Assignments, Capacity
<1>2. placing \in As /\ aToB[placing] = 0 /\ placing \in Searched
  BY DEF SearchInv, Searched
<1>3. \A a \in Searched : f[a] \in V
  <2> SUFFICES ASSUME NEW a \in Searched PROVE f[a] \in V
    OBVIOUS
  <2>1. a \in As /\ \A k \in DOMAIN options[a] : parentB[options[a][k]] # 0
    BY DEF SearchInv, LeftTheQueue, ToSet, Searched
  <2>2. PICK k \in DOMAIN options[a] : f[a] = options[a][k]
    BY <1>1, <2>1 DEF ToSet
  <2> QED BY <1>1, <2>1, <2>2
<1>4. \A b \in V : \E h : h \in Injection(F(b), 1 .. Len(bToA[b]))
  <2> SUFFICES ASSUME NEW b \in V PROVE \E h : h \in Injection(F(b), 1 .. Len(bToA[b]))
    OBVIOUS
  <2>1. Cardinality(F(b)) <= Len(bToA[b]) /\ Cardinality(F(b)) \in Nat /\ IsFiniteSet(F(b))
        /\ Len(bToA[b]) \in Nat
    <3>1. ~(Len(bToA[b]) < Capacity(b)) /\ bToA[b] \in Seq(As) /\ Cardinality(F(b)) <= Capacity(b)
      BY <1>1 DEF SearchInv, HasRoom, AssignTypes
    <3>2. Capacity(b) \in Nat
      BY DEF AssignTypes, Capacity, SmallerOf
    <3>3. IsFiniteSet(F(b)) /\ Cardinality(F(b)) \in Nat
      BY BasicSets
    <3> HIDE DEF F, V
    <3> QED BY <3>1, <3>2, <3>3
  <2> DEFINE n == Cardinality(F(b))
  <2>2. ExistsBijection(F(b), 1 .. n)
    <3>1. IsFiniteSet(1 .. n) /\ Cardinality(1 .. n) = n
      BY <2>1, FS_Interval
    <3> QED BY <2>1, <3>1, FS_SameCardinalityBij
  <2>3. PICK h : h \in Bijection(F(b), 1 .. n)
    BY <2>2 DEF ExistsBijection
  <2>4. \A x \in 1 .. n : x \in 1 .. Len(bToA[b])
    <3> HIDE DEF F
    <3> QED BY <2>1
  <2>5. h \in Injection(F(b), 1 .. Len(bToA[b]))
    <3> HIDE DEF F, n
    <3>1. h \in [F(b) -> 1 .. n] /\ IsInjective(h)
      BY <2>3 DEF Bijection, Injection
    <3> QED BY <2>4, <3>1 DEF Injection
  <2> QED BY <2>5
<1> DEFINE h(b) == CHOOSE j : j \in Injection(F(b), 1 .. Len(bToA[b]))
           T == Searched \ {placing}
           g == [a \in Searched |-> bToA[f[a]][h(f[a])[a]]]
<1>5. ASSUME NEW b \in V
      PROVE  h(b) \in [F(b) -> 1 .. Len(bToA[b])] /\ \A x, y \in F(b) : h(b)[x] = h(b)[y] => x = y
  <2>1. h(b) \in Injection(F(b), 1 .. Len(bToA[b]))
    BY <1>4, <1>5
  <2> HIDE DEF h, F
  <2> QED BY <2>1 DEF Injection, IsInjective
<1> HIDE DEF h, F
<1>6. ASSUME NEW a \in Searched
      PROVE  /\ a \in F(f[a]) /\ f[a] \in V /\ h(f[a])[a] \in DOMAIN bToA[f[a]]
             /\ g[a] = bToA[f[a]][h(f[a])[a]] /\ g[a] \in As /\ aToB[g[a]] = f[a]
  <2>1. a \in F(f[a]) /\ f[a] \in V /\ f[a] \in Bs
    BY <1>1, <1>3 DEF Searched, F
  <2>2. h(f[a])[a] \in 1 .. Len(bToA[f[a]]) /\ bToA[f[a]] \in Seq(As)
    BY <1>5, <2>1 DEF AssignTypes
  <2>3. bToA[f[a]][h(f[a])[a]] \in Load(f[a])
    BY <2>1, <2>2 DEF TablesAgree, Lists, ToSet
  <2> QED BY <2>1, <2>2, <2>3 DEF Load
<1>7. ASSUME NEW a \in Searched PROVE g[a] \in T
  <2>1. g[a] # placing
    BY <1>2, <1>6, BasicSets
  <2> HIDE DEF g
  <2> QED BY <1>6, <2>1, BasicSets DEF Searched
<1>8. ASSUME NEW a \in Searched, NEW c \in Searched, g[a] = g[c] PROVE a = c
  <2>1. f[a] = f[c]
    BY <1>6, <1>8
  <2>2. h(f[a])[a] = h(f[a])[c]
    BY <1>6, <1>8, <2>1 DEF TablesAgree, Lists
  <2> QED BY <1>5, <1>6, <2>1, <2>2
<1>9. IsFiniteSet(Searched) /\ IsFiniteSet(T) /\ Cardinality(T) < Cardinality(Searched)
  <2>1. Searched \subseteq As
    BY DEF Searched
  <2>2. IsFiniteSet(Searched) /\ Cardinality(Searched) \in Nat
    BY <2>1, BasicSets
  <2>3. IsFiniteSet(T) /\ Cardinality(T) = Cardinality(Searched) - 1
    BY <1>2, <2>2, FS_RemoveElement
  <2> QED BY <2>2, <2>3
<1>10. g \in [Searched -> T]
  BY <1>7
<1> HIDE DEF g, T
<1> QED BY <1>8, <1>9, <1>10, FS_PigeonHole

LEMMA AssignInitial == AssignInit /\ Arguments => AssignInv
<1> SUFFICES ASSUME AssignInit, Arguments PROVE AssignInv
  OBVIOUS
<1> USE DEF AssignInit
<1>1. AssignTypes
  <2>1. options \in [As -> Seq(Bs)]
    BY BasicSets DEF Arguments
  <2>2. bMax \in [Bs -> Nat] /\ unique \in BOOLEAN /\ (unique => \A b \in Bs : bMax[b] = 1)
    BY BasicSets DEF Arguments
  <2> QED BY <2>1, <2>2, BasicSets DEF AssignTypes
<1>2. TablesAgree
  <2>1. \A b \in Bs : Load(b) = {}
    BY BasicSets DEF Load
  <2>2. \A b \in Bs : Lists(bToA[b], Load(b)) /\ Len(bToA[b]) = 0
    BY <2>1 DEF Lists, ToSet
  <2>3. \A b \in Bs : 0 <= Capacity(b)
    BY <1>1 DEF AssignTypes, Capacity, SmallerOf
  <2> QED BY <2>2, <2>3 DEF TablesAgree
<1>3. Unplaced(1) # {}
  <2>1. 1 \in As
    BY BasicSets DEF As
  <2> QED BY <2>1 DEF Unplaced
<1>4. Assignments(0) = {}
  <2> SUFFICES ASSUME NEW f \in Assignments(0) PROVE FALSE
    OBVIOUS
  <2>1. 1 \in As /\ f[1] \in Bs
    BY BasicSets DEF As, Assignments
  <2> DEFINE S == {a \in As : f[a] = f[1]}
  <2>2. Cardinality(S) <= SmallerOf(0, bMax[f[1]]) /\ 1 \in S /\ IsFiniteSet(S)
        /\ Cardinality(S) \in Nat
    BY <2>1, BasicSets DEF Assignments
  <2> HIDE DEF S
  <2>3. Cardinality(S) = 0
    BY <1>1, <2>1, <2>2 DEF AssignTypes, SmallerOf
  <2> QED BY <2>2, <2>3, FS_EmptySet
<1> QED BY <1>1, <1>2, <1>3, <1>4
        DEF AssignInv, SearchInv, FlipInv, LevelInv, AssignsAndSpreads

(* What a round returns when all are placed, or when no b could take more. *)
LEMMA AllPlaced ==
    ASSUME AssignInv, phase = "raise", Unplaced(1) = {}
    PROVE  \E limit \in 1 .. ACount :
             aToB \in Assignments(limit) /\ Assignments(limit - 1) = {}
<1>1. AssignTypes /\ TablesAgree /\ waterLevel \in Nat /\ waterLevel >= 1
      /\ Assignments(waterLevel - 1) = {}
  BY DEF AssignInv, LevelInv, AssignTypes
<1>2. \A a \in As : aToB[a] \in Bs
  <2>1. \A a \in As : aToB[a] # 0
    BY BasicSets DEF Unplaced, As
  <2>2. \A a \in As : aToB[a] \in 0 .. BCount
    BY <1>1 DEF AssignTypes
  <2> QED BY <2>1, <2>2, BasicSets DEF Bs
<1>3. ASSUME NEW b \in Bs
      PROVE  /\ Cardinality(Load(b)) <= SmallerOf(waterLevel, bMax[b])
             /\ Cardinality(Load(b)) \in Nat /\ Cardinality(Load(b)) <= ACount
  <2>1. Load(b) \in SUBSET As
    BY DEF Load
  <2>2. Cardinality(Load(b)) = Len(bToA[b])
    <3>1. bToA[b] \in Seq(As) /\ Lists(bToA[b], Load(b))
      BY <1>1 DEF AssignTypes, TablesAgree
    <3> QED BY <3>1, ListedCount
  <2> QED BY <1>1, <2>1, <2>2, BasicSets DEF TablesAgree, Capacity
<1>4. \A l \in Nat : (\A b \in Bs : Cardinality(Load(b)) <= SmallerOf(l, bMax[b]))
                       => aToB \in Assignments(l)
  <2>1. aToB \in [As -> Bs] /\ \A a \in As : aToB[a] \in ToSet(options[a])
    <3>1. \A a \in As : aToB[a] # 0
      BY <1>2, BasicSets
    <3>2. aToB \in [As -> 0 .. BCount]
      BY <1>1 DEF AssignTypes
    <3> QED BY <1>1, <1>2, <3>1, <3>2 DEF TablesAgree
  <2> QED BY <2>1 DEF Assignments, Load
<1>5. waterLevel <= ACount
  <2> SUFFICES ASSUME waterLevel > ACount PROVE FALSE
    BY <1>1, BasicSets
  <2>1. \A b \in Bs : Cardinality(Load(b)) <= SmallerOf(ACount, bMax[b])
    <3> SUFFICES ASSUME NEW b \in Bs PROVE Cardinality(Load(b)) <= SmallerOf(ACount, bMax[b])
      OBVIOUS
    <3>1. bMax[b] \in Nat
      BY <1>1 DEF AssignTypes
    <3> QED BY <1>1, <1>3, <3>1, BasicSets DEF SmallerOf
  <2>2. aToB \in Assignments(ACount)
    BY <1>4, <2>1, BasicSets
  <2>3. Assignments(ACount) \subseteq Assignments(waterLevel - 1)
    <3>1. bMax \in [Bs -> Nat] /\ ACount \in Nat /\ waterLevel - 1 \in Nat
          /\ ACount <= waterLevel - 1
      BY <1>1, BasicSets DEF AssignTypes
    <3> QED BY <3>1, HigherLevels
  <2> QED BY <1>1, <2>2, <2>3
<1>6. aToB \in Assignments(waterLevel)
  BY <1>1, <1>3, <1>4
<1>7. waterLevel \in 1 .. ACount
  BY <1>1, <1>5, BasicSets
<1> QED BY <1>1, <1>6, <1>7

LEMMA NothingPlaces ==
    ASSUME AssignTypes, Assignments(waterLevel) = {}, \A b \in Bs : bMax[b] <= waterLevel
    PROVE  Assignments(ACount) = {}
<1>1. bMax \in [Bs -> Nat] /\ waterLevel \in Nat /\ ACount \in Nat
  BY BasicSets DEF AssignTypes
<1>2. Assignments(ACount) \subseteq Assignments(waterLevel)
  BY <1>1, HigherLevels
<1> QED BY <1>2

(* A new search has met the a that it places, and no b. *)
LEMMA SearchStarts ==
    ASSUME AssignTypes, NEW from \in Nat, Unplaced(from) # {}, StartSearch(from)
    PROVE  /\ phase' = "search" /\ placing' \in As /\ placing' >= from /\ aToB[placing'] = 0
           /\ \A a \in As : a < placing' /\ aToB[a] = 0 => a < from
           /\ searchQueue' = <<placing'>> /\ nextOption' = 1
           /\ parentB' = [b \in Bs |-> 0]
<1>1. Unplaced(from) \in SUBSET Nat
  BY BasicSets DEF Unplaced, As
<1>2. PICK m \in Unplaced(from) : \A a \in Unplaced(from) : m <= a
  BY <1>1, NatMin
<1>3. /\ Min(Unplaced(from)) \in Unplaced(from)
      /\ \A a \in Unplaced(from) : Min(Unplaced(from)) <= a
  BY <1>2 DEF Min
<1>4. placing' = Min(Unplaced(from))
  BY DEF StartSearch
<1>5. placing' \in As /\ placing' >= from /\ aToB[placing'] = 0
  BY <1>3, <1>4 DEF Unplaced
<1>6. ASSUME NEW a \in As, a < placing', aToB[a] = 0 PROVE a < from
  <2>1. a \notin Unplaced(from)
    BY <1>1, <1>3, <1>4, <1>5, <1>6 DEF As
  <2> QED BY <1>6, <2>1 DEF Unplaced, As
<1> QED BY <1>4, <1>5, <1>6 DEF StartSearch

(* The search invariant at the start of a search. *)
LEMMA FreshSearch ==
    ASSUME AssignTypes', phase' = "search", placing' \in As, aToB'[placing'] = 0,
           searchQueue' = <<placing'>>, nextOption' = 1, parentB' = [b \in Bs |-> 0]
    PROVE  SearchInv' /\ FlipInv'
<1>1. \A b \in Bs : parentB'[b] = 0
  OBVIOUS
<1>2. ToSet(searchQueue)' = {placing'}
  BY DEF ToSet
<1>3. Searched' = {placing'}
  <2>1. \A a \in As : aToB'[a] # 0 => aToB'[a] \in Bs
    BY BasicSets DEF AssignTypes, Bs
  <2> QED BY <1>1, <2>1 DEF Searched
<1>4. PathsBack'
  <2>1. [b \in Bs |-> 0] \in [Bs -> 0 .. 0]
    OBVIOUS
  <2> QED BY <1>1, <2>1 DEF PathsBack
<1>5. HeadSoFar'
  <2>1. Head(searchQueue') \in As
    OBVIOUS
  <2>2. \A k \in DOMAIN options'[Head(searchQueue')] : k \in Nat \ {0}
    BY <2>1 DEF AssignTypes
  <2> QED BY <2>2 DEF HeadSoFar
<1>6. SearchInv'
  BY <1>1, <1>2, <1>3, <1>4, <1>5 DEF SearchInv, LeftTheQueue
<1> QED BY <1>6 DEF FlipInv

LEMMA RaiseKept == AssignInv /\ Raise => AssignInv'
<1> SUFFICES ASSUME AssignInv, Raise PROVE AssignInv'
  OBVIOUS
<1>1. /\ AssignTypes /\ TablesAgree /\ LevelInv /\ phase = "raise"
      /\ UNCHANGED <<unique, options, bMax, aToB, bToA, currentB>>
  BY DEF AssignInv, Raise
<1>2. CASE Unplaced(1) = {} \/ ~Increased
  <2>1. UNCHANGED <<waterLevel, placing, searchQueue, nextOption, parentB>> /\ phase' = "done"
        /\ result' = IF Unplaced(1) = {} THEN aToB ELSE <<>>
    BY <1>2 DEF Raise, Return
  <2>2. AssignTypes' /\ TablesAgree'
    BY <1>1, <2>1 DEF AssignTypes, TablesAgree, Load, Capacity
  <2>3. \A l : Assignments(l)' = Assignments(l)
    BY <1>1 DEF Assignments
  <2>4. ASSUME Unplaced(1) = {} PROVE AssignsAndSpreads'
    <3>1. PICK limit \in 1 .. ACount : aToB \in Assignments(limit) /\ Assignments(limit - 1) = {}
      BY <1>1, <2>4, AllPlaced
    <3> QED BY <2>1, <2>3, <2>4, <3>1 DEF AssignsAndSpreads
  <2>5. ASSUME Unplaced(1) # {} PROVE AssignsAndSpreads'
    <3>1. ~Increased /\ Assignments(waterLevel) = {} /\ result' = <<>>
      BY <1>1, <1>2, <2>1, <2>5 DEF LevelInv
    <3>2. \A b \in Bs : bMax[b] <= waterLevel
      BY <1>1, <3>1 DEF Increased, AssignTypes
    <3>3. Assignments(ACount) = {}
      BY <1>1, <3>1, <3>2, NothingPlaces
    <3> QED BY <2>3, <3>1, <3>3 DEF AssignsAndSpreads
  <2>6. AssignsAndSpreads'
    BY <2>4, <2>5
  <2> QED BY <2>1, <2>2, <2>6 DEF AssignInv, SearchInv, FlipInv, LevelInv
<1>3. CASE Unplaced(1) # {} /\ Increased
  <2>1. waterLevel' = waterLevel + 1 /\ StartSearch(1) /\ UNCHANGED result
    BY <1>3 DEF Raise
  <2>2. /\ phase' = "search" /\ placing' \in As /\ aToB'[placing'] = 0
        /\ \A a \in As : a < placing' /\ aToB[a] = 0 => a < 1
        /\ searchQueue' = <<placing'>> /\ nextOption' = 1
        /\ parentB' = [b \in Bs |-> 0]
    BY <1>1, <1>3, <2>1, SearchStarts
  <2>3. AssignTypes'
    BY <1>1, <2>1, <2>2, BasicSets DEF AssignTypes
  <2>4. TablesAgree'
    <3>1. ASSUME NEW b \in Bs PROVE Len(bToA[b]) <= Capacity(b)'
      <4>1. Len(bToA[b]) <= Capacity(b) /\ bMax[b] \in Nat /\ Len(bToA[b]) \in Nat
            /\ bMax' = bMax /\ waterLevel \in Nat
        BY <1>1 DEF TablesAgree, AssignTypes
      <4> QED BY <2>1, <4>1 DEF Capacity, SmallerOf
    <3> QED BY <1>1, <3>1 DEF TablesAgree, Load
  <2>5. LevelInv'
    <3>1. \A l : Assignments(l)' = Assignments(l)
      BY <1>1 DEF Assignments
    <3>2. waterLevel' - 1 = waterLevel /\ waterLevel' >= 1 /\ Assignments(waterLevel) = {}
      BY <1>1, <1>3, <2>1 DEF AssignTypes, LevelInv
    <3>3. \A a \in As : ~(a < 1)
      BY BasicSets DEF As
    <3> QED BY <1>1, <2>2, <3>1, <3>2, <3>3 DEF LevelInv
  <2> QED BY <2>2, <2>3, <2>4, <2>5, FreshSearch DEF AssignInv, AssignsAndSpreads
<1> QED BY <1>2, <1>3

LEMMA NextInQueueKept == AssignInv /\ NextInQueue => AssignInv'
<1> SUFFICES ASSUME AssignInv, NextInQueue PROVE AssignInv'
  OBVIOUS
<1> DEFINE head == Head(searchQueue)
<1>1. /\ AssignTypes /\ TablesAgree /\ LevelInv /\ SearchInv /\ phase = "search"
      /\ searchQueue # <<>> /\ nextOption > Len(options[head])
      /\ searchQueue' = Tail(searchQueue) /\ nextOption' = 1
      /\ UNCHANGED <<unique, options, bMax, waterLevel, aToB, bToA, phase, placing, parentB,
                     currentB, result>>
  BY DEF AssignInv, NextInQueue
<1>2. searchQueue \in Seq(As) /\ searchQueue' \in Seq(As) /\ head \in As
      /\ ToSet(searchQueue) \subseteq {head} \cup ToSet(searchQueue')
      /\ ToSet(searchQueue') \subseteq ToSet(searchQueue)
  <2>1. searchQueue \in Seq(As) /\ searchQueue' \in Seq(As) /\ head \in As
    BY <1>1 DEF AssignTypes
  <2>2. /\ Len(searchQueue) \in Nat /\ Len(searchQueue) >= 1
        /\ DOMAIN searchQueue = 1 .. Len(searchQueue)
        /\ DOMAIN searchQueue' = 1 .. Len(searchQueue) - 1
        /\ \A i \in 1 .. Len(searchQueue) - 1 : searchQueue'[i] = searchQueue[i + 1]
        /\ head = searchQueue[1]
    BY <1>1, <2>1
  <2>3. ASSUME NEW i \in 1 .. Len(searchQueue), i # 1 PROVE searchQueue[i] \in ToSet(searchQueue')
    <3>1. i - 1 \in 1 .. Len(searchQueue) - 1 /\ (i - 1) + 1 = i
      BY <2>2, <2>3
    <3> QED BY <2>2, <3>1 DEF ToSet
  <2>4. ASSUME NEW i \in 1 .. Len(searchQueue) - 1 PROVE searchQueue'[i] \in ToSet(searchQueue)
    <3>1. i + 1 \in 1 .. Len(searchQueue)
      BY <2>2
    <3> QED BY <2>2, <3>1 DEF ToSet
  <2>5. \A x \in ToSet(searchQueue) : x = head \/ x \in ToSet(searchQueue')
    BY <2>2, <2>3 DEF ToSet
  <2>6. \A x \in ToSet(searchQueue') : x \in ToSet(searchQueue)
    BY <2>2, <2>4 DEF ToSet
  <2> QED BY <2>1, <2>5, <2>6
<1>3. \A k \in DOMAIN options[head] : parentB[options[head][k]] # 0
  <2>1. \A k \in DOMAIN options[head] : k < nextOption
    <3>1. options[head] \in Seq(Bs) /\ nextOption \in Nat
      BY <1>1, <1>2 DEF AssignTypes
    <3> HIDE DEF head
    <3> QED BY <1>1, <3>1
  <2> QED BY <1>1, <2>1 DEF SearchInv, HeadSoFar
<1> HIDE DEF head
<1>4. Searched' = Searched /\ ToSet(searchQueue)' = ToSet(searchQueue')
  BY <1>1 DEF Searched, ToSet
<1>5. LeftTheQueue'
  <2> SUFFICES ASSUME NEW a \in Searched, a \notin ToSet(searchQueue'),
                      NEW k \in DOMAIN options[a]
               PROVE  parentB[options[a][k]] # 0
    BY <1>1, <1>4 DEF LeftTheQueue
  <2>1. CASE a = head
    BY <1>3, <2>1
  <2>2. CASE a # head
    BY <1>1, <1>2, <2>2 DEF SearchInv, LeftTheQueue
  <2> QED BY <2>1, <2>2
<1>6. HeadSoFar'
  <2> SUFFICES ASSUME searchQueue' # <<>>, NEW k \in DOMAIN options[Head(searchQueue')]
               PROVE  ~(k < nextOption')
    BY <1>1 DEF HeadSoFar
  <2>1. Head(searchQueue') \in As
    BY <1>2
  <2>2. options[Head(searchQueue')] \in Seq(Bs)
    BY <1>1, <2>1 DEF AssignTypes
  <2>3. k \in Nat /\ k >= 1
    BY <2>2
  <2> QED BY <1>1, <2>3
<1>7. PathsBack'
  <2>1. \A b, rank : Linked(b, rank)' = Linked(b, rank)
    BY <1>1 DEF Linked
  <2> QED BY <1>1, <2>1 DEF SearchInv, PathsBack
<1>8. SearchInv'
  <2>1. ToSet(searchQueue)' \subseteq Searched'
    BY <1>1, <1>2, <1>4 DEF SearchInv
  <2>2. \A b \in Bs : parentB'[b] # 0 => ~HasRoom(b)'
    BY <1>1 DEF SearchInv, HasRoom, Capacity
  <2> QED BY <1>1, <1>5, <1>6, <1>7, <2>1, <2>2 DEF SearchInv
<1>9. AssignTypes' /\ TablesAgree'
  <2>1. AssignTypes'
    BY <1>1, <1>2 DEF AssignTypes
  <2>2. TablesAgree'
    BY <1>1 DEF TablesAgree, Load, Capacity
  <2> QED BY <2>1, <2>2
<1>10. LevelInv'
  <2>1. \A l : Assignments(l)' = Assignments(l)
    BY <1>1 DEF Assignments
  <2> QED BY <1>1, <2>1 DEF LevelInv
<1> QED BY <1>1, <1>8, <1>9, <1>10 DEF AssignInv, FlipInv, AssignsAndSpreads

LEMMA VisitKept == AssignInv /\ Visit => AssignInv'
<1> SUFFICES ASSUME AssignInv, Visit PROVE AssignInv'
  OBVIOUS
<1> DEFINE current == Head(searchQueue)
           b == options[current][nextOption]
<1>1. /\ AssignTypes /\ TablesAgree /\ LevelInv /\ SearchInv /\ phase = "search"
      /\ searchQueue # <<>> /\ nextOption <= Len(options[current])
      /\ UNCHANGED <<unique, options, bMax, waterLevel, aToB, bToA, placing, result>>
      /\ parentB' = IF parentB[b] # 0 THEN parentB ELSE [parentB EXCEPT ![b] = current]
      /\ IF parentB[b] = 0 /\ HasRoom(b)
           THEN phase' = "flip" /\ currentB' = b /\ UNCHANGED <<searchQueue, nextOption>>
           ELSE /\ searchQueue' = IF parentB[b] # 0 THEN searchQueue ELSE searchQueue \o bToA[b]
                /\ nextOption' = nextOption + 1
                /\ UNCHANGED <<phase, currentB>>
  BY DEF AssignInv, Visit
<1>2. /\ searchQueue \in Seq(As) /\ current \in As /\ current \in ToSet(searchQueue)
      /\ nextOption \in DOMAIN options[current] /\ b \in Bs /\ b \in ToSet(options[current])
  <2>1. searchQueue \in Seq(As) /\ current \in As /\ 1 \in DOMAIN searchQueue
        /\ current = searchQueue[1]
    BY <1>1 DEF AssignTypes
  <2>2. options[current] \in Seq(Bs) /\ nextOption \in Nat \ {0}
    BY <1>1, <2>1 DEF AssignTypes
  <2>3. nextOption \in DOMAIN options[current]
    BY <1>1, <2>2
  <2> QED BY <2>1, <2>2, <2>3 DEF ToSet
<1> HIDE DEF b, current
<1>3. current \in Searched /\ placing \in As /\ aToB[placing] = 0
  BY <1>1, <1>2 DEF SearchInv
<1>4. bToA[b] \in Seq(As)
  BY <1>1, <1>2 DEF AssignTypes
<1>5. searchQueue' \in Seq(As)
  <2>1. searchQueue' = searchQueue \/ searchQueue' = searchQueue \o bToA[b]
    BY <1>1
  <2>2. \A s, t \in Seq(As) : s \o t \in Seq(As)
    OBVIOUS
  <2> QED BY <1>2, <1>4, <2>1, <2>2
<1>6. AssignTypes'
  <2>1. nextOption' \in Nat \ {0}
    <3>1. nextOption' = nextOption \/ nextOption' = nextOption + 1
      BY <1>1
    <3>2. nextOption \in Nat \ {0}
      BY <1>1 DEF AssignTypes
    <3> QED BY <3>1, <3>2
  <2>2. current \in 0 .. ACount /\ parentB \in [Bs -> 0 .. ACount]
    BY <1>1, <1>2, BasicSets DEF AssignTypes, As
  <2>3. parentB' \in [Bs -> 0 .. ACount]
    BY <1>1, <2>2
  <2> QED BY <1>1, <1>5, <2>1, <2>3 DEF AssignTypes
<1>7. TablesAgree' /\ \A c \in Bs : HasRoom(c)' = HasRoom(c)
  BY <1>1 DEF TablesAgree, Load, Capacity, HasRoom
<1>8. LevelInv'
  <2>1. \A l : Assignments(l)' = Assignments(l)
    BY <1>1 DEF Assignments
  <2>2. phase' \in {"search", "flip"}
    BY <1>1
  <2> QED BY <1>1, <2>1, <2>2 DEF LevelInv
<1>9. CASE parentB[b] # 0
  <2>1. UNCHANGED <<searchQueue, parentB, phase>> /\ nextOption' = nextOption + 1
    BY <1>1, <1>9
  <2>2. Searched' = Searched /\ ToSet(searchQueue)' = ToSet(searchQueue)
    BY <1>1, <2>1 DEF Searched, ToSet
  <2>3. LeftTheQueue'
    BY <1>1, <2>1, <2>2 DEF SearchInv, LeftTheQueue
  <2>4. HeadSoFar'
    <3> SUFFICES ASSUME NEW k \in DOMAIN options[current], k < nextOption + 1
                 PROVE  parentB[options[current][k]] # 0
      BY <1>1, <2>1 DEF HeadSoFar, current
    <3>1. k \in Nat /\ nextOption \in Nat
      <4>1. options[current] \in Seq(Bs) /\ nextOption \in Nat
        BY <1>1, <1>2 DEF AssignTypes
      <4> QED BY <4>1
    <3>2. CASE k = nextOption
      BY <1>9, <3>2 DEF b
    <3>3. CASE k < nextOption
      BY <1>1, <3>3 DEF SearchInv, HeadSoFar, current
    <3> QED BY <3>1, <3>2, <3>3
  <2>5. PathsBack'
    <3>1. \A c, rank : Linked(c, rank)' = Linked(c, rank)
      BY <1>1, <2>1 DEF Linked
    <3> QED BY <1>1, <2>1, <3>1 DEF SearchInv, PathsBack
  <2>6. SearchInv'
    BY <1>1, <1>7, <2>1, <2>2, <2>3, <2>4, <2>5 DEF SearchInv
  <2> QED BY <1>1, <1>6, <1>7, <1>8, <2>1, <2>6 DEF AssignInv, FlipInv, AssignsAndSpreads
<1>10. CASE parentB[b] = 0
  <2>1. /\ parentB' = [parentB EXCEPT ![b] = current] /\ parentB'[b] = current
        /\ \A c \in Bs : c # b => parentB'[c] = parentB[c]
        /\ current # 0
    BY <1>1, <1>2, <1>10, BasicSets DEF AssignTypes
  <2>0. PICK n \in Nat : \E rank \in [Bs -> 0 .. n] :
          \A c \in Bs : parentB[c] # 0 => Linked(c, rank)
    BY <1>1 DEF SearchInv, PathsBack
  <2>2. PICK rank \in [Bs -> 0 .. n] : \A c \in Bs : parentB[c] # 0 => Linked(c, rank)
    BY <2>0
  <2>3. PICK r \in [Bs -> 0 .. n + 1] : r[b] = n + 1 /\ \A c \in Bs : c # b => r[c] = rank[c]
    <3>1. [rank EXCEPT ![b] = n + 1] \in [Bs -> 0 .. n + 1]
      BY <1>2
    <3> QED BY <1>2, <3>1
  <2>4. ASSUME NEW c \in Bs, parentB'[c] # 0 PROVE Linked(c, r)'
    <3> DEFINE a == parentB'[c]
    <3>1. CASE c = b
      <4>1. current # placing =>
              aToB[current] # 0 /\ parentB[aToB[current]] # 0 /\ aToB[current] \in Bs
        BY <1>1, <1>3, BasicSets, SMTT(60) DEF Searched, AssignTypes, Bs
      <4>2. current # placing => aToB[current] # b /\ rank[aToB[current]] < n + 1
        <5> SUFFICES ASSUME current # placing
                     PROVE  aToB[current] # b /\ rank[aToB[current]] < n + 1
          OBVIOUS
        <5>1. rank[aToB[current]] \in 0 .. n
          BY <2>2, <4>1
        <5> QED BY <1>10, <2>2, <4>1, <5>1
      <4>3. rank[aToB[current]] = r[aToB[current]] \/ current = placing
        BY <2>3, <4>1, <4>2
      <4> QED BY <1>1, <1>2, <2>1, <2>3, <3>1, <4>1, <4>2, <4>3 DEF Linked
    <3>2. CASE c # b
      <4>1. a = parentB[c] /\ a # 0 /\ a \in As /\ Linked(c, rank)
        BY <1>1, <2>1, <2>2, <2>4, <3>2, BasicSets DEF AssignTypes, As
      <4>2. a # placing => aToB[a] # 0 /\ parentB[aToB[a]] # 0 /\ aToB[a] \in Bs
                           /\ rank[aToB[a]] < rank[c]
        <5>1. aToB[a] \in 0 .. BCount
          BY <1>1, <4>1 DEF AssignTypes
        <5>2. Linked(c, rank) /\ a = parentB[c]
          BY <4>1
        <5> HIDE DEF a
        <5> QED BY <5>1, <5>2, BasicSets DEF Linked, Bs
      <4> HIDE DEF a
      <4>3. a # placing => aToB[a] # b
        BY <1>10, <4>2
      <4>4. c \in ToSet(options[a])
        BY <4>1 DEF Linked
      <4>5. a # placing => parentB'[aToB[a]] # 0 /\ r[aToB[a]] < r[c]
        BY <2>1, <2>3, <3>2, <4>2, <4>3
      <4>6. parentB'[c] = a
        BY DEF a
      <4> QED BY <1>1, <4>2, <4>4, <4>5, <4>6 DEF Linked
    <3> QED BY <3>1, <3>2
  <2>5. CASE HasRoom(b)
    <3>1. phase' = "flip" /\ currentB' = b
      BY <1>1, <1>10, <2>5
    <3>2. r \in [Bs -> Nat] /\ b \in Bs
      BY <1>2, <2>3
    <3>3. FlipInv'
      BY <1>1, <1>2, <1>3, <1>7, <2>1, <2>4, <2>5, <3>1, <3>2 DEF FlipInv
    <3> QED BY <1>6, <1>7, <1>8, <3>1, <3>3 DEF AssignInv, SearchInv, AssignsAndSpreads
  <2>6. CASE ~HasRoom(b)
    <3>1. /\ searchQueue' = searchQueue \o bToA[b] /\ nextOption' = nextOption + 1
          /\ phase' = "search"
      BY <1>1, <1>10, <2>6
    <3>2. /\ ToSet(searchQueue)' = ToSet(searchQueue) \cup ToSet(bToA[b])
          /\ Head(searchQueue') = current /\ searchQueue' # <<>>
      <4> DEFINE s == searchQueue
                 t == bToA[b]
                 u == searchQueue'
      <4>1. /\ Len(s) \in Nat /\ Len(t) \in Nat /\ Len(s) >= 1
            /\ DOMAIN s = 1 .. Len(s) /\ DOMAIN t = 1 .. Len(t)
            /\ DOMAIN u = 1 .. Len(s) + Len(t) /\ Len(u) = Len(s) + Len(t)
            /\ \A i \in 1 .. Len(s) + Len(t) :
                 u[i] = IF i <= Len(s) THEN s[i] ELSE t[i - Len(s)]
        <5>1. s \in Seq(As) /\ s # <<>>
          BY <1>1, <1>2
        <5>2. t \in Seq(As) /\ u = s \o t
          BY <1>4, <3>1
        <5> HIDE DEF s, t, u
        <5> QED BY ONLY <5>1, <5>2
      <4>2. u \in Seq(As) /\ current = s[1]
        BY <1>1, <1>2, <1>5 DEF current
      <4> HIDE DEF s, t, u
      <4>3. ASSUME NEW i \in DOMAIN u PROVE u[i] \in ToSet(s) \cup ToSet(t)
        <5>1. i <= Len(s) => i \in DOMAIN s
          BY <4>1
        <5>2. ~(i <= Len(s)) => i - Len(s) \in DOMAIN t
          BY <4>1
        <5> QED BY <4>1, <5>1, <5>2 DEF ToSet
      <4>4. ASSUME NEW i \in DOMAIN s PROVE s[i] \in ToSet(u)
        <5>1. i \in DOMAIN u /\ u[i] = s[i]
          BY <4>1
        <5> QED BY <5>1 DEF ToSet
      <4>5. ASSUME NEW i \in DOMAIN t PROVE t[i] \in ToSet(u)
        <5>1. i + Len(s) \in DOMAIN u /\ u[i + Len(s)] = t[i]
          <6>1. i + Len(s) \in 1 .. Len(s) + Len(t) /\ ~(i + Len(s) <= Len(s))
                /\ (i + Len(s)) - Len(s) = i
            BY <4>1
          <6> QED BY <4>1, <6>1
        <5> QED BY <5>1 DEF ToSet
      <4>6. ToSet(u) = ToSet(s) \cup ToSet(t)
        <5>1. \A x \in ToSet(u) : x \in ToSet(s) \cup ToSet(t)
          BY <4>3 DEF ToSet
        <5>2. \A x \in ToSet(s) : x \in ToSet(u)
          BY <4>4 DEF ToSet
        <5>3. \A x \in ToSet(t) : x \in ToSet(u)
          BY <4>5 DEF ToSet
        <5> QED BY <5>1, <5>2, <5>3
      <4>7. Head(u) = s[1] /\ u # <<>>
        BY <4>1, <4>2
      <4>8. ToSet(searchQueue)' = ToSet(u)
        BY DEF ToSet, u
      <4> QED BY <4>2, <4>6, <4>7, <4>8 DEF s, t, u
    <3>3. ToSet(bToA[b]) = Load(b)
      BY <1>1, <1>2 DEF TablesAgree, Lists
    <3>4. Searched' = Searched \cup Load(b)
      <4>1. \A a \in As : aToB[a] # 0 => aToB[a] \in Bs
        BY <1>1, BasicSets, SMTT(60) DEF AssignTypes, Bs
      <4>2. \A a \in As : a \in Searched' <=> a \in Searched \/ a \in Load(b)
        BY <1>1, <1>2, <1>10, <2>1, <4>1, BasicSets DEF Searched, Load
      <4> QED BY <4>2 DEF Searched, Load
    <3>5. LeftTheQueue'
      <4> SUFFICES ASSUME NEW a \in Searched', a \notin ToSet(searchQueue)',
                          NEW k \in DOMAIN options[a]
                   PROVE  parentB'[options[a][k]] # 0
        BY <1>1 DEF LeftTheQueue
      <4>1. parentB[options[a][k]] # 0
        BY <1>1, <3>2, <3>3, <3>4 DEF SearchInv, LeftTheQueue
      <4>2. options[a][k] \in Bs
        <5>1. options[a] \in Seq(Bs)
          BY <1>1 DEF AssignTypes, Searched
        <5> QED BY <5>1
      <4> QED BY <2>1, <4>1, <4>2
    <3>6. HeadSoFar'
      <4> SUFFICES ASSUME NEW k \in DOMAIN options[current], k < nextOption + 1
                   PROVE  parentB'[options[current][k]] # 0
        <5> HIDE DEF current
        <5> QED BY <1>1, <3>1, <3>2 DEF HeadSoFar
      <4>1. options[current] \in Seq(Bs) /\ nextOption \in Nat
        BY <1>1, <1>2 DEF AssignTypes
      <4>2. k \in Nat /\ options[current][k] \in Bs
        BY <4>1
      <4>3. CASE k = nextOption
        BY <2>1, <4>3 DEF b
      <4>4. CASE k < nextOption
        <5>1. parentB[options[current][k]] # 0
          BY <1>1, <4>4 DEF SearchInv, HeadSoFar, current
        <5> QED BY <2>1, <4>2, <5>1
      <4> QED BY <4>1, <4>2, <4>3, <4>4
    <3>7. PathsBack'
      <4>1. n + 1 \in Nat
        OBVIOUS
      <4> QED BY <2>3, <2>4, <4>1 DEF PathsBack
    <3>8. \A c \in Bs : parentB'[c] # 0 => ~HasRoom(c)'
      BY <1>1, <1>7, <2>1, <2>6 DEF SearchInv
    <3>9. SearchInv'
      BY <1>1, <3>2, <3>3, <3>4, <3>5, <3>6, <3>7, <3>8 DEF SearchInv
    <3> QED BY <1>6, <1>7, <1>8, <3>1, <3>9 DEF AssignInv, FlipInv, AssignsAndSpreads
  <2> QED BY <2>5, <2>6
<1> QED BY <1>9, <1>10

LEMMA DeadEndKept == AssignInv /\ DeadEnd => AssignInv'
<1> SUFFICES ASSUME AssignInv, DeadEnd PROVE AssignInv'
  OBVIOUS
<1>1. /\ AssignTypes /\ TablesAgree /\ LevelInv /\ SearchInv /\ phase = "search"
      /\ searchQueue = <<>>
      /\ UNCHANGED <<unique, options, bMax, waterLevel, aToB, bToA, currentB>>
  BY DEF AssignInv, DeadEnd
<1>2. Assignments(waterLevel) = {} /\ \A l : Assignments(l)' = Assignments(l)
  BY <1>1, NoPathNoAssignment DEF Assignments
<1>3. TablesAgree'
  BY <1>1 DEF TablesAgree, Load, Capacity
<1>4. /\ waterLevel \in Nat /\ waterLevel >= 1 /\ placing \in As /\ aToB[placing] = 0
      /\ Assignments(waterLevel - 1) = {}
  BY <1>1 DEF AssignTypes, LevelInv, SearchInv
<1>5. CASE unique
  <2>1. UNCHANGED <<placing, searchQueue, nextOption, parentB>> /\ phase' = "done"
        /\ result' = <<>>
    BY <1>5 DEF DeadEnd, Return
  <2>2. AssignTypes'
    BY <1>1, <2>1 DEF AssignTypes
  <2>3. Assignments(ACount) = {}
    <3>1. \A b \in Bs : bMax[b] <= waterLevel
      BY <1>1, <1>4, <1>5 DEF AssignTypes
    <3> QED BY <1>1, <1>2, <3>1, NothingPlaces
  <2>4. AssignsAndSpreads'
    BY <1>2, <2>1, <2>3 DEF AssignsAndSpreads
  <2> QED BY <1>3, <2>1, <2>2, <2>4 DEF AssignInv, SearchInv, FlipInv, LevelInv
<1>6. CASE ~unique
  <2>1. StartSearch(placing + 1) /\ UNCHANGED result
    BY <1>6 DEF DeadEnd
  <2>2. placing + 1 \in Nat
    BY <1>4 DEF As
  <2>3. CASE Unplaced(placing + 1) = {}
    <3>1. phase' = "raise" /\ UNCHANGED <<placing, searchQueue, nextOption, parentB>>
      BY <2>1, <2>3 DEF StartSearch
    <3>2. AssignTypes'
      BY <1>1, <3>1 DEF AssignTypes
    <3>3. Unplaced(1)' # {}
      BY <1>1, <1>4 DEF Unplaced, As
    <3>4. LevelInv'
      BY <1>1, <1>2, <3>1, <3>3 DEF LevelInv
    <3> QED BY <1>3, <3>1, <3>2, <3>4 DEF AssignInv, SearchInv, FlipInv, AssignsAndSpreads
  <2>4. CASE Unplaced(placing + 1) # {}
    <3>1. /\ phase' = "search" /\ placing' \in As /\ aToB'[placing'] = 0
          /\ searchQueue' = <<placing'>> /\ nextOption' = 1
          /\ parentB' = [b \in Bs |-> 0]
      BY <1>1, <2>1, <2>2, <2>4, SearchStarts
    <3>2. AssignTypes'
      BY <1>1, <2>1, <3>1, BasicSets DEF AssignTypes
    <3>3. LevelInv'
      BY <1>1, <1>2, <1>4, <3>1 DEF LevelInv
    <3> QED BY <1>3, <3>1, <3>2, <3>3, FreshSearch DEF AssignInv, AssignsAndSpreads
  <2> QED BY <2>3, <2>4
<1> QED BY <1>5, <1>6

(* Taking an a along: both tables agree again, and the b it left has room. *)
LEMMA TakenAlong ==
    ASSUME AssignTypes, TablesAgree, NEW c \in Bs, NEW a \in As, HasRoom(c),
           NEW p, p = aToB[a], p # c,
           c \in ToSet(options[a]), UNCHANGED <<options, bMax, waterLevel>>,
           bToA' = [b \in Bs |-> IF b = c THEN Append(bToA[b], a)
                                 ELSE IF b = p THEN Without(bToA[b], a)
                                 ELSE bToA[b]],
           aToB' = [aToB EXCEPT ![a] = c]
    PROVE  /\ aToB' \in [As -> 0 .. BCount] /\ bToA' \in [Bs -> Seq(As)] /\ TablesAgree'
           /\ p # 0 => HasRoom(p)'
<1>1. /\ aToB \in [As -> 0 .. BCount] /\ bToA \in [Bs -> Seq(As)]
      /\ \A b \in Bs : Capacity(b)' = Capacity(b) /\ Capacity(b) \in Nat
  BY DEF AssignTypes, Capacity, SmallerOf
<1>2. aToB' \in [As -> 0 .. BCount] /\ aToB'[a] = c /\ \A x \in As : x # a => aToB'[x] = aToB[x]
  <2>1. c \in 0 .. BCount
    BY BasicSets DEF Bs
  <2> QED BY <1>1, <2>1
<1>3. ASSUME NEW b \in Bs
      PROVE  /\ bToA'[b] \in Seq(As) /\ Lists(bToA'[b], Load(b)')
             /\ Len(bToA'[b]) <= Capacity(b)
             /\ b = p => Len(bToA'[b]) < Capacity(b)
  <2>1. bToA[b] \in Seq(As) /\ Lists(bToA[b], Load(b)) /\ Len(bToA[b]) <= Capacity(b)
        /\ Len(bToA[b]) \in Nat
    BY <1>1 DEF TablesAgree
  <2>2. CASE b = c
    <3>1. bToA'[b] = Append(bToA[b], a) /\ a \notin Load(b) /\ Load(b)' = Load(b) \cup {a}
      BY <1>2, <2>2 DEF Load
    <3>2. bToA'[b] \in Seq(As) /\ Len(bToA'[b]) = Len(bToA[b]) + 1 /\ Lists(bToA'[b], Load(b)')
      BY <2>1, <3>1, ListedOneMore, ZenonT(60)
    <3> QED BY <1>1, <2>1, <2>2, <3>2 DEF HasRoom
  <2>3. CASE b # c /\ b = p
    <3>1. bToA'[b] = Without(bToA[b], a) /\ a \in Load(b) /\ Load(b)' = Load(b) \ {a}
      BY <1>2, <2>3 DEF Load
    <3>2. bToA'[b] \in Seq(As) /\ Len(bToA'[b]) = Len(bToA[b]) - 1 /\ Lists(bToA'[b], Load(b)')
      BY <2>1, <3>1, ListedOneLess, ZenonT(60)
    <3> QED BY <1>1, <2>1, <3>2
  <2>4. CASE b # c /\ b # p
    <3>1. bToA'[b] = bToA[b] /\ Load(b)' = Load(b)
      BY <1>2, <2>4 DEF Load
    <3> QED BY <2>1, <2>4, <3>1
  <2> QED BY <2>2, <2>3, <2>4
<1>4. bToA' \in [Bs -> Seq(As)]
  <2>1. bToA' = [b \in Bs |-> bToA'[b]]
    OBVIOUS
  <2> QED BY <1>3, <2>1
<1>5. \A x \in As : aToB'[x] # 0 => aToB'[x] \in ToSet(options[x])
  BY <1>2 DEF TablesAgree
<1>6. TablesAgree'
  BY <1>1, <1>3, <1>5 DEF TablesAgree, ToSet
<1>7. p # 0 => HasRoom(p)'
  <2> SUFFICES ASSUME p # 0 PROVE HasRoom(p)'
    OBVIOUS
  <2>1. p \in Bs
    BY <1>1, BasicSets DEF Bs
  <2>2. Len(bToA'[p]) < Capacity(p) /\ Capacity(p)' = Capacity(p)
    BY <1>1, <1>3, <2>1
  <2> QED BY <2>2 DEF HasRoom
<1> QED BY <1>2, <1>4, <1>6, <1>7

LEMMA FlipKept == AssignInv /\ Flip => AssignInv'
<1> SUFFICES ASSUME AssignInv, Flip PROVE AssignInv'
  OBVIOUS
<1>1. /\ AssignTypes /\ TablesAgree /\ LevelInv /\ FlipInv /\ phase = "flip"
      /\ UNCHANGED <<unique, options, bMax, waterLevel, result>>
  BY DEF AssignInv, Flip
<1>2. PICK a : a = parentB[currentB]
  OBVIOUS
<1>3. PICK c : c = currentB
  OBVIOUS
<1>4. /\ placing \in As /\ aToB[placing] = 0 /\ c \in Bs /\ parentB[c] # 0 /\ HasRoom(c)
      /\ a = parentB[c] /\ a \in As
  BY <1>1, <1>2, <1>3, BasicSets DEF FlipInv, AssignTypes, As
<1>5. PICK rank \in [Bs -> Nat] :
        \A b \in Bs : parentB[b] # 0 /\ rank[b] <= rank[c] => Linked(b, rank)
  BY <1>1, <1>3 DEF FlipInv
<1>6. Linked(c, rank)
  <2>1. rank[c] \in Nat
    BY <1>4
  <2> QED BY <1>4, <1>5, <2>1
<1>7. PICK p : p = aToB[a]
  OBVIOUS
<1>8. /\ c \in ToSet(options[a])
      /\ a # placing => p \in Bs /\ p # 0 /\ parentB[p] # 0 /\ rank[p] < rank[c]
  <2>1. p \in 0 .. BCount
    BY <1>1, <1>4, <1>7 DEF AssignTypes
  <2>2. p # 0 => p \in Bs
    BY <2>1 DEF Bs
  <2> QED BY <1>4, <1>6, <1>7, <2>2 DEF Linked
<1>9. p # c
  <2>1. rank[c] \in Nat
    BY <1>4
  <2> QED BY <1>4, <1>7, <1>8, <2>1, BasicSets
<1>10. /\ bToA' = [b \in Bs |-> IF b = c THEN Append(bToA[b], a)
                                ELSE IF b = p THEN Without(bToA[b], a)
                                ELSE bToA[b]]
       /\ aToB' = [aToB EXCEPT ![a] = c]
       /\ IF a = placing
            THEN currentB' = 0 /\ StartSearch(placing + 1)
            ELSE currentB' = p /\ UNCHANGED <<phase, placing, searchQueue, nextOption, parentB>>
  BY <1>2, <1>3, <1>7 DEF Flip
<1>11. /\ aToB' \in [As -> 0 .. BCount] /\ bToA' \in [Bs -> Seq(As)] /\ TablesAgree'
       /\ p # 0 => HasRoom(p)'
  <2>1. UNCHANGED <<options, bMax, waterLevel>>
    BY <1>1
  <2>2. /\ AssignTypes /\ TablesAgree /\ c \in Bs /\ a \in As /\ HasRoom(c) /\ p # c
        /\ c \in ToSet(options[a])
    BY <1>1, <1>4, <1>8, <1>9
  <2>3. /\ bToA' = [b \in Bs |-> IF b = c THEN Append(bToA[b], a)
                                ELSE IF b = p THEN Without(bToA[b], a)
                                ELSE bToA[b]]
        /\ aToB' = [aToB EXCEPT ![a] = c]
    BY <1>10
  <2> QED BY ONLY <1>7, <2>1, <2>2, <2>3, TakenAlong, ZenonT(60)
<1>12. aToB'[a] = c /\ \A x \in As : x # a => aToB'[x] = aToB[x]
  BY <1>1, <1>4, <1>10 DEF AssignTypes
<1>13. /\ waterLevel \in Nat /\ waterLevel >= 1 /\ Assignments(waterLevel - 1) = {}
       /\ (\E x \in As : x < placing /\ aToB[x] = 0) => Assignments(waterLevel) = {}
       /\ \A l : Assignments(l)' = Assignments(l)
  BY <1>1 DEF AssignTypes, LevelInv, Assignments
<1>14. CASE a # placing
  <2>1. currentB' = p /\ UNCHANGED <<phase, placing, searchQueue, nextOption, parentB>>
    BY <1>10, <1>14
  <2>2. AssignTypes'
    BY <1>1, <1>11, <2>1 DEF AssignTypes
  <2>3. ASSUME NEW b \in Bs, parentB[b] # 0, rank[b] <= rank[p] PROVE Linked(b, rank)'
    <3>1. rank[b] \in Nat /\ rank[p] \in Nat /\ rank[c] \in Nat
      BY <1>4, <1>8, <1>14
    <3>2. Linked(b, rank)
      BY <1>5, <1>8, <1>14, <2>3, <3>1
    <3>3. parentB[b] # a
      BY <1>7, <1>14, <2>3, <3>1, <3>2 DEF Linked
    <3>4. parentB[b] \in As
      BY <1>1, <2>3, BasicSets DEF AssignTypes, As
    <3>5. aToB'[parentB[b]] = aToB[parentB[b]]
      BY <1>12, <3>3, <3>4
    <3> QED BY <1>1, <2>1, <3>2, <3>5 DEF Linked
  <2>4. FlipInv'
    <3>1. placing' \in As /\ aToB'[placing'] = 0
      BY <1>4, <1>12, <1>14, <2>1
    <3>2. currentB' \in Bs /\ parentB'[currentB'] # 0
      BY <1>8, <1>14, <2>1
    <3>3. HasRoom(currentB)'
      BY <1>8, <1>11, <1>14, <2>1 DEF HasRoom, Capacity
    <3>4. \A b \in Bs : parentB'[b] # 0 /\ rank[b] <= rank[currentB'] => Linked(b, rank)'
      BY <2>1, <2>3
    <3> QED BY <3>1, <3>2, <3>3, <3>4 DEF FlipInv
  <2>5. LevelInv'
    <3>1. \A x \in As : aToB'[x] = 0 => aToB[x] = 0
      BY <1>4, <1>12, BasicSets
    <3> QED BY <1>1, <1>13, <2>1, <3>1 DEF LevelInv
  <2> QED BY <1>1, <1>11, <2>1, <2>2, <2>4, <2>5 DEF AssignInv, SearchInv, AssignsAndSpreads
<1>15. CASE a = placing
  <2>1. currentB' = 0 /\ StartSearch(placing + 1) /\ placing + 1 \in Nat /\ placing \in Nat
    BY <1>4, <1>10, <1>15 DEF As
  <2>2. \A x \in As : aToB'[x] = 0 <=> aToB[x] = 0 /\ x # placing
    BY <1>4, <1>12, <1>15, BasicSets
  <2>3. CASE Unplaced(placing + 1) = {}
    <3>1. phase' = "raise" /\ UNCHANGED <<placing, searchQueue, nextOption, parentB>>
      BY <2>1, <2>3 DEF StartSearch
    <3>2. AssignTypes'
      BY <1>1, <1>11, <3>1 DEF AssignTypes
    <3>3. ASSUME NEW x \in As, aToB'[x] = 0 PROVE x < placing /\ aToB[x] = 0
      <4>1. x \in Nat /\ aToB[x] = 0 /\ x # placing
        BY <2>2, <3>3 DEF As
      <4>2. ~(x >= placing + 1)
        BY <2>3, <4>1 DEF Unplaced
      <4> QED BY <2>1, <4>1, <4>2
    <3>4. Unplaced(1)' # {} => Assignments(waterLevel) = {}
      <4>1. Unplaced(1)' # {} => \E x \in As : aToB'[x] = 0
        BY DEF Unplaced
      <4> QED BY <1>13, <3>3, <4>1
    <3>5. LevelInv'
      BY <1>1, <1>13, <3>1, <3>4 DEF LevelInv
    <3> QED BY <1>11, <3>1, <3>2, <3>5 DEF AssignInv, SearchInv, FlipInv, AssignsAndSpreads
  <2>4. CASE Unplaced(placing + 1) # {}
    <3>1. /\ phase' = "search" /\ placing' \in As /\ placing' >= placing + 1
          /\ aToB[placing'] = 0
          /\ \A x \in As : x < placing' /\ aToB[x] = 0 => x < placing + 1
          /\ searchQueue' = <<placing'>> /\ nextOption' = 1
          /\ parentB' = [b \in Bs |-> 0]
      BY <1>1, <2>1, <2>4, SearchStarts
    <3>2. aToB'[placing'] = 0
      BY <2>1, <2>2, <3>1
    <3>3. AssignTypes'
      BY <1>1, <1>11, <3>1, BasicSets DEF AssignTypes
    <3>4. ASSUME NEW x \in As, x < placing', aToB'[x] = 0 PROVE x < placing /\ aToB[x] = 0
      <4>1. x \in Nat /\ aToB[x] = 0 /\ x # placing /\ x < placing + 1
        BY <2>2, <3>1, <3>4 DEF As
      <4> QED BY <2>1, <4>1
    <3>5. LevelInv'
      BY <1>1, <1>13, <3>1, <3>4 DEF LevelInv
    <3> QED BY <1>11, <3>1, <3>2, <3>3, <3>5, FreshSearch DEF AssignInv, AssignsAndSpreads
  <2> QED BY <2>3, <2>4
<1> QED BY <1>14, <1>15

LEMMA AssignKept == AssignInv /\ [AssignNext]_assignVars => AssignInv'
<1>1. ASSUME AssignInv, UNCHANGED assignVars PROVE AssignInv'
  <2> USE <1>1 DEF assignVars
  <2>1. AssignTypes' /\ TablesAgree'
    BY DEF AssignInv, AssignTypes, TablesAgree, Load, Capacity
  <2>2. /\ Searched' = Searched /\ ToSet(searchQueue)' = ToSet(searchQueue)
        /\ Head(searchQueue)' = Head(searchQueue)
        /\ \A b : HasRoom(b)' = HasRoom(b) /\ \A rank : Linked(b, rank)' = Linked(b, rank)
        /\ \A l : Assignments(l)' = Assignments(l)
    BY DEF Searched, ToSet, HasRoom, Capacity, Linked, Assignments
  <2>3. SearchInv'
    BY <2>2 DEF AssignInv, SearchInv, LeftTheQueue, HeadSoFar, PathsBack
  <2>4. FlipInv'
    BY <2>2 DEF AssignInv, FlipInv, HasRoom, Capacity
  <2>5. LevelInv'
    BY <2>2 DEF AssignInv, LevelInv, Unplaced
  <2>6. AssignsAndSpreads'
    BY <2>2 DEF AssignInv, AssignsAndSpreads
  <2> QED BY <2>1, <2>3, <2>4, <2>5, <2>6 DEF AssignInv
<1> QED BY <1>1, RaiseKept, NextInQueueKept, VisitKept, DeadEndKept, FlipKept DEF AssignNext

(* Whatever the options and the maxima: an assignment is returned exactly  *)
(* if there is one, it keeps to both, and no other one could do with fewer *)
(* a's on the fullest b.                                                   *)
THEOREM AssignsAndSpreadsCorrect == AssignSpec => []AssignsAndSpreads
<1>1. AssignInv => AssignsAndSpreads
  BY DEF AssignInv
<1> QED BY <1>1, AssignInitial, AssignKept, PTL DEF AssignSpec
=============================================================================
