--------------------------- MODULE SchedulerProofs ----------------------------
(***************************************************************************)
(* Theorems about Scheduler, for any number of workers, threads and tasks. *)
(* The invariant comes in four parts: types and the count of workers; the  *)
(* places of tasks; the owner's control; and who owns which thread.        *)
(***************************************************************************)
EXTENDS Scheduler, FiniteSetTheorems, TLAPS

(* The threads that *_activeWorkers counts. *)
Counted == {th \in Threads : thread[th] \in {"running", "busy", "leaving"}}

TypeInv ==
    /\ TypeOK
    /\ active = Cardinality(Counted)
    /\ \A th \in Busy : task[th] \in Tasks
    /\ owner = "spawn" => next \in Slots

(* A set of threads is finite and has at most as many members as Threads. *)
LEMMA ThreadSets ==
  ASSUME NEW S \in SUBSET Threads
  PROVE  /\ IsFiniteSet(S)
         /\ Cardinality(S) \in 0 .. Cardinality(Threads)
  <1>1. IsFiniteSet(Threads)
    BY SchedulerAssumption
  <1>2. IsFiniteSet(S) /\ Cardinality(S) <= Cardinality(Threads)
    BY <1>1, FS_Subset
  <1>3. Cardinality(S) \in Nat /\ Cardinality(Threads) \in Nat
    BY <1>1, <1>2, FS_CardinalityType
  <1>4. QED
    BY <1>2, <1>3

(* Types without the count, which needs the count of the threads. *)
LEMMA CountSuffices ==
  ASSUME queue \in Seq(Tasks), waiting \subseteq Tasks, stopped \in BOOLEAN, guard \in BOOLEAN,
         slot \in [Slots -> Threads \cup {None}],
         thread \in [Threads -> {"unused", "created", "running", "busy", "leaving", "exited"}],
         task \in [Threads -> Tasks \cup {None}],
         owner \in {"idle", "guard", "spawn", "stop", "join", "gone"},
         after \in {"return", "join", "destroy"},
         next \in 1 .. Workers + 1, fresh \in Threads \cup {None},
         done \subseteq Tasks, dropped \subseteq Tasks,
         active = Cardinality(Counted)
  PROVE  TypeOK
  <1>1. Counted \in SUBSET Threads
    BY DEF Counted
  <1>2. active \in 0 .. Cardinality(Threads)
    BY <1>1, ThreadSets
  <1>3. QED
    BY <1>2 DEF TypeOK

(* The counted threads are threads, after a step as well. *)
LEMMA CountedTyped == Cardinality(Counted') \in 0 .. Cardinality(Threads)
  <1>1. Counted' \in SUBSET Threads
    BY DEF Counted
  <1>2. QED
    BY <1>1, ThreadSets

(* The constructor: no thread, nothing counted. *)
LEMMA TypeInitial == Init => TypeInv
  <1> SUFFICES ASSUME Init PROVE TypeInv
    OBVIOUS
  <1>1. Counted = {} /\ Busy = {}
    BY DEF Init, Counted, Busy
  <1>2. Cardinality({}) = 0
    BY FS_EmptySet
  <1>3. /\ slot \in [Slots -> Threads \cup {None}]
        /\ thread \in [Threads -> {"unused", "created", "running", "busy", "leaving", "exited"}]
        /\ task \in [Threads -> Tasks \cup {None}]
        /\ next \in 1 .. Workers + 1
    BY SchedulerAssumption DEF Init
  <1>4. queue \in Seq(Tasks)
    BY DEF Init
  <1>5. TypeOK
    BY <1>1, <1>2, <1>3, <1>4, CountSuffices DEF Init
  <1>6. QED
    BY <1>1, <1>2, <1>5 DEF TypeInv, Init

(* A step that leaves threads and tasks where they are leaves the counted  *)
(* ones; so does a join.                                                   *)
LEMMA SameCount ==
  ASSUME TypeInv, active' = active, task' = task,
         \/ thread' = thread
         \/ \E th \in Threads : /\ thread[th] \in {"unused", "created", "exited"}
                                /\ thread' = [thread EXCEPT ![th] = "created"]
         \/ \E th \in Threads : /\ thread[th] = "exited"
                                /\ thread' = [thread EXCEPT ![th] = "unused"]
  PROVE  /\ thread' \in [Threads -> {"unused", "created", "running", "busy", "leaving", "exited"}]
         /\ active' = Cardinality(Counted')
         /\ Busy' = Busy
  <1> USE DEF TypeInv, TypeOK
  <1>1. /\ thread' \in [Threads -> {"unused", "created", "running", "busy", "leaving", "exited"}]
        /\ \A th \in Threads : thread'[th] = thread[th]
                               \/ /\ thread[th] \in {"unused", "created", "exited"}
                                  /\ thread'[th] \in {"unused", "created"}
    OBVIOUS
  <1>2. Counted' = Counted /\ Busy' = Busy
    BY <1>1 DEF Counted, Busy
  <1>3. QED
    BY <1>1, <1>2

(* Joining the thread of a slot, in Join and StoreWorker. *)
LEMMA JoinedThreadIs ==
  ASSUME TypeInv, NEW w \in Slots, Joinable(w), thread' = JoinedThread(w)
  PROVE  \/ thread' = thread
         \/ \E th \in Threads : /\ thread[th] = "exited"
                                /\ thread' = [thread EXCEPT ![th] = "unused"]
  BY DEF TypeInv, TypeOK, Joinable, JoinedThread

(* Every step keeps the types and the count, whatever the contracts.       *)
LEMMA TypeKept == TypeInv /\ [Next]_vars => TypeInv'
  <1> SUFFICES ASSUME TypeInv, [Next]_vars PROVE TypeInv'
    OBVIOUS
  <1> USE SchedulerAssumption
  <1> DEFINE States == {"unused", "created", "running", "busy", "leaving", "exited"}
  <1>0. /\ TypeOK /\ active = Cardinality(Counted) /\ \A th \in Busy : task[th] \in Tasks
        /\ (owner = "spawn" => next \in Slots)
        /\ IsFiniteSet(Counted) /\ Cardinality(Counted) \in Nat
    <2>1. Counted \in SUBSET Threads
      BY DEF Counted
    <2>2. QED
      BY <2>1, ThreadSets, FS_CardinalityType DEF TypeInv, control
  <1>1. ASSUME NEW t \in Tasks, Post(t) \/ Await(t) \/ Fire(t)
        PROVE  TypeInv'
    <2>1. UNCHANGED <<stopped, control, active, thread, task, done, dropped>>
      BY <1>1 DEF Post, Await, Fire
    <2>2. /\ active' = Cardinality(Counted') /\ Busy' = Busy
      BY <2>1, SameCount
    <2>3. queue' \in Seq(Tasks) /\ waiting' \subseteq Tasks
      <3>1. queue \in Seq(Tasks) /\ waiting \subseteq Tasks
        BY <1>0 DEF TypeOK
      <3>2. queue' = queue \/ queue' = Append(queue, t)
        BY <1>1 DEF Post, Await, Fire
      <3>3. waiting' \in {waiting, waiting \cup {t}, waiting \ {t}}
        BY <1>1 DEF Post, Await, Fire
      <3>4. queue' \in Seq(Tasks)
        <4>1. Append(queue, t) \in Seq(Tasks)
          BY ONLY t \in Tasks, <3>1
        <4> QED BY ONLY <3>1, <3>2, <4>1
      <3>5. waiting' \subseteq Tasks
        BY ONLY t \in Tasks, <3>1, <3>3
      <3> QED BY ONLY <3>4, <3>5
    <2>4. TypeOK'
      BY <1>0, <2>1, <2>3 DEF TypeOK, control
    <2>5. QED
      BY <1>0, <2>1, <2>2, <2>4 DEF TypeInv, control
  <1>2. ASSUME NEW th \in Threads, Enter(th)
        PROVE  TypeInv'
    <2> USE <1>0, <1>2 DEF Enter
    <2>1. thread' \in [Threads -> States] /\ stopped' \in BOOLEAN
      BY DEF TypeOK
    <2>2. Counted' = Counted \cup {th} /\ th \notin Counted /\ Busy' = Busy
      BY <2>1 DEF Counted, Busy, TypeOK
    <2>3. active' = Cardinality(Counted')
      BY <2>2, FS_AddElement
    <2>4. TypeOK'
      BY <2>1, <2>3, CountedTyped DEF TypeOK, control
    <2>5. QED
      BY <2>2, <2>3, <2>4 DEF TypeInv, control
  <1>3. ASSUME NEW th \in Threads, Pick(th)
        PROVE  TypeInv'
    <2> USE <1>0, <1>3 DEF Pick
    <2>1. /\ thread' \in [Threads -> States]
          /\ queue' \in Seq(Tasks) /\ Head(queue) \in Tasks
          /\ task' \in [Threads -> Tasks \cup {None}]
      BY DEF TypeOK
    <2>2. Counted' = Counted
      BY <2>1 DEF Counted, TypeOK
    <2>3. \A other \in Busy' : task'[other] \in Tasks
      BY <2>1 DEF Busy, TypeOK
    <2>4. TypeOK'
      BY <2>1 DEF TypeOK, control
    <2>5. QED
      BY <2>2, <2>3, <2>4 DEF TypeInv, control
  <1>4. ASSUME NEW th \in Threads, Finish(th)
        PROVE  TypeInv'
    <2> USE <1>0, <1>4 DEF Finish
    <2>1. /\ thread' \in [Threads -> States]
          /\ task' \in [Threads -> Tasks \cup {None}]
          /\ done' \subseteq Tasks /\ stopped' \in BOOLEAN
      BY DEF TypeOK, Busy
    <2>2. Counted' = Counted
      BY <2>1 DEF Counted, TypeOK
    <2>3. \A other \in Busy' : task'[other] \in Tasks
      BY <2>1 DEF Busy, TypeOK
    <2>4. TypeOK'
      BY <2>1 DEF TypeOK, control
    <2>5. QED
      BY <2>2, <2>3, <2>4 DEF TypeInv, control
  <1>5. ASSUME NEW th \in Threads, Leave(th)
        PROVE  TypeInv'
    <2> USE <1>0, <1>5 DEF Leave
    <2>1. thread' \in [Threads -> States]
      BY DEF TypeOK
    <2>2. Counted' = Counted /\ Busy' = Busy
      BY <2>1 DEF Counted, Busy, TypeOK
    <2>3. TypeOK'
      BY <2>1 DEF TypeOK, control, ctx
    <2>4. QED
      BY <2>2, <2>3 DEF TypeInv, control
  <1>6. ASSUME NEW th \in Threads, Exit(th)
        PROVE  TypeInv'
    <2> USE <1>0, <1>6 DEF Exit
    <2>1. thread' \in [Threads -> States]
      BY DEF TypeOK
    <2>2. Counted' = Counted \ {th} /\ th \in Counted /\ Busy' = Busy
      BY <2>1 DEF Counted, Busy, TypeOK
    <2>3. active' = Cardinality(Counted')
      BY <2>2, FS_RemoveElement
    <2>4. TypeOK'
      BY <2>1, <2>3, CountedTyped DEF TypeOK, control, ctx
    <2>5. QED
      BY <2>2, <2>3, <2>4 DEF TypeInv, control
  <1>7. ASSUME Start \/ EngageGuard \/ StopContext \/ AwaitStopReturn \/ Destroy \/ MoveAssign
               \/ \E purpose \in {"return", "join", "destroy"} : RequestStop(purpose)
        PROVE  TypeInv'
    <2>1. UNCHANGED <<slot, fresh, active, thread, task, done>>
      BY <1>7 DEF Start, EngageGuard, StopContext, AwaitStopReturn, Destroy, MoveAssign, RequestStop
    <2>2. active' = Cardinality(Counted') /\ Busy' = Busy
      BY <2>1, SameCount
    <2>3. /\ queue' \in Seq(Tasks) /\ waiting' \subseteq Tasks
          /\ dropped' \subseteq Tasks
      <3>1. CASE DropHandlers
        <4>1. Queued \subseteq Tasks
          BY <1>0 DEF Queued, TypeOK
        <4>2. QED
          BY <1>0, <3>1, <4>1 DEF DropHandlers, TypeOK
      <3>2. CASE UNCHANGED <<queue, waiting, dropped>>
        BY <1>0, <3>2 DEF TypeOK
      <3>3. QED
        BY <1>7, <3>1, <3>2 DEF Start, EngageGuard, StopContext, AwaitStopReturn, Destroy,
                                MoveAssign, RequestStop, ctx
    <2>4. /\ stopped' \in BOOLEAN /\ guard' \in BOOLEAN
          /\ owner' \in {"idle", "guard", "spawn", "stop", "join", "gone"}
          /\ after' \in {"return", "join", "destroy"}
          /\ next' \in 1 .. Workers + 1 /\ (owner' = "spawn" => next' \in Slots)
      <3> USE <1>0 DEF TypeOK, ctx, Slots
      <3>1. CASE Start \/ EngageGuard
        <4>1. CASE Start
          BY <4>1 DEF Start
        <4>2. CASE EngageGuard
          BY <4>2 DEF EngageGuard
        <4>3. QED
          BY <3>1, <4>1, <4>2
      <3>2. CASE StopContext \/ AwaitStopReturn
        <4>1. /\ next' = 1 /\ owner' \in {"idle", "join"} /\ guard' = guard
              /\ stopped' \in BOOLEAN /\ after' \in {after, "return"}
          BY <3>2 DEF StopContext, AwaitStopReturn
        <4>2. QED
          BY <4>1
      <3>3. CASE Destroy \/ MoveAssign
        <4>1. /\ owner' = "gone"
              /\ UNCHANGED <<stopped, guard, after, next>>
          BY <3>3 DEF Destroy, MoveAssign, DropHandlers
        <4>2. QED
          BY <4>1
      <3>4. ASSUME NEW purpose \in {"return", "join", "destroy"}, RequestStop(purpose)
            PROVE  /\ stopped' \in BOOLEAN /\ guard' \in BOOLEAN
                   /\ owner' = "stop" /\ after' = purpose /\ next' = next
        BY <3>4 DEF RequestStop
      <3>5. QED
        BY <1>7, <3>1, <3>2, <3>3, <3>4
    <2>5. TypeOK'
      BY <1>0, <2>1, <2>3, <2>4 DEF TypeOK
    <2>6. QED
      BY <1>0, <2>1, <2>2, <2>4, <2>5 DEF TypeInv, control
  <1>8. ASSUME CreateWorker
        PROVE  TypeInv'
    <2> USE <1>0, <1>8 DEF CreateWorker
    <2>1. PICK th \in Threads : /\ thread[th] = "unused"
                                /\ thread' = [thread EXCEPT ![th] = "created"]
                                /\ fresh' = th
      OBVIOUS
    <2>2. /\ thread' \in [Threads -> States]
          /\ active' = Cardinality(Counted') /\ Busy' = Busy
      BY <2>1, SameCount
    <2>3. TypeOK'
      BY <2>1, <2>2 DEF TypeOK, ctx
    <2>4. QED
      BY <2>2, <2>3 DEF TypeInv, control
  <1>9. ASSUME StoreWorker \/ Join
        PROVE  TypeInv'
    <2>1. /\ next \in Slots /\ Joinable(next) /\ thread' = JoinedThread(next)
          /\ UNCHANGED <<ctx, guard, after, active, task, done, dropped>>
      BY <1>0, <1>9 DEF TypeInv, StoreWorker, Join, TypeOK, Slots
    <2>2. /\ thread' \in [Threads -> States]
          /\ active' = Cardinality(Counted') /\ Busy' = Busy
      BY <2>1, JoinedThreadIs, SameCount
    <2>3. slot' \in [Slots -> Threads \cup {None}] /\ fresh' \in Threads \cup {None}
      BY <1>0, <1>9 DEF StoreWorker, Join, TypeOK
    <2>4. /\ next' \in 1 .. Workers + 1 /\ owner' \in {"idle", "spawn", "join"}
          /\ owner' = "spawn" => next' \in Slots
      BY <1>0, <1>9 DEF Slots, StoreWorker, Join, TypeOK
    <2>5. TypeOK'
      BY <1>0, <2>1, <2>2, <2>3, <2>4 DEF TypeOK, ctx
    <2>6. QED
      BY <1>0, <2>1, <2>2, <2>4, <2>5 DEF TypeInv
  <1>10. CASE UNCHANGED vars
    BY <1>0, <1>10 DEF vars, ctx, control, TypeInv, TypeOK, Counted, Busy
  <1>11. QED
    BY <1>1, <1>2, <1>3, <1>4, <1>5, <1>6, <1>7, <1>8, <1>9, <1>10 DEF Next, Worker, Owner

-----------------------------------------------------------------------------

(* The places of tasks.                                                    *)

OnWorkers == {task[th] : th \in Busy}

QueuedOnce == \A i, j \in 1 .. Len(queue) : queue[i] = queue[j] => i = j

Apart ==
    /\ Queued \cap (waiting \cup OnWorkers \cup done \cup dropped) = {}
    /\ waiting \cap (OnWorkers \cup done \cup dropped) = {}
    /\ OnWorkers \cap (done \cup dropped) = {}
    /\ done \cap dropped = {}

TaskInv ==
    /\ QueuedOnce
    /\ \A th, other \in Busy : task[th] = task[other] => th = other
    /\ Apart

(* A handler at the end of the queue. *)
LEMMA QueueGrows ==
  ASSUME queue \in Seq(Tasks), QueuedOnce, NEW t \in Tasks, t \notin Queued,
         queue' = Append(queue, t)
  PROVE  QueuedOnce' /\ Queued' = Queued \cup {t}
  <1>1. /\ Len(queue) \in Nat /\ Len(queue') = Len(queue) + 1
        /\ \A i \in 1 .. Len(queue) : queue'[i] = queue[i]
        /\ queue'[Len(queue) + 1] = t
    OBVIOUS
  <1>2. QueuedOnce'
    BY <1>1 DEF QueuedOnce, Queued
  <1>3. Queued' = Queued \cup {t}
    <2>1. \A x \in Queued' : x \in Queued \cup {t}
      BY <1>1 DEF Queued
    <2>2. \A x \in Queued \cup {t} : x \in Queued'
      <3>1. t \in Queued'
        BY <1>1 DEF Queued
      <3>2. \A i \in 1 .. Len(queue) : i \in 1 .. Len(queue') /\ queue'[i] = queue[i]
        BY <1>1
      <3>3. QED
        BY <3>1, <3>2 DEF Queued
    <2>3. QED
      BY <2>1, <2>2
  <1>4. QED
    BY <1>2, <1>3

(* The handler at its head is taken. *)
LEMMA QueueShrinks ==
  ASSUME queue \in Seq(Tasks), QueuedOnce, queue # <<>>, queue' = Tail(queue)
  PROVE  /\ QueuedOnce'
         /\ Head(queue) \in Queued
         /\ Queued' = Queued \ {Head(queue)}
  <1>1. /\ Len(queue) \in Nat \ {0} /\ Len(queue') = Len(queue) - 1
        /\ \A i \in 1 .. Len(queue') : queue'[i] = queue[i + 1]
        /\ Head(queue) = queue[1]
    OBVIOUS
  <1>2. QueuedOnce'
    <2>1. \A i \in 1 .. Len(queue') : i \in Int /\ i + 1 \in 1 .. Len(queue)
      BY <1>1
    <2>2. QED
      BY <1>1, <2>1 DEF QueuedOnce
  <1>3. Head(queue) \in Queued
    BY <1>1 DEF Queued
  <1>4. Queued' = Queued \ {Head(queue)}
    <2>1. \A x \in Queued' : x \in Queued /\ x # Head(queue)
      <3> SUFFICES ASSUME NEW i \in 1 .. Len(queue')
                   PROVE  queue'[i] \in Queued /\ queue'[i] # Head(queue)
        BY DEF Queued
      <3>1. i + 1 \in 1 .. Len(queue) /\ 1 \in 1 .. Len(queue) /\ i + 1 # 1
        BY <1>1
      <3>2. QED
        BY <1>1, <3>1 DEF Queued, QueuedOnce
    <2>2. \A x \in Queued : x # Head(queue) => x \in Queued'
      <3> SUFFICES ASSUME NEW i \in 1 .. Len(queue), queue[i] # Head(queue)
                   PROVE  queue[i] \in Queued'
        BY DEF Queued
      <3>1. i - 1 \in 1 .. Len(queue') /\ queue'[i - 1] = queue[i]
        BY <1>1
      <3>2. QED
        BY <3>1 DEF Queued
    <2>3. QED
      BY <2>1, <2>2
  <1>5. QED
    BY <1>2, <1>3, <1>4

(* Nothing has been posted. *)
LEMMA TaskInitial == Init => TaskInv
  BY DEF Init, TaskInv, QueuedOnce, Apart, Queued, OnWorkers, Busy

(* Every step keeps each task in one place, whatever the contracts.        *)
LEMMA TaskKept == TypeInv /\ TaskInv /\ [Next]_vars => TaskInv'
  <1> SUFFICES ASSUME TypeInv, TaskInv, [Next]_vars PROVE TaskInv'
    OBVIOUS
  <1>0. /\ queue \in Seq(Tasks) /\ QueuedOnce /\ Apart
        /\ \A th, other \in Busy : task[th] = task[other] => th = other
        /\ task \in [Threads -> Tasks \cup {None}]
        /\ thread \in [Threads ->
             {"unused", "created", "running", "busy", "leaving", "exited"}]
    BY DEF TypeInv, TypeOK, TaskInv
  <1>1. ASSUME NEW t \in Tasks, Post(t) \/ Await(t) \/ Fire(t)
        PROVE  TaskInv'
    <2>1. UNCHANGED <<thread, task, done, dropped>> /\ Busy' = Busy /\ OnWorkers' = OnWorkers
      BY <1>1 DEF Post, Await, Fire, Busy, OnWorkers
    <2>2. CASE Post(t)
      <3>1. QueuedOnce' /\ Queued' = Queued \cup {t}
        BY <1>0, <2>2, QueueGrows DEF Post, Posted
      <3>2. t \notin waiting \cup OnWorkers \cup done \cup dropped /\ waiting' = waiting
        BY <2>2 DEF Post, Posted, OnWorkers
      <3>3. QED
        BY <1>0, <2>1, <3>1, <3>2 DEF TaskInv, Apart
    <2>3. CASE Await(t)
      <3>1. QueuedOnce' /\ Queued' = Queued
        BY <1>0, <2>3 DEF Await, QueuedOnce, Queued
      <3>2. t \notin Queued \cup OnWorkers \cup done \cup dropped /\ waiting' = waiting \cup {t}
        BY <2>3 DEF Await, Posted, OnWorkers
      <3>3. QED
        BY <1>0, <2>1, <3>1, <3>2 DEF TaskInv, Apart
    <2>4. CASE Fire(t)
      <3>1. t \in waiting /\ t \notin Queued
        BY <1>0, <2>4 DEF Fire, Apart
      <3>2. QueuedOnce' /\ Queued' = Queued \cup {t} /\ waiting' = waiting \ {t}
        BY <1>0, <2>4, <3>1, QueueGrows DEF Fire
      <3>3. QED
        BY <1>0, <2>1, <3>1, <3>2 DEF TaskInv, Apart
    <2>5. QED
      BY <1>1, <2>2, <2>3, <2>4
  <1>2. ASSUME NEW th \in Threads, Pick(th)
        PROVE  TaskInv'
    <2> USE <1>0, <1>2 DEF Pick
    <2>1. /\ QueuedOnce' /\ Head(queue) \in Queued
          /\ Queued' = Queued \ {Head(queue)}
      BY QueueShrinks
    <2>2. Busy' = Busy \cup {th} /\ th \notin Busy
      BY DEF Busy
    <2>3. task'[th] = Head(queue) /\ \A other \in Busy : task'[other] = task[other]
      BY <2>2 DEF Busy
    <2>4. Head(queue) \notin OnWorkers
      BY <2>1 DEF Apart
    <2>5. OnWorkers' = OnWorkers \cup {Head(queue)}
      BY <2>2, <2>3 DEF OnWorkers
    <2>6. \A one, other \in Busy' : task'[one] = task'[other] => one = other
      BY <2>2, <2>3, <2>4 DEF OnWorkers
    <2>7. QED
      BY <2>1, <2>5, <2>6 DEF TaskInv, Apart
  <1>3. ASSUME NEW th \in Threads, Finish(th)
        PROVE  TaskInv'
    <2> USE <1>0, <1>3 DEF Finish
    <2>1. Busy' = Busy \ {th} /\ th \in Busy
      BY DEF Busy
    <2>2. \A other \in Busy' : task'[other] = task[other]
      BY <2>1 DEF Busy
    <2>3. OnWorkers' = OnWorkers \ {task[th]} /\ task[th] \in OnWorkers
      BY <2>1, <2>2 DEF OnWorkers
    <2>4. QueuedOnce' /\ Queued' = Queued
      BY DEF QueuedOnce, Queued
    <2>5. QED
      BY <2>1, <2>2, <2>3, <2>4 DEF TaskInv, Apart
  <1>4. ASSUME UNCHANGED <<queue, waiting, task, done, dropped>>, Busy' = Busy
        PROVE  TaskInv'
    BY <1>0, <1>4 DEF TaskInv, QueuedOnce, Apart, Queued, OnWorkers
  <1>5. ASSUME NEW th \in Threads, Enter(th) \/ Leave(th) \/ Exit(th)
        PROVE  UNCHANGED <<queue, waiting, task, done, dropped>> /\ Busy' = Busy
    BY <1>0, <1>5 DEF Enter, Leave, Exit, Busy, ctx
  <1>6. ASSUME Start \/ EngageGuard \/ StopContext \/ AwaitStopReturn
               \/ \E purpose \in {"return", "join", "destroy"} : RequestStop(purpose)
        PROVE  UNCHANGED <<queue, waiting, task, done, dropped>> /\ Busy' = Busy
    BY <1>6 DEF Start, EngageGuard, StopContext, AwaitStopReturn, RequestStop, ctx, Busy
  <1>7. ASSUME CreateWorker
        PROVE  UNCHANGED <<queue, waiting, task, done, dropped>> /\ Busy' = Busy
    BY <1>0, <1>7 DEF CreateWorker, ctx, Busy
  <1>8. ASSUME StoreWorker \/ Join
        PROVE  UNCHANGED <<queue, waiting, task, done, dropped>> /\ Busy' = Busy
    <2>1. next \in Slots /\ Joinable(next) /\ thread' = JoinedThread(next)
      BY <1>8, SchedulerAssumption DEF TypeInv, TypeOK, StoreWorker, Join, Slots
    <2>2. QED
      BY <1>8, <2>1, JoinedThreadIs, SameCount DEF StoreWorker, Join, ctx
  <1>9. ASSUME Destroy \/ MoveAssign
        PROVE  TaskInv'
    <2>1. /\ queue' = <<>> /\ waiting' = {} /\ dropped' = dropped \cup Queued \cup waiting
          /\ UNCHANGED <<thread, task, done>>
      BY <1>9 DEF Destroy, MoveAssign, DropHandlers
    <2>2. QueuedOnce' /\ Queued' = {} /\ Busy' = Busy /\ OnWorkers' = OnWorkers
      BY <2>1 DEF QueuedOnce, Queued, Busy, OnWorkers
    <2>3. QED
      BY <1>0, <2>1, <2>2 DEF TaskInv, Apart
  <1>10. CASE UNCHANGED vars
    BY <1>4, <1>10 DEF vars, ctx, Busy
  <1>11. QED
    BY <1>1, <1>2, <1>3, <1>4, <1>5, <1>6, <1>7, <1>8, <1>9, <1>10 DEF Next, Worker, Owner

(* Nor does a step take a task out of all of its places.  Which threads    *)
(* run a task changes with Pick and Finish alone.                          *)
LEMMA StaysPosted ==
  ASSUME Queued \cup waiting \subseteq Queued' \cup waiting',
         UNCHANGED <<task, done, dropped>>, Busy' = Busy
  PROVE  NothingLost
  <1>1. OnWorkers' = OnWorkers
    BY DEF OnWorkers
  <1>2. Posted = Queued \cup waiting \cup OnWorkers \cup done \cup dropped
    BY DEF Posted, OnWorkers
  <1>3. Posted' = Queued' \cup waiting' \cup OnWorkers' \cup done' \cup dropped'
    BY DEF Posted, OnWorkers
  <1>4. Posted \subseteq Posted'
    BY <1>1, <1>2, <1>3
  <1>5. ASSUME NEW th \in Busy PROVE ~Released(th)
    <2>1. thread'[th] = "busy"
      BY <1>5 DEF Busy
    <2>2. QED
      BY <2>1 DEF Released
  <1>6. QED
    BY <1>4, <1>5 DEF NothingLost

LEMMA LosesNothing == TypeInv /\ TaskInv /\ [Next]_vars => [NothingLost]_vars
  <1> SUFFICES ASSUME TypeInv, TaskInv, Next PROVE NothingLost
    OBVIOUS
  <1>0. /\ queue \in Seq(Tasks) /\ QueuedOnce /\ Apart
        /\ task \in [Threads -> Tasks \cup {None}]
        /\ thread \in [Threads ->
             {"unused", "created", "running", "busy", "leaving", "exited"}]
    BY DEF TypeInv, TypeOK, TaskInv
  <1>p. Posted = Queued \cup waiting \cup OnWorkers \cup done \cup dropped
    BY DEF Posted, OnWorkers
  <1>q. Posted' = Queued' \cup waiting' \cup OnWorkers' \cup done' \cup dropped'
    BY DEF Posted, OnWorkers
  <1>1. ASSUME NEW t \in Tasks, Post(t) \/ Await(t) \/ Fire(t)
        PROVE  NothingLost
    <2>1. UNCHANGED <<task, done, dropped>> /\ Busy' = Busy
      BY <1>1 DEF Post, Await, Fire, Busy
    <2>2. CASE Post(t)
      <3>1. t \notin Queued /\ queue' = Append(queue, t) /\ waiting' = waiting
        BY <2>2 DEF Post, Posted
      <3>2. Queued' = Queued \cup {t}
        BY <1>0, <3>1, QueueGrows
      <3>3. QED
        BY <2>1, <3>1, <3>2, StaysPosted
    <2>3. CASE Await(t)
      <3>1. Queued' = Queued /\ waiting' = waiting \cup {t}
        BY <2>3 DEF Await, Queued
      <3>2. QED
        BY <2>1, <3>1, StaysPosted
    <2>4. CASE Fire(t)
      <3>1. /\ t \in waiting /\ t \notin Queued
            /\ queue' = Append(queue, t) /\ waiting' = waiting \ {t}
        BY <1>0, <2>4 DEF Fire, Apart
      <3>2. Queued' = Queued \cup {t}
        BY <1>0, <3>1, QueueGrows
      <3>3. QED
        BY <2>1, <3>1, <3>2, StaysPosted
    <2>5. QED
      BY <1>1, <2>2, <2>3, <2>4
  <1>2. ASSUME NEW th \in Threads, Pick(th)
        PROVE  NothingLost
    <2> USE <1>0, <1>2 DEF Pick
    <2>1. Queued' = Queued \ {Head(queue)}
      BY QueueShrinks
    <2>2. Busy' = Busy \cup {th} /\ th \notin Busy
      BY DEF Busy
    <2>3. task'[th] = Head(queue) /\ \A other \in Busy : task'[other] = task[other]
      BY <2>2 DEF Busy
    <2>4. OnWorkers' = OnWorkers \cup {Head(queue)}
      BY <2>2, <2>3 DEF OnWorkers
    <2>5. waiting' = waiting /\ done' = done /\ dropped' = dropped
      OBVIOUS
    <2>6. Posted \subseteq Posted'
      BY <1>p, <1>q, <2>1, <2>4, <2>5
    <2>7. ASSUME NEW other \in Busy PROVE ~Released(other)
      <3>1. other \in Busy' /\ task'[other] = task[other]
        BY <2>2, <2>3
      <3>2. thread'[other] = "busy"
        BY <3>1 DEF Busy
      <3>3. QED
        BY <3>1, <3>2 DEF Released
    <2>8. QED
      BY <2>5, <2>6, <2>7 DEF NothingLost
  <1>3. ASSUME NEW th \in Threads, Finish(th)
        PROVE  NothingLost
    <2> USE <1>0, <1>3 DEF Finish
    <2>1. Busy' = Busy \ {th} /\ th \in Busy
      BY DEF Busy
    <2>2. \A other \in Busy' : task'[other] = task[other]
      BY <2>1 DEF Busy
    <2>3. OnWorkers \subseteq OnWorkers' \cup {task[th]}
      BY <2>1, <2>2 DEF OnWorkers
    <2>4. Queued' = Queued /\ waiting' = waiting /\ dropped' = dropped
      BY DEF Queued
    <2>5. done' = done \cup {task[th]}
      OBVIOUS
    <2>6. Posted \subseteq Posted'
      BY <1>p, <1>q, <2>3, <2>4, <2>5
    <2>7. ASSUME NEW other \in Busy, Released(other) PROVE task[other] \in done'
      <3>1. CASE other = th
        BY <2>5, <3>1
      <3>2. CASE other # th
        <4>1. other \in Busy' /\ task'[other] = task[other]
          BY <2>1, <2>2, <2>7, <3>2
        <4>2. thread'[other] = "busy"
          BY <4>1 DEF Busy
        <4>3. QED
          BY <2>7, <4>1, <4>2 DEF Released
      <3>3. QED
        BY <3>1, <3>2
    <2>8. QED
      BY <2>4, <2>6, <2>7 DEF NothingLost
  <1>4. ASSUME UNCHANGED <<queue, waiting, task, done, dropped>>, Busy' = Busy
        PROVE  NothingLost
    <2>1. Queued' = Queued
      BY <1>4 DEF Queued
    <2>2. QED
      BY <1>4, <2>1, StaysPosted
  <1>5. ASSUME NEW th \in Threads, Enter(th) \/ Leave(th) \/ Exit(th)
        PROVE  UNCHANGED <<queue, waiting, task, done, dropped>> /\ Busy' = Busy
    BY <1>0, <1>5 DEF Enter, Leave, Exit, Busy, ctx
  <1>6. ASSUME Start \/ EngageGuard \/ StopContext \/ AwaitStopReturn
               \/ \E purpose \in {"return", "join", "destroy"} : RequestStop(purpose)
        PROVE  UNCHANGED <<queue, waiting, task, done, dropped>> /\ Busy' = Busy
    BY <1>6 DEF Start, EngageGuard, StopContext, AwaitStopReturn, RequestStop, ctx, Busy
  <1>7. ASSUME CreateWorker
        PROVE  UNCHANGED <<queue, waiting, task, done, dropped>> /\ Busy' = Busy
    BY <1>0, <1>7 DEF CreateWorker, ctx, Busy
  <1>8. ASSUME StoreWorker \/ Join
        PROVE  UNCHANGED <<queue, waiting, task, done, dropped>> /\ Busy' = Busy
    <2>1. next \in Slots /\ Joinable(next) /\ thread' = JoinedThread(next)
      BY <1>8, SchedulerAssumption DEF TypeInv, TypeOK, StoreWorker, Join, Slots
    <2>2. QED
      BY <1>8, <2>1, JoinedThreadIs, SameCount DEF StoreWorker, Join, ctx
  <1>9. ASSUME Destroy \/ MoveAssign
        PROVE  NothingLost
    <2>1. /\ dropped' = dropped \cup Queued \cup waiting
          /\ UNCHANGED <<thread, task, done>> /\ owner # "gone" /\ owner' = "gone"
      BY <1>9 DEF Destroy, MoveAssign, DropHandlers
    <2>2. OnWorkers' = OnWorkers
      BY <2>1 DEF Busy, OnWorkers
    <2>3. Posted \subseteq Posted'
      BY <1>p, <1>q, <2>1, <2>2
    <2>4. ASSUME NEW th \in Busy PROVE ~Released(th)
      BY <2>1 DEF Busy, Released
    <2>5. QED
      BY <2>1, <2>3, <2>4 DEF NothingLost
  <1>10. QED
    BY <1>1, <1>2, <1>3, <1>4, <1>5, <1>6, <1>7, <1>8, <1>9 DEF Next, Worker, Owner

(* A handler is not queued twice: as many are queued as the queue is long. *)
LEMMA QueuedCount ==
  ASSUME queue \in Seq(Tasks), QueuedOnce
  PROVE  Cardinality(Queued) = Len(queue)
  <1> DEFINE n == Len(queue)
             f == [i \in 1 .. n |-> queue[i]]
  <1>1. n \in Nat
    OBVIOUS
  <1>2. f \in [1 .. n -> Queued] /\ \A q \in Queued : \E i \in 1 .. n : f[i] = q
    BY DEF Queued
  <1>3. \A i, j \in 1 .. n : f[i] = f[j] => i = j
    BY DEF QueuedOnce
  <1>4. f \in Bijection(1 .. n, Queued)
    BY <1>2, <1>3 DEF Bijection, Injection, Surjection, IsInjective
  <1>5. ExistsBijection(1 .. n, Queued)
    BY <1>4 DEF ExistsBijection
  <1>6. QED
    BY <1>1, <1>5, FS_CountingElements

-----------------------------------------------------------------------------

(* The owner's control: where the guard is dropped and the context stopped *)
(* between its calls.                                                      *)
ControlInv ==
    /\ owner \in {"idle", "join", "gone"} /\ ~guard => stopped
    /\ owner = "spawn" => guard
    /\ owner \in {"stop", "join", "gone"} => ~guard

(* The constructor stops the context. *)
LEMMA ControlInitial == Init => ControlInv
  BY DEF Init, ControlInv

(* No step of anybody restarts the context but start(). *)
LEMMA ControlKept == TypeInv /\ ControlInv /\ [Next]_vars => ControlInv'
  <1> SUFFICES ASSUME TypeInv, ControlInv, [Next]_vars PROVE ControlInv'
    OBVIOUS
  <1> USE DEF ControlInv
  <1>1. ASSUME NEW t \in Tasks, Post(t) \/ Await(t) \/ Fire(t)
        PROVE  UNCHANGED <<owner, guard, stopped>>
    BY <1>1 DEF Post, Await, Fire, control
  <1>2. ASSUME NEW th \in Threads, Worker(th)
        PROVE  UNCHANGED <<owner, guard>> /\ (stopped => stopped')
    BY <1>2 DEF Worker, Enter, Pick, Finish, Leave, Exit, control, ctx
  <1>3. ASSUME Start
        PROVE  ControlInv'
    BY <1>3 DEF Start
  <1>4. ASSUME EngageGuard
        PROVE  ControlInv'
    BY <1>4 DEF EngageGuard
  <1>5. ASSUME StopContext
        PROVE  ControlInv'
    <2>1. owner' \in {"idle", "join"} /\ stopped' /\ guard' = guard /\ owner = "stop"
      BY <1>5 DEF StopContext
    <2>2. QED
      BY <2>1
  <1>6. ASSUME AwaitStopReturn
        PROVE  ControlInv'
    BY <1>6 DEF AwaitStopReturn, ctx
  <1>7. ASSUME Destroy \/ MoveAssign
        PROVE  ControlInv'
    <2>1. owner' = "gone" /\ UNCHANGED <<guard, stopped>> /\ ~guard /\ stopped
      BY <1>7 DEF Destroy, MoveAssign, DropHandlers, Active
    <2>2. QED
      BY <2>1
  <1>8. ASSUME NEW purpose \in {"return", "join", "destroy"}, RequestStop(purpose)
        PROVE  ControlInv'
    BY <1>8 DEF RequestStop
  <1>9. ASSUME CreateWorker \/ Join
        PROVE  UNCHANGED <<owner, guard, stopped>>
    BY <1>9 DEF CreateWorker, Join, ctx
  <1>10. ASSUME StoreWorker
        PROVE  ControlInv'
    <2>1. owner' \in {"idle", "spawn"} /\ guard' = guard /\ owner = "spawn"
      BY <1>10 DEF StoreWorker
    <2>2. QED
      BY <2>1
  <1>11. CASE UNCHANGED vars
    BY <1>11 DEF vars, ctx, control
  <1>12. QED
    BY <1>1, <1>2, <1>3, <1>4, <1>5, <1>6, <1>7, <1>8, <1>9, <1>10, <1>11 DEF Next, Owner

-----------------------------------------------------------------------------

(* Who owns which thread: every thread that was created and not joined is  *)
(* in one slot, or in start()'s hands on its way there.                    *)
OwnInv ==
    /\ \A w, x \in Slots : slot[w] = slot[x] /\ slot[w] # None => w = x
    /\ \A w \in Slots : slot[w] # None => slot[w] # fresh /\ thread[slot[w]] # "unused"
    /\ fresh # None => owner = "spawn" /\ thread[fresh] # "unused"
    /\ \A th \in Threads : thread[th] # "unused" => th = fresh \/ \E w \in Slots : slot[w] = th
    /\ owner = "join" => \A w \in Slots : w < next => slot[w] = None
    /\ owner = "gone" => MoveWhen = "inactive" \/ Joined

(* No threads, nothing owned. *)
LEMMA OwnInitial == Init => OwnInv
  BY SchedulerAssumption DEF Init, OwnInv

(* A step that moves no thread to or from "unused". *)
LEMMA OwnSame ==
  ASSUME OwnInv, TypeInv, UNCHANGED <<slot, fresh>>,
         \A th \in Threads : thread'[th] = "unused" <=> thread[th] = "unused",
         owner' = owner \/ fresh = None,
         owner' = "join" => (owner = "join" /\ next' = next) \/ next' = 1,
         owner' = "gone" => owner = "gone" \/ MoveWhen = "inactive" \/ Joined
  PROVE  OwnInv'
  <1> USE SchedulerAssumption
  <1>1. /\ slot \in [Slots -> Threads \cup {None}] /\ fresh \in Threads \cup {None}
        /\ \A w \in Slots : w >= 1
    BY DEF TypeInv, TypeOK, Slots
  <1>2. \A w \in Slots : slot'[w] # None => slot'[w] # fresh' /\ thread'[slot'[w]] # "unused"
    BY <1>1 DEF OwnInv
  <1>3. fresh' # None => owner' = "spawn" /\ thread'[fresh'] # "unused"
    BY <1>1 DEF OwnInv
  <1>4. \A th \in Threads :
          thread'[th] # "unused" => th = fresh' \/ \E w \in Slots : slot'[w] = th
    BY DEF OwnInv
  <1>5. owner' = "join" => \A w \in Slots : w < next' => slot'[w] = None
    <2>1. \A w \in Slots : ~(w < 1)
      BY DEF Slots
    <2>2. QED
      BY <2>1 DEF OwnInv
  <1>6. owner' = "gone" => MoveWhen = "inactive" \/ Joined'
    BY DEF OwnInv, Joined
  <1>7. QED
    BY <1>2, <1>3, <1>4, <1>5, <1>6 DEF OwnInv

(* A slot is emptied, or filled with the thread start() has created, after *)
(* its old thread was joined.                                              *)
LEMMA OwnJoined ==
  ASSUME OwnInv, TypeInv, Joinable(next), next \in Slots, thread' = JoinedThread(next),
         slot' = [slot EXCEPT ![next] = fresh], fresh' = None,
         owner' = "join" => /\ owner = "join" /\ fresh = None /\ next' = next + 1,
         owner' # "gone"
  PROVE  OwnInv'
  <1> USE SchedulerAssumption
  <1>1. /\ slot \in [Slots -> Threads \cup {None}] /\ fresh \in Threads \cup {None}
        /\ thread \in [Threads ->
             {"unused", "created", "running", "busy", "leaving", "exited"}]
    BY DEF TypeInv, TypeOK
  <1>2. \A w \in Slots : slot'[w] = IF w = next THEN fresh ELSE slot[w]
    BY <1>1
  <1>3. \A th \in Threads : thread'[th] = IF th = slot[next] THEN "unused" ELSE thread[th]
    BY <1>1 DEF JoinedThread
  <1>4. \A w \in Slots : slot[w] # None => slot[w] # fresh
    BY DEF OwnInv
  <1>5. \A w, x \in Slots : slot'[w] = slot'[x] /\ slot'[w] # None => w = x
    BY <1>2, <1>4 DEF OwnInv
  <1>6. \A w \in Slots : slot'[w] # None => slot'[w] # fresh' /\ thread'[slot'[w]] # "unused"
    <2> SUFFICES ASSUME NEW w \in Slots, slot'[w] # None PROVE thread'[slot'[w]] # "unused"
      OBVIOUS
    <2>1. slot'[w] \in Threads /\ slot'[w] # slot[next]
      BY <1>1, <1>2, <1>4 DEF OwnInv
    <2>2. thread[slot'[w]] # "unused"
      BY <1>2 DEF OwnInv
    <2>3. QED
      BY <1>3, <2>1, <2>2
  <1>7. \A th \in Threads : thread'[th] # "unused" => \E w \in Slots : slot'[w] = th
    <2> SUFFICES ASSUME NEW th \in Threads, thread'[th] # "unused"
                 PROVE  \E w \in Slots : slot'[w] = th
      OBVIOUS
    <2>1. th # slot[next] /\ thread[th] # "unused"
      BY <1>3
    <2>2. CASE th = fresh
      BY <1>2, <2>2
    <2>3. CASE \E w \in Slots : slot[w] = th
      BY <1>2, <2>1, <2>3
    <2>4. QED
      BY <2>1, <2>2, <2>3 DEF OwnInv
  <1>8. owner' = "join" => \A w \in Slots : w < next' => slot'[w] = None
    <2> SUFFICES ASSUME owner' = "join", NEW w \in Slots, w < next' PROVE slot'[w] = None
      OBVIOUS
    <2>1. w = next \/ w < next
      BY DEF Slots
    <2>2. QED
      BY <1>2, <2>1 DEF OwnInv
  <1>9. QED
    BY <1>5, <1>6, <1>7, <1>8 DEF OwnInv

(* Every step keeps the ownership, whatever the contracts. *)
LEMMA OwnKept == TypeInv /\ OwnInv /\ [Next]_vars => OwnInv'
  <1> SUFFICES ASSUME TypeInv, OwnInv, [Next]_vars PROVE OwnInv'
    OBVIOUS
  <1> USE SchedulerAssumption
  <1>0. /\ thread \in [Threads ->
             {"unused", "created", "running", "busy", "leaving", "exited"}]
        /\ slot \in [Slots -> Threads \cup {None}]
        /\ fresh \in Threads \cup {None}
        /\ next \in 1 .. Workers + 1
    BY DEF TypeInv, TypeOK
  <1>1. ASSUME NEW t \in Tasks, Post(t) \/ Await(t) \/ Fire(t)
        PROVE  OwnInv'
    <2>1. UNCHANGED <<slot, fresh, thread, owner, next>>
      BY <1>1 DEF Post, Await, Fire, control
    <2>2. QED
      BY <2>1, OwnSame
  <1>2. ASSUME NEW th \in Threads, Worker(th)
        PROVE  OwnInv'
    <2>1. /\ UNCHANGED <<slot, fresh, owner, next>>
          /\ thread[th] # "unused"
          /\ \E place \in {"running", "busy", "leaving", "exited"} :
               thread' = [thread EXCEPT ![th] = place]
      BY <1>2 DEF Worker, Enter, Pick, Finish, Leave, Exit, control
    <2>2. \A other \in Threads : thread'[other] = "unused" <=> thread[other] = "unused"
      BY <1>0, <2>1
    <2>3. QED
      BY <2>1, <2>2, OwnSame
  <1>3. ASSUME Start \/ EngageGuard \/ AwaitStopReturn \/ StopContext
               \/ \E purpose \in {"return", "join", "destroy"} : RequestStop(purpose)
        PROVE  OwnInv'
    <2>1. /\ UNCHANGED <<slot, fresh, thread>> /\ owner # "spawn"
          /\ owner' # "gone" /\ (owner' = "join" => next' = 1)
      BY <1>3 DEF Start, EngageGuard, AwaitStopReturn, StopContext, RequestStop
    <2>2. fresh = None
      BY <2>1 DEF OwnInv
    <2>3. QED
      BY <2>1, <2>2, OwnSame
  <1>4. ASSUME Destroy \/ MoveAssign
        PROVE  OwnInv'
    <2>1. /\ UNCHANGED <<slot, fresh, thread>> /\ owner # "spawn" /\ owner' = "gone"
      BY <1>4 DEF Destroy, MoveAssign, DropHandlers
    <2>2. fresh = None
      BY <2>1 DEF OwnInv
    <2>3. MoveWhen = "inactive" \/ Joined
      <3>1. CASE Destroy
        <4>1. \A w \in Slots : w < next
          BY <1>0, <3>1 DEF Destroy, Slots
        <4>2. QED
          BY <3>1, <4>1 DEF Destroy, OwnInv, Joined
      <3>2. CASE MoveAssign
        BY <3>2 DEF MoveAssign
      <3>3. QED
        BY <1>4, <3>1, <3>2
    <2>4. QED
      BY <2>1, <2>2, <2>3, OwnSame
  <1>5. ASSUME CreateWorker
        PROVE  OwnInv'
    <2> USE <1>0, <1>5 DEF CreateWorker
    <2>1. PICK th \in Threads : /\ thread[th] = "unused"
                                /\ thread' = [thread EXCEPT ![th] = "created"]
                                /\ fresh' = th
      OBVIOUS
    <2>2. \A w \in Slots : slot[w] # th
      BY <2>1 DEF OwnInv
    <2>3. /\ thread'[th] = "created"
          /\ \A other \in Threads : other # th => thread'[other] = thread[other]
      BY <2>1
    <2>4. \A w \in Slots : slot'[w] # None => slot'[w] # fresh' /\ thread'[slot'[w]] # "unused"
      BY <2>1, <2>2, <2>3 DEF OwnInv
    <2>5. \A other \in Threads : thread'[other] # "unused" =>
            other = fresh' \/ \E w \in Slots : slot'[w] = other
      BY <2>1, <2>3 DEF OwnInv
    <2>6. QED
      BY <2>1, <2>3, <2>4, <2>5 DEF OwnInv
  <1>6. ASSUME StoreWorker
        PROVE  OwnInv'
    <2>1. /\ next \in Slots /\ Joinable(next) /\ thread' = JoinedThread(next)
          /\ slot' = [slot EXCEPT ![next] = fresh] /\ fresh' = None
          /\ owner' \in {"spawn", "idle"}
      BY <1>6 DEF StoreWorker, TypeInv
    <2>2. QED
      BY <2>1, OwnJoined
  <1>7. ASSUME Join
        PROVE  OwnInv'
    <2>1. fresh = None /\ next \in Slots
      BY <1>0, <1>7 DEF Join, OwnInv, Slots
    <2>2. /\ Joinable(next) /\ thread' = JoinedThread(next)
          /\ slot' = [slot EXCEPT ![next] = fresh] /\ fresh' = None
          /\ owner = "join" /\ owner' = "join" /\ next' = next + 1
      BY <1>7, <2>1 DEF Join
    <2>3. QED
      BY <2>1, <2>2, OwnJoined
  <1>8. CASE UNCHANGED vars
    BY <1>8, OwnSame DEF vars, control
  <1>9. QED
    BY <1>1, <1>2, <1>3, <1>4, <1>5, <1>6, <1>7, <1>8 DEF Next, Owner

-----------------------------------------------------------------------------

(* The life of the workers, if start() finds none of the last ones left.   *)

Staying(th) == thread[th] \in {"created", "running", "busy"}

Manned(w) == slot[w] # None /\ Staying(slot[w])

LifeInv ==
    /\ guard => ~stopped
    /\ owner = "guard" => Inside = {} /\ ~stopped
    /\ owner = "spawn" => \A w \in Slots : w < next => Manned(w)
    /\ owner = "spawn" /\ fresh # None => Staying(fresh)
    /\ owner = "idle" /\ guard => \A w \in Slots : Manned(w)

(* Not started yet. *)
LEMMA LifeInitial == Init => LifeInv
  BY DEF Init, LifeInv

(* A worker does not leave while the guard is engaged. *)
LEMMA WorkersStay ==
  ASSUME TypeInv, guard => ~stopped, NEW th \in Threads, Worker(th)
  PROVE  /\ guard' = guard /\ (guard => ~stopped')
         /\ thread[th] \in {"created", "running", "busy", "leaving"}
         /\ guard => \A other \in Threads : Staying(other) => Staying(other)'
  <1>1. thread \in [Threads ->
          {"unused", "created", "running", "busy", "leaving", "exited"}]
    BY DEF TypeInv, TypeOK
  <1>2. CASE Enter(th)
    BY <1>1, <1>2 DEF Enter, Staying, control
  <1>3. CASE Pick(th)
    BY <1>1, <1>3 DEF Pick, Staying, control
  <1>4. CASE Finish(th)
    <2>1. guard' = guard /\ thread' = [thread EXCEPT ![th] = "running"] /\ thread[th] = "busy"
      BY <1>4 DEF Finish, control
    <2>2. guard => ~stopped'
      BY <1>4 DEF Finish
    <2>3. QED
      BY <1>1, <2>1, <2>2 DEF Staying
  <1>5. CASE Leave(th)
    BY <1>1, <1>5 DEF Leave, Staying, control, ctx
  <1>6. CASE Exit(th)
    <2>1. /\ guard' = guard /\ stopped' = stopped
          /\ thread' = [thread EXCEPT ![th] = "exited"] /\ thread[th] = "leaving"
      BY <1>6 DEF Exit, control, ctx
    <2>2. QED
      BY <1>1, <2>1 DEF Staying
  <1>7. QED
    BY <1>2, <1>3, <1>4, <1>5, <1>6 DEF Worker

(* Under the contract every step keeps the workers' life. *)
LEMMA LifeKept ==
  ASSUME JoinFirst
  PROVE  TypeInv /\ ControlInv /\ OwnInv /\ LifeInv /\ [Next]_vars => LifeInv'
  <1> SUFFICES ASSUME TypeInv, ControlInv, OwnInv, LifeInv, [Next]_vars PROVE LifeInv'
    OBVIOUS
  <1> USE SchedulerAssumption
  <1>0. /\ thread \in [Threads ->
             {"unused", "created", "running", "busy", "leaving", "exited"}]
        /\ slot \in [Slots -> Threads \cup {None}]
        /\ fresh \in Threads \cup {None}
        /\ next \in 1 .. Workers + 1
    BY DEF TypeInv, TypeOK
  <1>1. ASSUME UNCHANGED <<guard, stopped, owner, slot, fresh, next, thread>>
        PROVE  LifeInv'
    BY <1>1 DEF LifeInv, Inside, Manned, Staying
  <1>2. ASSUME NEW t \in Tasks, Post(t) \/ Await(t) \/ Fire(t)
        PROVE  LifeInv'
    BY <1>1, <1>2 DEF Post, Await, Fire, control
  <1>3. ASSUME NEW th \in Threads, Worker(th)
        PROVE  LifeInv'
    <2>1. UNCHANGED <<guard, owner, slot, fresh, next>>
      BY <1>3 DEF Worker, Enter, Pick, Finish, Leave, Exit, control
    <2>2. /\ guard => ~stopped'
          /\ th \in Inside
          /\ guard => \A other \in Threads : Staying(other) => Staying(other)'
      BY <1>3, WorkersStay DEF LifeInv, Inside
    <2>3. owner # "guard"
      BY <2>2 DEF LifeInv
    <2>4. owner = "spawn" => guard
      BY DEF ControlInv
    <2>5. guard => \A w \in Slots : Manned(w) => Manned(w)'
      BY <1>0, <2>1, <2>2 DEF Manned
    <2>6. owner = "spawn" /\ fresh # None => Staying(fresh)'
      BY <1>0, <2>1, <2>2, <2>4 DEF LifeInv
    <2>7. QED
      BY <2>1, <2>2, <2>3, <2>4, <2>5, <2>6 DEF LifeInv, Staying
  <1>4. ASSUME Start
        PROVE  LifeInv'
    <2>1. Inside' = {} /\ ~stopped' /\ owner' = "guard"
      BY <1>4 DEF Start, Inside
    <2>2. QED
      BY <2>1 DEF LifeInv
  <1>5. ASSUME EngageGuard
        PROVE  LifeInv'
    <2>1. /\ owner' = "spawn" /\ next' = 1 /\ stopped' = stopped /\ ~stopped
          /\ fresh' = fresh /\ fresh = None
      BY <1>5 DEF EngageGuard, LifeInv, OwnInv, ctx
    <2>2. \A w \in Slots : ~(w < next')
      BY <2>1 DEF Slots
    <2>3. QED
      BY <2>1, <2>2 DEF LifeInv
  <1>6. ASSUME owner' \in {"stop", "join", "gone", "idle"},
               ~guard'
        PROVE  LifeInv'
    BY <1>6 DEF LifeInv
  <1>7. ASSUME NEW purpose \in {"return", "join", "destroy"}, RequestStop(purpose)
        PROVE  LifeInv'
    BY <1>6, <1>7 DEF RequestStop
  <1>8. ASSUME StopContext \/ Join \/ AwaitStopReturn \/ Destroy \/ MoveAssign
        PROVE  LifeInv'
    <2>1. guard' = guard /\ owner' \in {"idle", "join", "gone"}
      BY <1>8 DEF StopContext, Join, AwaitStopReturn, Destroy, MoveAssign, DropHandlers
    <2>2. ~guard
      <3>1. CASE owner \in {"stop", "join"}
        BY <3>1 DEF ControlInv
      <3>2. CASE MoveAssign
        BY <3>2 DEF MoveAssign, Active
      <3>3. QED
        BY <1>8, <3>1, <3>2 DEF StopContext, Join, AwaitStopReturn, Destroy
    <2>3. QED
      BY <1>6, <2>1, <2>2
  <1>9. ASSUME CreateWorker
        PROVE  LifeInv'
    <2> USE <1>0, <1>9 DEF CreateWorker
    <2>1. PICK th \in Threads : /\ thread[th] = "unused"
                                /\ thread' = [thread EXCEPT ![th] = "created"]
                                /\ fresh' = th
      OBVIOUS
    <2>2. thread'[th] = "created" /\ \A other \in Threads \ {th} : thread'[other] = thread[other]
      BY <2>1
    <2>3. \A w \in Slots : Manned(w) => Manned(w)'
      BY <2>1, <2>2 DEF Manned, Staying
    <2>4. Staying(fresh)'
      BY <2>1, <2>2 DEF Staying
    <2>5. UNCHANGED <<guard, stopped, owner, next>> /\ owner = "spawn"
      BY DEF ctx
    <2>6. QED
      BY <2>3, <2>4, <2>5 DEF LifeInv
  <1>10. ASSUME StoreWorker
        PROVE  LifeInv'
    <2>1. /\ guard' = guard /\ stopped' = stopped /\ next \in Slots /\ owner = "spawn"
          /\ fresh # None /\ fresh' = None
          /\ Joinable(next) /\ thread' = JoinedThread(next)
          /\ slot' = [slot EXCEPT ![next] = fresh]
      BY <1>10 DEF StoreWorker, TypeInv, ctx
    <2>2. /\ \A w \in Slots : slot'[w] = IF w = next THEN fresh ELSE slot[w]
          /\ \A th \in Threads : Staying(th) => Staying(th)'
      BY <1>0, <2>1 DEF JoinedThread, Joinable, Staying
    <2>3. Staying(fresh) /\ \A w \in Slots : w < next => Manned(w)
      BY <2>1 DEF LifeInv
    <2>4. \A w \in Slots : w <= next => Manned(w)'
      <3> SUFFICES ASSUME NEW w \in Slots, w <= next PROVE Manned(w)'
        OBVIOUS
      <3>1. CASE w = next
        BY <1>0, <2>1, <2>2, <2>3, <3>1 DEF Manned
      <3>2. CASE w < next
        BY <1>0, <2>1, <2>2, <2>3, <3>2 DEF Manned
      <3>3. QED
        BY <1>0, <2>1, <3>1, <3>2 DEF Slots
    <2>5. CASE next < Workers
      <3>1. next' = next + 1 /\ owner' = "spawn"
        BY <1>10, <2>5 DEF StoreWorker
      <3>2. \A w \in Slots : w < next' => w <= next
        BY <1>0, <3>1 DEF Slots
      <3>3. QED
        BY <2>1, <2>4, <3>1, <3>2 DEF LifeInv
    <2>6. CASE ~(next < Workers)
      <3>1. owner' = "idle"
        BY <1>10, <2>6 DEF StoreWorker
      <3>2. \A w \in Slots : w <= next
        BY <1>0, <2>6 DEF Slots
      <3>3. QED
        BY <2>1, <2>4, <3>1, <3>2 DEF LifeInv
    <2>7. QED
      BY <2>5, <2>6
  <1>11. CASE UNCHANGED vars
    BY <1>1, <1>11 DEF vars, ctx, control
  <1>12. QED
    BY <1>2, <1>3, <1>4, <1>5, <1>7, <1>8, <1>9, <1>10, <1>11 DEF Next, Owner

-----------------------------------------------------------------------------

(* Every state of a scheduler is well typed, and *_activeWorkers is never  *)
(* more than the threads there are nor below zero.                         *)
THEOREM SchedulerTypeCorrect == Spec => []TypeOK
  <1>1. TypeInv => TypeOK
    BY DEF TypeInv
  <1>2. QED
    BY TypeInitial, TypeKept, <1>1, PTL DEF Spec

(* Whatever is posted, awaited, stopped, restarted, moved and destroyed, a *)
(* task is never in two places (queued once, waiting, on one worker, done, *)
(* destroyed), no step takes one that was posted out of all of them, and a *)
(* worker lets go of a task only when it has run.                          *)
THEOREM EachTaskInOnePlaceCorrect == Spec => EachTaskInOnePlace
  <1>1. TypeInv /\ TaskInv => OnePlace
    <2> SUFFICES ASSUME TypeInv, TaskInv PROVE OnePlace
      OBVIOUS
    <2>1. Cardinality(Queued) = Len(queue)
      BY QueuedCount DEF TypeInv, TypeOK, TaskInv
    <2> DEFINE places == <<Queued, waiting, OnWorkers, done, dropped>>
    <2>2. \A i, j \in 1 .. 5 : i < j => places[i] \cap places[j] = {}
      <3> SUFFICES ASSUME NEW i \in 1 .. 5, NEW j \in 1 .. 5, i < j
                   PROVE  places[i] \cap places[j] = {}
        OBVIOUS
      <3>1. CASE i = 1
        BY <3>1 DEF TaskInv, Apart
      <3>2. CASE i = 2
        BY <3>2 DEF TaskInv, Apart
      <3>3. CASE i = 3
        BY <3>3 DEF TaskInv, Apart
      <3>4. CASE i = 4
        BY <3>4 DEF TaskInv, Apart
      <3>5. QED
        BY <3>1, <3>2, <3>3, <3>4
    <2>3. \A i, j \in 1 .. 5 : i # j => places[i] \cap places[j] = {}
      <3> SUFFICES ASSUME NEW i \in 1 .. 5, NEW j \in 1 .. 5, i # j
                   PROVE  places[i] \cap places[j] = {}
        OBVIOUS
      <3>1. i < j \/ j < i
        OBVIOUS
      <3>2. places[i] \cap places[j] = places[j] \cap places[i]
        OBVIOUS
      <3>3. QED
        BY <2>2, <3>1, <3>2
    <2>4. QED
      BY <2>1, <2>3 DEF OnePlace, TaskInv, OnWorkers
  <1>2. QED
    BY TypeInitial, TypeKept, TaskInitial, TaskKept, LosesNothing, <1>1, PTL
    DEF Spec, EachTaskInOnePlace

(* No task starts after a stop: only between a start() and the end of the  *)
(* next request_stop(), also if start() is called while workers are left.  *)
THEOREM NoStartAfterStopCorrect == Spec => NoStartAfterStop
  <1>1. ASSUME TypeInv, ControlInv, [Next]_vars
        PROVE  [(\E th \in Threads : thread[th] = "running" /\ thread'[th] = "busy")
                  => guard \/ owner \in {"guard", "stop"}]_vars
    <2> SUFFICES ASSUME NEW th \in Threads, thread[th] = "running", thread'[th] = "busy"
                 PROVE  guard \/ owner \in {"guard", "stop"}
      OBVIOUS
    <2>0. thread \in [Threads ->
            {"unused", "created", "running", "busy", "leaving", "exited"}]
      BY <1>1 DEF TypeInv, TypeOK
    <2>1. ASSUME NEW other \in Threads, Worker(other)
          PROVE  ~stopped
      BY <2>0, <2>1 DEF Worker, Enter, Pick, Finish, Leave, Exit
    <2>2. \E other \in Threads : Worker(other)
      <3>1. ASSUME NEW t \in Tasks, Post(t) \/ Await(t) \/ Fire(t)
            PROVE  thread' = thread
        BY <3>1 DEF Post, Await, Fire
      <3>2. ASSUME Start \/ EngageGuard \/ AwaitStopReturn \/ StopContext \/ Destroy \/ MoveAssign
                   \/ \E purpose \in {"return", "join", "destroy"} : RequestStop(purpose)
            PROVE  thread' = thread
        BY <3>2 DEF Start, EngageGuard, AwaitStopReturn, StopContext, Destroy, MoveAssign,
                    RequestStop
      <3>3. ASSUME CreateWorker \/ StoreWorker \/ Join
            PROVE  \A other \in Threads : thread'[other] \in {thread[other], "created", "unused"}
        BY <2>0, <3>3 DEF CreateWorker, StoreWorker, Join, JoinedThread
      <3>4. CASE UNCHANGED vars
        BY <3>4 DEF vars
      <3>5. QED
        BY <1>1, <3>1, <3>2, <3>3, <3>4 DEF Next, Owner
    <2>3. owner \in {"idle", "guard", "spawn", "stop", "join", "gone"}
      BY <1>1 DEF TypeInv, TypeOK
    <2>4. QED
      BY <1>1, <2>1, <2>2, <2>3 DEF ControlInv
  <1>2. QED
    BY TypeInitial, TypeKept, ControlInitial, ControlKept, <1>1, PTL DEF Spec, NoStartAfterStop

(* If start() is only called once the last workers are out, a started      *)
(* scheduler keeps every worker and one that was joined is inactive and    *)
(* counts none.                                                            *)
THEOREM LifecycleCorrect ==
  ASSUME JoinFirst
  PROVE  Spec => []LifecycleHolds
  <1>1. TypeInv /\ ControlInv /\ OwnInv /\ LifeInv => LifecycleHolds
    <2> SUFFICES ASSUME TypeInv, ControlInv, OwnInv, LifeInv PROVE LifecycleHolds
      OBVIOUS
    <2>1. TypeOK
      BY DEF TypeInv
    <2>2. StaysAlive
      BY DEF LifeInv, StaysAlive, Manned, Staying
    <2>3. JoinedIsInactive
      <3> SUFFICES ASSUME Joined, owner = "idle" PROVE ~Active /\ Inside = {}
        BY DEF JoinedIsInactive
      <3>1. \A th \in Threads : thread[th] = "unused"
        BY SchedulerAssumption DEF OwnInv, Joined
      <3>2. Inside = {} /\ Counted = {}
        BY <3>1 DEF Inside, Counted
      <3>3. active = 0
        BY <3>2, FS_EmptySet DEF TypeInv
      <3>4. 1 \in Slots
        BY SchedulerAssumption DEF Slots
      <3>5. ~guard
        BY <3>4 DEF LifeInv, Manned, Joined
      <3>6. QED
        BY <3>2, <3>3, <3>5 DEF ControlInv, Active
    <2>4. QED
      BY <2>1, <2>2, <2>3 DEF LifecycleHolds
  <1>2. TypeInv /\ ControlInv /\ OwnInv /\ LifeInv /\ [Next]_vars => LifeInv'
    BY LifeKept
  <1>3. QED
    BY TypeInitial, TypeKept, ControlInitial, ControlKept, OwnInitial, OwnKept, LifeInitial,
       <1>1, <1>2, PTL DEF Spec

(* If a scheduler is only moved to once its workers are joined, none of    *)
(* them uses a context that was destroyed.                                 *)
THEOREM NoUseAfterDestroyCorrect ==
  ASSUME MoveWhen # "inactive"
  PROVE  Spec => []NoUseAfterDestroy
  <1>1. OwnInv => NoUseAfterDestroy
    BY SchedulerAssumption DEF OwnInv, NoUseAfterDestroy, Joined, Inside
  <1>2. QED
    BY TypeInitial, TypeKept, OwnInitial, OwnKept, <1>1, PTL DEF Spec
=============================================================================
