----------------------------- MODULE Scheduler ------------------------------
(***************************************************************************)
(* cth::co::scheduler (cth_coro/incl/cth/coro/scheduler.hpp,               *)
(* cth_coro/src/coro/scheduler.cpp): worker threads that run the tasks     *)
(* posted to an asio io_context.  Three kinds of processes interleave: the *)
(* owner, who calls start(), request_stop(), await_stop() and the          *)
(* destructor; the worker threads; and whoever posts tasks or awaits       *)
(* handles and time points, tasks included.                                *)
(*                                                                         *)
(* The io_context is external.  It is a queue of ready handlers, a stopped *)
(* flag, and a count of outstanding work that stops it when it reaches 0.  *)
(***************************************************************************)
EXTENDS Naturals, Sequences, FiniteSets

CONSTANTS
    Workers,        \* number of worker slots, _workers.size()
    Threads,        \* identities of OS threads
    Tasks,          \* handlers that can be posted or awaited, once each
    None,           \* no thread, no task
    JoinFirst,      \* contract: start() only after the last workers left
    MoveWhen        \* when the scheduler may be move-assigned to

(* A start() may have to hold a new thread while it joins an old one. *)
ASSUME SchedulerAssumption ==
    /\ Workers \in Nat \ {0}
    /\ IsFiniteSet(Threads) /\ Cardinality(Threads) > Workers
    /\ None \notin Threads \cup Tasks
    /\ JoinFirst \in BOOLEAN
    /\ MoveWhen \in {"never", "joined", "inactive"}

VARIABLES
    queue,          \* ctx: ready handlers, in order
    waiting,        \* ctx: handlers of async waits that have not fired
    stopped,        \* ctx: the stopped flag
    guard,          \* workGuard: is it engaged?
    active,         \* *_activeWorkers
    slot,           \* _workers: the thread each jthread owns
    thread,         \* where each OS thread is
    task,           \* the task each busy thread runs
    owner,          \* where the owner is
    after,          \* what request_stop() is part of
    next,           \* the worker slot the owner's loop is at
    fresh,          \* the thread start() has created and not yet stored
    done,           \* ghost: tasks that ran to their end
    dropped         \* ghost: tasks destroyed without having run

ctx == <<queue, waiting, stopped>>
control == <<guard, slot, owner, after, next, fresh>>
vars == <<ctx, control, active, thread, task, done, dropped>>

Slots == 1 .. Workers

TypeOK ==
    /\ queue \in Seq(Tasks)
    /\ waiting \subseteq Tasks
    /\ stopped \in BOOLEAN
    /\ guard \in BOOLEAN
    /\ active \in 0 .. Cardinality(Threads)
    /\ slot \in [Slots -> Threads \cup {None}]
    /\ thread \in [Threads ->
         {"unused", "created", "running", "busy", "leaving", "exited"}]
    /\ task \in [Threads -> Tasks \cup {None}]
    /\ owner \in {"idle", "guard", "spawn", "stop", "join", "gone"}
    /\ after \in {"return", "join", "destroy"}
    /\ next \in 1 .. Workers + 1
    /\ fresh \in Threads \cup {None}
    /\ done \subseteq Tasks
    /\ dropped \subseteq Tasks

Queued == {queue[i] : i \in 1 .. Len(queue)}

Busy == {th \in Threads : thread[th] = "busy"}

Posted == Queued \cup waiting \cup {task[th] : th \in Busy} \cup done \cup dropped

(* A thread that still uses the io_context. *)
Inside == {th \in Threads :
             thread[th] \in {"created", "running", "busy", "leaving"}}

(* scheduler::active() *)
Active == guard \/ ~stopped \/ active > 0

Joined == \A w \in Slots : slot[w] = None

Alive == owner # "gone"

(* Work besides the guard: handlers ready, pending or running.  Finishing  *)
(* the last work stops the context.                                        *)
NoWorkBut(th) == queue = <<>> /\ waiting = {} /\ Busy \subseteq {th}

-----------------------------------------------------------------------------

(* The constructor stops the context, so that active() is false. *)
Init ==
    /\ queue = <<>>
    /\ waiting = {}
    /\ stopped = TRUE
    /\ guard = FALSE
    /\ active = 0
    /\ slot = [w \in Slots |-> None]
    /\ thread = [th \in Threads |-> "unused"]
    /\ task = [th \in Threads |-> None]
    /\ owner = "idle"
    /\ after = "return"
    /\ next = 1
    /\ fresh = None
    /\ done = {}
    /\ dropped = {}

-----------------------------------------------------------------------------
(* Posting, from any thread.                                               *)

(* post() *)
Post(t) ==
    /\ Alive
    /\ t \notin Posted
    /\ queue' = Append(queue, t)
    /\ UNCHANGED <<waiting, stopped, control, active, thread, task, done, dropped>>

(* await(): an asynchronous wait for a handle or a time point. *)
Await(t) ==
    /\ Alive
    /\ t \notin Posted
    /\ waiting' = waiting \cup {t}
    /\ UNCHANGED <<queue, stopped, control, active, thread, task, done, dropped>>

(* The event fires: the handler is ready. *)
Fire(t) ==
    /\ Alive
    /\ t \in waiting
    /\ waiting' = waiting \ {t}
    /\ queue' = Append(queue, t)
    /\ UNCHANGED <<stopped, control, active, thread, task, done, dropped>>

-----------------------------------------------------------------------------
(* The worker threads.                                                     *)

(* The thread counts itself and enters ctx.run(), which stops at once when *)
(* there is no work at all.                                                *)
Enter(th) ==
    /\ thread[th] = "created"
    /\ active' = active + 1
    /\ IF ~guard /\ NoWorkBut(None)
          THEN /\ thread' = [thread EXCEPT ![th] = "leaving"]
               /\ stopped' = TRUE
          ELSE /\ thread' = [thread EXCEPT ![th] = "running"]
               /\ UNCHANGED stopped
    /\ UNCHANGED <<queue, waiting, control, task, done, dropped>>

(* ctx.run() takes the next handler unless the context is stopped. *)
Pick(th) ==
    /\ thread[th] = "running"
    /\ ~stopped
    /\ queue # <<>>
    /\ task' = [task EXCEPT ![th] = Head(queue)]
    /\ queue' = Tail(queue)
    /\ thread' = [thread EXCEPT ![th] = "busy"]
    /\ UNCHANGED <<waiting, stopped, control, active, done, dropped>>

(* The handler returns; the last work to finish stops the context. *)
Finish(th) ==
    /\ thread[th] = "busy"
    /\ done' = done \cup {task[th]}
    /\ task' = [task EXCEPT ![th] = None]
    /\ thread' = [thread EXCEPT ![th] = "running"]
    /\ stopped' = (stopped \/ (~guard /\ NoWorkBut(th)))
    /\ UNCHANGED <<queue, waiting, control, active, dropped>>

(* ctx.run() returns because the context is stopped. *)
Leave(th) ==
    /\ thread[th] = "running"
    /\ stopped
    /\ thread' = [thread EXCEPT ![th] = "leaving"]
    /\ UNCHANGED <<ctx, control, active, task, done, dropped>>

(* The thread uncounts itself and ends. *)
Exit(th) ==
    /\ thread[th] = "leaving"
    /\ active' = active - 1
    /\ thread' = [thread EXCEPT ![th] = "exited"]
    /\ UNCHANGED <<ctx, control, task, done, dropped>>

Worker(th) == Enter(th) \/ Pick(th) \/ Finish(th) \/ Leave(th) \/ Exit(th)

-----------------------------------------------------------------------------
(* The owner.                                                              *)

(* Mutation: a start() without ctx.restart(). *)
StartNoRestart ==
    /\ owner = "idle"
    /\ JoinFirst => Inside = {}
    /\ owner' = "guard"
    /\ UNCHANGED <<ctx, guard, slot, after, next, fresh, active, thread, task,
                   done, dropped>>

(* Mutation: start() takes a new context instead of restarting the old one. *)
StartAnew ==
    /\ owner = "idle"
    /\ JoinFirst => Inside = {}
    /\ queue' = <<>> /\ waiting' = {} /\ stopped' = FALSE
    /\ owner' = "guard"
    /\ UNCHANGED <<guard, slot, after, next, fresh, active, thread, task, done,
                   dropped>>

(* start(): ctx.restart() clears the stopped flag. *)
Start ==
    /\ owner = "idle"
    /\ JoinFirst => Inside = {}
    /\ stopped' = FALSE
    /\ owner' = "guard"
    /\ UNCHANGED <<queue, waiting, guard, slot, after, next, fresh,
                   active, thread, task, done, dropped>>

(* start(): the work guard is engaged. *)
EngageGuard ==
    /\ owner = "guard"
    /\ guard' = TRUE
    /\ owner' = "spawn"
    /\ next' = 1
    /\ UNCHANGED <<ctx, slot, after, fresh, active, thread, task, done, dropped>>

(* start(): a jthread is created ... *)
CreateWorker ==
    /\ owner = "spawn"
    /\ fresh = None
    /\ \E th \in Threads :
         /\ thread[th] = "unused"
         /\ thread' = [thread EXCEPT ![th] = "created"]
         /\ fresh' = th
    /\ UNCHANGED <<ctx, guard, slot, owner, after, next, active, task, done, dropped>>

(* The jthread of a slot can be joined, or owns no thread. *)
Joinable(w) == IF slot[w] = None THEN TRUE ELSE thread[slot[w]] = "exited"

(* Its thread, if any, is joined. *)
JoinedThread(w) ==
    IF slot[w] = None THEN thread ELSE [thread EXCEPT ![slot[w]] = "unused"]

(* ... and moved into its slot, which joins the thread that was there. *)
StoreWorker ==
    /\ owner = "spawn"
    /\ fresh # None
    /\ Joinable(next)
    /\ thread' = JoinedThread(next)
    /\ slot' = [slot EXCEPT ![next] = fresh]
    /\ fresh' = None
    /\ IF next < Workers
          THEN next' = next + 1 /\ UNCHANGED owner
          ELSE next' = 1 /\ owner' = "idle"
    /\ UNCHANGED <<ctx, guard, after, active, task, done, dropped>>

(* request_stop(), on its own, in await_stop() or in the destructor: the   *)
(* work guard is dropped, which stops a context without any work ...       *)
RequestStop(purpose) ==
    /\ owner = "idle"
    /\ owner' = "stop"
    /\ after' = purpose
    /\ guard' = FALSE
    /\ stopped' = (stopped \/ (guard /\ NoWorkBut(None)))
    /\ UNCHANGED <<queue, waiting, slot, next, fresh, active, thread, task, done, dropped>>

(* Mutation: request_stop() only drops the work guard. *)
StopContextGuardOnly ==
    /\ owner = "stop"
    /\ next' = 1
    /\ owner' = IF after = "return" THEN "idle" ELSE "join"
    /\ UNCHANGED <<ctx, guard, slot, after, fresh, active, thread, task, done, dropped>>

(* ... and the context is stopped. *)
StopContext ==
    /\ owner = "stop"
    /\ stopped' = TRUE
    /\ next' = 1
    /\ owner' = IF after = "return" THEN "idle" ELSE "join"
    /\ UNCHANGED <<queue, waiting, guard, slot, after, fresh, active, thread,
                   task, done, dropped>>

(* Mutation: the workers are detached instead of joined. *)
JoinDetached ==
    /\ owner = "join"
    /\ next <= Workers
    /\ slot' = [slot EXCEPT ![next] = None]
    /\ next' = next + 1
    /\ UNCHANGED <<ctx, guard, owner, after, fresh, active, thread, task, done, dropped>>

(* await_stop(): the workers are joined one after the other. *)
Join ==
    /\ owner = "join"
    /\ next <= Workers
    /\ Joinable(next)
    /\ thread' = JoinedThread(next)
    /\ slot' = [slot EXCEPT ![next] = None]
    /\ next' = next + 1
    /\ UNCHANGED <<ctx, guard, owner, after, fresh, active, task, done, dropped>>

(* await_stop() returns. *)
AwaitStopReturn ==
    /\ owner = "join"
    /\ next > Workers
    /\ after = "join"
    /\ owner' = "idle"
    /\ after' = "return"
    /\ next' = 1
    /\ UNCHANGED <<ctx, guard, slot, fresh, active, thread, task, done, dropped>>

(* The context is destroyed; handlers that did not run are destroyed too. *)
DropHandlers ==
    /\ owner' = "gone"
    /\ queue' = <<>>
    /\ waiting' = {}
    /\ dropped' = dropped \cup Queued \cup waiting

(* The destructor, once the workers are joined. *)
Destroy ==
    /\ owner = "join"
    /\ next > Workers
    /\ after = "destroy"
    /\ DropHandlers
    /\ UNCHANGED <<stopped, guard, slot, after, next, fresh, active, thread, task, done>>

(* Move assignment to this scheduler: its implementation is destroyed      *)
(* first, its workers are joined last.  The contract is "must not be       *)
(* active()".                                                              *)
MoveAssign ==
    /\ owner = "idle"
    /\ \/ MoveWhen = "joined" /\ Joined
       \/ MoveWhen = "inactive"
    /\ ~Active
    /\ DropHandlers
    /\ UNCHANGED <<stopped, guard, slot, after, next, fresh, active, thread, task, done>>

Owner == \/ EngageGuard \/ CreateWorker \/ StoreWorker \/ StopContext
         \/ Join \/ AwaitStopReturn \/ Destroy

Next ==
    \/ \E t \in Tasks : Post(t) \/ Await(t) \/ Fire(t)
    \/ \E th \in Threads : Worker(th)
    \/ Start
    \/ \E purpose \in {"return", "join", "destroy"} : RequestStop(purpose)
    \/ MoveAssign
    \/ Owner

Spec == Init /\ [][Next]_vars

(* The operating system runs every thread, so that every step of a worker  *)
(* and every step of a call the owner has begun is eventually taken; tasks *)
(* return.  Nobody has to post, start or stop, and events need not fire.   *)
FairSpec == Spec /\ WF_vars(Owner) /\ \A th \in Threads : WF_vars(Worker(th))

-----------------------------------------------------------------------------
(* Properties.                                                             *)

(* No task is in two places, and none is queued or run twice. *)
OnePlace ==
    /\ Cardinality(Queued) = Len(queue)
    /\ \A th, other \in Busy : task[th] = task[other] => th = other
    /\ LET places == <<Queued, waiting, {task[th] : th \in Busy}, done, dropped>>
       IN  \A i, j \in 1 .. 5 : i # j => places[i] \cap places[j] = {}

(* The worker th is done with the task it had. *)
Released(th) == thread'[th] # "busy" \/ task'[th] # task[th]

(* What was posted stays in one of the places, a worker lets go of a task  *)
(* only when it has run to its end, and tasks are only thrown away by the  *)
(* step that destroys the scheduler or replaces it.                        *)
NothingLost ==
    /\ Posted \subseteq Posted'
    /\ \A th \in Busy : Released(th) => task[th] \in done'
    /\ dropped' # dropped => owner # "gone" /\ owner' = "gone"

(* A task handed to the scheduler is at any time in exactly one place,     *)
(* ready, waiting, on one worker, finished, or destroyed with the          *)
(* scheduler, and from the step that posts it on it is never in none:      *)
(* post() before start(), after request_stop() or between a stop and a     *)
(* restart (scheduler.cpp:27-34, 74) neither loses a task nor runs it      *)
(* twice.                                                                  *)
EachTaskInOnePlace == []OnePlace /\ [][NothingLost]_vars

(* A started scheduler does not run dry: while the guard is engaged no     *)
(* worker leaves, with or without tasks.                                   *)
StaysAlive ==
    guard /\ owner = "idle" =>
        \A w \in Slots : /\ slot[w] # None
                         /\ thread[slot[w]] \in {"created", "running", "busy"}

(* await_stop(), and the constructor, leave a scheduler that is inactive   *)
(* and counts no worker.                                                   *)
JoinedIsInactive ==
    Joined /\ owner = "idle" => ~Active /\ Inside = {}

(* The scheduler and its workers agree, in what either says of the other,  *)
(* from construction to destruction.                                       *)
LifecycleHolds == TypeOK /\ StaysAlive /\ JoinedIsInactive

(* Nothing runs after a stop: a task starts only between a start() and the *)
(* end of the next request_stop(), whatever was posted in between.         *)
NoStartAfterStop ==
    [][(\E th \in Threads : thread[th] = "running" /\ thread'[th] = "busy")
         => guard \/ owner \in {"guard", "stop"}]_vars

(* Once the scheduler is destroyed or replaced, no worker uses its context *)
(* or its counter: "@pre must not be active()" is all a move assignment    *)
(* asks for.                                                               *)
NoUseAfterDestroy == owner = "gone" => Inside = {}

(* A task that is ready runs to its end, unless the scheduler is not       *)
(* started or is stopped.                                                  *)
ReadyTasksRun ==
    \A t \in Tasks : (t \in Queued /\ guard) ~> (t \in done \/ ~guard)

(* Every call of the owner returns: start() gets its workers, await_stop() *)
(* and the destructor wait for the tasks that are running and no longer.   *)
CallsReturn == (owner # "idle") ~> (owner \in {"idle", "gone"})
=============================================================================
