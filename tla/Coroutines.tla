----------------------------- MODULE Coroutines -----------------------------
(***************************************************************************)
(* The coroutine layer of cth_coro: tasks, awaiters, promises, steal(),    *)
(* executor::spawn() and sync(), over a started scheduler taken as a set   *)
(* of worker threads and a bag of posted resumptions.                      *)
(*                                                                         *)
(* A root is one call sync(x).  Its coroutines are the frames <<r, kind>>: *)
(*   sync    the sync_task of sync() itself                                *)
(*   spawn   executor::spawn(), a scheduled_task                           *)
(*   hop     what await_transform() puts around the schedule_awaiter that   *)
(*           spawn() awaits, which counts as a foreign awaitable           *)
(*   task    the executor_task the user passed to spawn()                  *)
(*   child   an executor_task that task awaits                             *)
(*   steal   what await_transform() puts around a foreign awaitable        *)
(*   inner   what executor::steal() puts around one, inside spawn()        *)
(* Control moves from frame to frame on one thread; each thread has the    *)
(* stack of the frames it is running (more than one only where a coroutine *)
(* calls sync(), which blocks its thread).                                 *)
(***************************************************************************)
EXTENDS Naturals, FiniteSets, Sequences, SequencesExt

CONSTANTS
    Roots,      \* calls of sync()
    Clients,    \* threads of the program, none of the scheduler
    Workers,    \* the threads of the scheduler
    Foreigners, \* threads that resume what a foreign awaitable suspended
    Plans,      \* what may be passed to sync()
    MaxOps,     \* a bound: what the coroutines of the user await in one call
    MaxNested,  \* a bound: calls of sync() made by coroutines on workers
    None

ASSUME CoroutineAssumption ==
    /\ Plans \subseteq {"task", "foreign", "bare", "direct"}
    /\ MaxOps \in Nat
    /\ None \notin Roots \X {"sync", "spawn", "hop", "task", "child", "steal", "inner"}
    /\ None \notin {"signal", "notify"} \X Roots

Threads == Clients \cup Workers \cup Foreigners

Kinds == {"sync", "spawn", "hop", "task", "child", "steal", "inner"}

Frames == Roots \X Kinds

Kind(f) == f[2]

UserKind(f) == Kind(f) \in {"task", "child"}

(* The coroutines of steal(). *)
StealKind(f) == Kind(f) \in {"hop", "steal", "inner"}

VARIABLES
    frame,      \* each coroutine frame
    stack,      \* the frames each thread runs, the active one last
    posted,     \* frames posted to the scheduler
    timers,     \* frames waiting for a time point
    abroad,     \* frames a foreign awaitable suspended
    call,       \* each call of sync()
    notify      \* what a thread has yet to do to the fence of a root

vars == <<frame, stack, posted, timers, abroad, call, notify>>

places == <<posted, timers, abroad>>

(* st: where the frame is in its life; pc: where it is in its body; cont:  *)
(* promise.continuation; failed: promise.exception is set; pay: the        *)
(* this_coro payload is set; ops: awaits of a user's body so far.          *)
FrameState ==
    [st : {"none", "suspended", "running", "final", "destroyed"},
     pc : {"start", "resched", "scheduled", "body", "awaiting", "return"},
     cont : Frames \cup {None}, failed : BOOLEAN, pay : BOOLEAN, ops : 0 .. MaxOps]

CallState ==
    [st : {"new", "called", "returned", "threw"}, plan : Plans \cup {None},
     by : Threads \cup {None}, depth : Nat, fence : BOOLEAN]

TypeOK ==
    /\ frame \in [Frames -> FrameState]
    /\ \A t \in Threads : Range(stack[t]) \subseteq Frames
    /\ posted \cup timers \cup abroad \subseteq Frames
    /\ call \in [Roots -> CallState]
    /\ notify \in [Threads -> {"signal", "notify"} \X Roots \cup {None}]

Fresh == [st |-> "suspended", pc |-> "start", cont |-> None, failed |-> FALSE,
          pay |-> FALSE, ops |-> 0]

Init ==
    /\ frame = [f \in Frames |-> [Fresh EXCEPT !.st = "none"]]
    /\ stack = [t \in Threads |-> <<>>]
    /\ posted = {} /\ timers = {} /\ abroad = {}
    /\ call = [r \in Roots |-> [st |-> "new", plan |-> None, by |-> None,
                                depth |-> 0, fence |-> FALSE]]
    /\ notify = [t \in Threads |-> None]

-----------------------------------------------------------------------------
(* Threads.                                                                *)

(* The call of sync() thread t waits in: its own resume() of the sync      *)
(* frame has come back.                                                    *)
Waiting(t) ==
    {r \in Roots : /\ call[r].st = "called" /\ call[r].by = t
                   /\ call[r].depth = Len(stack[t])}

Idle(t) == stack[t] = <<>> /\ Waiting(t) = {} /\ notify[t] = None

(* Thread t executes the body of frame f, at pc. *)
Runs(t, f, pc) ==
    /\ stack[t] # <<>> /\ Last(stack[t]) = f
    /\ Waiting(t) = {}
    /\ notify[t] = None
    /\ frame[f].pc = pc

(* An idle thread resumes f. *)
Resume(t, f) == stack' = [stack EXCEPT ![t] = <<f>>]

(* The frame at the top of t's stack hands over to g by symmetric transfer. *)
Transfer(t, g) == stack' = [stack EXCEPT ![t] = Append(Front(@), g)]

(* f suspends to go on at pc, and t returns to whoever resumed f. *)
Return(t, f, pc) ==
    /\ stack' = [stack EXCEPT ![t] = Front(@)]
    /\ frame' = [frame EXCEPT ![f] = [frame[f] EXCEPT !.st = "suspended", !.pc = pc]]

(* Where a frame is that awaits g: spawn() has its task yet to await when  *)
(* it is on a thread of the scheduler.                                     *)
AwaitPc(g) == IF Kind(g) = "hop" THEN "scheduled" ELSE "awaiting"

(* Mutation: await_transform() injects no payload. *)
StartAwaitBare(t, f, g) ==
    /\ frame' = [frame EXCEPT
                   ![f] = [frame[f] EXCEPT !.st = "suspended", !.pc = AwaitPc(g),
                             !.ops = IF UserKind(f) THEN frame[f].ops + 1 ELSE frame[f].ops],
                   ![g] = [Fresh EXCEPT !.st = "running", !.cont = f,
                             !.pc = IF UserKind(g) THEN "body" ELSE "start"]]
    /\ Transfer(t, g)
    /\ UNCHANGED <<places, call, notify>>

(* co_await of a coroutine: f suspends as the continuation of g, and g     *)
(* starts on the same thread.  A task gets the payload of f, if f has one; *)
(* spawn() is constructed with its own.                                    *)
StartAwait(t, f, g) ==
    /\ frame' = [frame EXCEPT
                   ![f] = [frame[f] EXCEPT !.st = "suspended", !.pc = AwaitPc(g),
                             !.ops = IF UserKind(f) THEN frame[f].ops + 1 ELSE frame[f].ops],
                   ![g] = [Fresh EXCEPT !.st = "running", !.cont = f,
                             !.pay = \/ Kind(g) = "spawn"
                                     \/ UserKind(g) /\ frame[f].pay,
                             !.pc = IF UserKind(g) THEN "body" ELSE "start"]]
    /\ Transfer(t, g)
    /\ UNCHANGED <<places, call, notify>>

-----------------------------------------------------------------------------
(* sync().                                                                 *)

(* The coroutines the argument of sync() consists of. *)
Argument(plan) ==
    CASE plan = "task"    -> {"spawn", "task"}    \* sync(ex.spawn(task()))
      [] plan = "foreign" -> {"spawn"}            \* sync(ex.spawn(foreign))
      [] plan = "bare"    -> {}                   \* sync(foreign)
      [] plan = "direct"  -> {"task"}             \* sync(task())

(* The frame of the sync_task is made and resumed. *)
SyncCall(t, r, plan) ==
    /\ call[r].st = "new"
    /\ call' = [call EXCEPT ![r] = [st |-> "called", plan |-> plan, by |-> t,
                                    depth |-> Len(stack[t]), fence |-> FALSE]]
    /\ frame' = [f \in Frames |->
                   IF f = <<r, "sync">> THEN [Fresh EXCEPT !.st = "running"]
                   ELSE IF f[1] = r /\ Kind(f) \in Argument(plan) THEN Fresh
                   ELSE frame[f]]
    /\ stack' = [stack EXCEPT ![t] = Append(@, <<r, "sync">>)]
    /\ UNCHANGED <<places, notify>>

ClientSync(t, r, plan) == t \in Clients /\ Idle(t) /\ SyncCall(t, r, plan)

(* A task blocks its worker in sync(). *)
NestedSync(t, f, r, plan) ==
    /\ Runs(t, f, "body") /\ Kind(f) = "task"
    /\ t \in Workers
    /\ Cardinality({q \in Roots : call[q].by \in Workers}) < MaxNested
    /\ SyncCall(t, r, plan)

(* The sync_task awaits the argument. *)
SyncBody(t, f) ==
    /\ Runs(t, f, "start") /\ Kind(f) = "sync"
    /\ LET plan == call[f[1]].plan IN
       \/ /\ plan = "bare"
          /\ Return(t, f, "return")
          /\ abroad' = abroad \cup {f}
          /\ UNCHANGED <<posted, timers, call, notify>>
       \/ /\ plan # "bare"
          /\ StartAwait(t, f, <<f[1], IF plan = "direct" THEN "task" ELSE "spawn">>)

(* Mutation: signal() comes before the continuation is read. *)
FinalSyncSignalFirst(t, f) ==
    /\ Runs(t, f, "return") /\ Kind(f) = "sync"
    /\ frame' = [frame EXCEPT ![f].st = "final"]
    /\ stack' = [stack EXCEPT ![t] = Front(@)]
    /\ call' = [call EXCEPT ![f[1]].fence = TRUE]
    /\ notify' = [notify EXCEPT ![t] = <<"signal", f[1]>>]
    /\ UNCHANGED places

(* Final suspension of the sync_task: await_suspend() has read that there  *)
(* is no continuation ...                                                  *)
FinalSync(t, f) ==
    /\ Runs(t, f, "return") /\ Kind(f) = "sync"
    /\ frame' = [frame EXCEPT ![f].st = "final"]
    /\ stack' = [stack EXCEPT ![t] = Front(@)]
    /\ notify' = [notify EXCEPT ![t] = <<"signal", f[1]>>]
    /\ UNCHANGED <<places, call>>

(* Mutation: a sync_task that ends with an exception does not signal. *)
SignalOnSuccess(t, r) ==
    /\ notify[t] = <<"signal", r>>
    /\ call' = [call EXCEPT ![r].fence = ~frame[<<r, "sync">>].failed]
    /\ notify' = [notify EXCEPT ![t] = <<"notify", r>>]
    /\ UNCHANGED <<frame, stack, places>>

(* ... and signals: the exchange of fence::signal() ... *)
Signal(t, r) ==
    /\ notify[t] = <<"signal", r>>
    /\ call' = [call EXCEPT ![r].fence = TRUE]
    /\ notify' = [notify EXCEPT ![t] = <<"notify", r>>]
    /\ UNCHANGED <<frame, stack, places>>

(* ... and its notify_all(), which may find the fence destroyed. *)
Notify(t, r) ==
    /\ notify[t] = <<"notify", r>>
    /\ notify' = [notify EXCEPT ![t] = None]
    /\ UNCHANGED <<frame, stack, places, call>>

(* What goes with the frame of sync(): the argument is its parameter, and  *)
(* the task a parameter of spawn().  The frames of steal() do not: their   *)
(* handle was extracted by the awaiter.                                    *)
Owned(r) == {<<r, k>> : k \in {"sync", "spawn", "task"}}

DestroyAll(fs) ==
    frame' = [f \in Frames |-> IF f \in fs /\ frame[f].st # "none"
                                 THEN [frame[f] EXCEPT !.st = "destroyed"]
                                 ELSE frame[f]]

(* sync_task::await(): the fence is signaled; rethrow or return the result. *)
SyncReturn(t, r) ==
    /\ r \in Waiting(t) /\ notify[t] = None
    /\ call[r].fence
    /\ call' = [call EXCEPT ![r].st = IF frame[<<r, "sync">>].failed THEN "threw" ELSE "returned"]
    /\ DestroyAll(Owned(r))
    /\ UNCHANGED <<stack, places, notify>>

-----------------------------------------------------------------------------
(* spawn() and steal().                                                    *)

(* Mutation: the awaiter is always ready. *)
StayHere(t, f, pc) ==
    /\ frame' = [frame EXCEPT ![f].pc = pc]
    /\ UNCHANGED <<stack, places, call, notify>>

(* co_await schedule_awaiter: nothing to do on a thread of the scheduler,  *)
(* otherwise the frame is posted, to go on at pc.                          *)
Schedule(t, f, pc) ==
    IF t \in Workers
    THEN /\ frame' = [frame EXCEPT ![f].pc = pc]
         /\ UNCHANGED <<stack, places, call, notify>>
    ELSE /\ Return(t, f, pc)
         /\ posted' = posted \cup {f}
         /\ UNCHANGED <<timers, abroad, call, notify>>

(* spawn() awaits s.schedule(), through await_transform() of its promise.  *)
SpawnSchedule(t, f) ==
    /\ Runs(t, f, "start") /\ Kind(f) = "spawn"
    /\ StartAwait(t, f, <<f[1], "hop">>)

SpawnAwait(t, f) ==
    /\ Runs(t, f, "scheduled") /\ Kind(f) = "spawn"
    /\ StartAwait(t, f, <<f[1], IF call[f[1]].plan = "task" THEN "task" ELSE "steal">>)

(* steal() awaits what was stolen: the schedule_awaiter of spawn(), the    *)
(* steal() that spawn() got from executor::steal(), or an awaitable that   *)
(* suspends it on a foreign thread.                                        *)
StealAwait(t, f) ==
    /\ Runs(t, f, "start") /\ StealKind(f)
    /\ \/ Kind(f) = "hop" /\ Schedule(t, f, "resched")
       \/ /\ Kind(f) = "steal" /\ Kind(frame[f].cont) = "spawn"
          /\ StartAwait(t, f, <<f[1], "inner">>)
       \/ /\ Kind(f) # "hop" /\ Kind(frame[f].cont) # "spawn"
          /\ Return(t, f, "resched")
          /\ abroad' = abroad \cup {f}
          /\ UNCHANGED <<posted, timers, call, notify>>

(* Mutation: steal() does not wait until it is on a thread of the          *)
(* scheduler before it returns.                                            *)
StealSchedulePosted(t, f) ==
    /\ Runs(t, f, "resched") /\ StealKind(f)
    /\ frame' = [frame EXCEPT ![f].pc = "return"]
    /\ posted' = IF t \in Workers THEN posted ELSE posted \cup {f}
    /\ UNCHANGED <<stack, timers, abroad, call, notify>>

StealSchedule(t, f) ==
    /\ Runs(t, f, "resched") /\ StealKind(f)
    /\ Schedule(t, f, "return")

-----------------------------------------------------------------------------
(* Coroutines of the user.                                                 *)

UserBody(t, f) == UserKind(f) /\ Runs(t, f, "body")

Ops(r) == frame[<<r, "task">>].ops + frame[<<r, "child">>].ops

(* co_await this_coro::wait(d) for a time that has not come yet. *)
UserWait(t, f) ==
    /\ UserBody(t, f) /\ Ops(f[1]) < MaxOps
    /\ stack' = [stack EXCEPT ![t] = Front(@)]
    /\ frame' = [frame EXCEPT ![f] = [frame[f] EXCEPT !.st = "suspended", !.ops = frame[f].ops + 1]]
    /\ timers' = timers \cup {f}
    /\ UNCHANGED <<posted, abroad, call, notify>>

(* co_await of an executor_task, or of a foreign awaitable. *)
UserAwait(t, f, g) ==
    /\ UserBody(t, f) /\ Ops(f[1]) < MaxOps
    /\ Kind(g) = "child" => Kind(f) = "task"
    /\ frame[g].st = "none"
    /\ StartAwait(t, f, g)

(* How sync() and spawn() go on after an await. *)
NextPc(pc) == IF pc = "scheduled" THEN "scheduled" ELSE "return"

(* Mutation: the result is taken without looking at the exception. *)
ContinueNoRethrow(failed, g, caught) ==
    CASE UserKind(g) -> [frame[g] EXCEPT !.st = "running", !.pc = "body"]
      [] Kind(g) = "steal" -> [frame[g] EXCEPT !.st = "running", !.pc = "resched"]
      [] OTHER -> [frame[g] EXCEPT !.st = "running", !.pc = NextPc(frame[g].pc)]

(* await_resume() in the continuation g of f: the exception of f is thrown *)
(* again.  A user's body may catch it; sync(), spawn() and steal() do not, *)
(* so that steal() misses its reschedule.                                  *)
Continue(failed, g, caught) ==
    LET thrown == failed /\ ~caught
    IN  [frame[g] EXCEPT !.st = "running", !.failed = thrown,
            !.pc = IF thrown THEN "return" ELSE IF UserKind(g) THEN "body"
                   ELSE IF Kind(g) = "steal" THEN "resched" ELSE NextPc(frame[g].pc)]

(* Final suspension of a coroutine other than sync()'s: control goes to    *)
(* its continuation.  A child is a temporary of the expression that        *)
(* awaited it and goes with it.                                            *)
Finish(t, f, failed, caught) ==
    LET g == frame[f].cont IN
    /\ caught => failed /\ UserKind(g)
    /\ frame' = [frame EXCEPT
                   ![f] = [frame[f] EXCEPT
                             !.st = IF Kind(f) = "child" THEN "destroyed" ELSE "final",
                             !.failed = failed],
                   ![g] = Continue(failed, g, caught)]
    /\ Transfer(t, g)
    /\ UNCHANGED <<places, call, notify>>

(* co_return, or an exception that leaves the body. *)
UserReturn(t, f, throws, caught) == UserBody(t, f) /\ Finish(t, f, throws, caught)

Complete(t, f, caught) ==
    /\ Runs(t, f, "return") /\ Kind(f) # "sync"
    /\ Finish(t, f, frame[f].failed, caught)

-----------------------------------------------------------------------------
(* The scheduler and the world outside.                                    *)

WorkerTakes(t, f) ==
    /\ t \in Workers /\ Idle(t)
    /\ f \in posted
    /\ posted' = posted \ {f}
    /\ Resume(t, f)
    /\ frame' = [frame EXCEPT ![f].st = "running"]
    /\ UNCHANGED <<timers, abroad, call, notify>>

TimerFires(f) ==
    /\ f \in timers
    /\ timers' = timers \ {f}
    /\ posted' = posted \cup {f}
    /\ UNCHANGED <<frame, stack, abroad, call, notify>>

(* A foreign awaitable is done, and resumes the frame on its own thread. *)
ForeignResumes(t, f, throws) ==
    /\ t \in Foreigners /\ Idle(t)
    /\ f \in abroad
    /\ abroad' = abroad \ {f}
    /\ Resume(t, f)
    /\ frame' = [frame EXCEPT ![f] = [frame[f] EXCEPT !.st = "running", !.failed = throws,
                                        !.pc = IF throws THEN "return" ELSE frame[f].pc]]
    /\ UNCHANGED <<posted, timers, call, notify>>

-----------------------------------------------------------------------------

(* A step of thread t that is not the user's choice to make. *)
Step(t) ==
    \/ \E f \in Range(stack[t]) :
         \/ SyncBody(t, f) \/ FinalSync(t, f)
         \/ SpawnSchedule(t, f) \/ SpawnAwait(t, f)
         \/ StealAwait(t, f) \/ StealSchedule(t, f)
         \/ \E throws, caught \in BOOLEAN : UserReturn(t, f, throws, caught)
         \/ \E caught \in BOOLEAN : Complete(t, f, caught)
    \/ \E f \in posted : WorkerTakes(t, f)
    \/ \E f \in abroad, throws \in BOOLEAN : ForeignResumes(t, f, throws)
    \/ \E r \in Roots : Signal(t, r) \/ Notify(t, r) \/ SyncReturn(t, r)

UserChoice(t) ==
    \/ \E r \in Roots, plan \in Plans :
         \/ ClientSync(t, r, plan)
         \/ \E f \in Range(stack[t]) : NestedSync(t, f, r, plan)
    \/ \E f \in Range(stack[t]) :
         UserWait(t, f) \/ \E k \in {"child", "steal"} : UserAwait(t, f, <<f[1], k>>)

Next ==
    \/ \E t \in Threads : Step(t) \/ UserChoice(t)
    \/ \E f \in timers : TimerFires(f)

Spec == Init /\ [][Next]_vars

(* Threads run, timers fire, foreign awaitables finish and the bodies of   *)
(* the user end; nobody has to call sync() or to await anything.           *)
FairSpec == Spec /\ WF_vars(\E f \in timers : TimerFires(f))
                 /\ \A t \in Threads : WF_vars(Step(t))

-----------------------------------------------------------------------------
(* Properties.                                                             *)

(* executor_test.cpp "interop_steal": code of an executor runs on the      *)
(* threads of its scheduler, wherever its awaitables finish -- unless one  *)
(* of them threw, in which case steal() does not come back.                *)
ExecutorCodeOnWorkers ==
    \A t \in Threads, f \in Frames :
        /\ stack[t] # <<>> /\ Last(stack[t]) = f
        /\ \/ Kind(f) \in {"task", "child"}
           \/ Kind(f) = "spawn" /\ frame[f].pc # "start"
        => t \in Workers \/ frame[<<f[1], "steal">>].failed

Live(f) == frame[f].st \in {"suspended", "running"}

AwaitedBy(f) == {g \in Frames : frame[g].cont = f /\ Live(g)}

(* The resumptions of f that are to come: from the scheduler, a timer, a   *)
(* foreign thread or a coroutine that it awaits.                           *)
Due(f) == Cardinality({p \in 1 .. 3 : f \in places[p]}) + Cardinality(AwaitedBy(f))

(* Every frame that is suspended has exactly one resumption to come (or    *)
(* none, if it has not started); one that runs is on one thread only and   *)
(* has none.                                                               *)
OneResumption ==
    \A f \in Frames :
        LET on == Cardinality({t \in Threads : f \in Range(stack[t])}) IN
        CASE frame[f].st = "running" -> on = 1 /\ Due(f) = 0
          [] frame[f].st = "suspended" /\ frame[f].pc # "start" -> on = 0 /\ Due(f) = 1
          [] OTHER -> on = 0 /\ Due(f) = 0

(* No thread, queue or continuation still refers to a frame that was       *)
(* destroyed: sync() destroys the frames of its call only once all of them *)
(* are at their final suspension, and final_sync_awaiter is done with the  *)
(* frame when it signals.  (The thread in notify_all() is not: it is the   *)
(* one access fence::signal() makes too late.)                             *)
NoDanglingFrame ==
    LET dead == {f \in Frames : frame[f].st = "destroyed"} IN
    /\ \A t \in Threads : Range(stack[t]) \cap dead = {}
    /\ \A t \in Threads, r \in Roots : notify[t] = <<"signal", r>> => <<r, "sync">> \notin dead
    /\ (posted \cup timers \cup abroad) \cap dead = {}
    /\ \A f \in Frames : Live(f) => frame[f].cont \notin dead

(* After sync() has returned the frames of its call are destroyed, all but *)
(* those of steal(), which nobody destroys any more: every spawn() leaves  *)
(* the one it awaited to get onto a worker.                                *)
OnlyStealLeaks ==
    \A f \in Frames :
        call[f[1]].st \in {"returned", "threw"} /\ frame[f].st # "none"
        => \/ frame[f].st = "destroyed"
           \/ StealKind(f) /\ frame[f].st = "final"

(* A frame lives as long as somebody refers to it, and no longer than its  *)
(* call but for steal().                                                   *)
FrameLifetimes == TypeOK /\ NoDanglingFrame /\ OnlyStealLeaks

(* "this coro supporting awaitables may not be awaited by awaitables       *)
(* without support": a task never runs without the payload it hands to its *)
(* awaitables.                                                             *)
PayloadInjected ==
    \A f \in Frames : Kind(f) \in {"task", "child"} /\ frame[f].st = "running"
                        => frame[f].pay

(* An exception nobody caught reaches the caller of sync(), and the caller *)
(* gets one only if a coroutine of the call, or what it awaited, threw.    *)
NoExceptionLost ==
    \A r \in Roots :
        /\ call[r].st = "returned" => \A k \in {"spawn", "task"} : ~frame[<<r, k>>].failed
        /\ call[r].st = "threw" /\ call[r].plan # "bare" =>
              \E k \in {"task", "steal"} : frame[<<r, k>>].failed

(* Every call of sync() returns, on a client's thread and on a worker, as  *)
(* long as a worker is left to run what it waits for.                      *)
SyncReturns == \A r \in Roots : call[r].st = "called" ~> call[r].st \in {"returned", "threw"}
=============================================================================
