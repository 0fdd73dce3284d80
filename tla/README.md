# A verification project for cth

`cth` is a C++23 utility library. Most of it is templates and thin wrappers; its
own logic sits in a coroutine runtime (scheduler, executor, awaiters, fences), a
few containers and allocators (ring allocator, offset allocator, pool,
union-find, untyped vector), a console and a log, matching algorithms, and a
Windows part with a keyboard hook, timers, screen sections, windows and
processes. This directory holds TLA+ models of that logic, the TLC runs that
check them and the theorems proved about them with TLAPS.

## 1. Inventory

Paths are relative to `src/`.

| component | source | state | operations | what makes it correct |
|---|---|---|---|---|
| ring allocator | `cth/incl/cth/data/ringalloc.hpp` | atomic head and tail positions | `alloc`, `free`, `max_alloc` from any thread, lock-free | live allocations never overlap; frees are cumulative and never lost; empty answers are justified |
| offset allocator | `cth/incl/cth/data/miniram.hpp`, `inl/miniram.inl` | node table, stack of free node ids, size-class bins and their bitmaps | `allocate`, `free`, `clear`, `defragment`, `resize`, `max_alloc`, `free_regions` | blocks partition the storage; neighbours coalesce; node ids are handed out once |
| scheduler | `cth_coro/incl/cth/coro/scheduler.hpp`, `src/coro/scheduler.cpp` | asio io_context, work guard, worker threads, active count | `start`, `post`, `await`, `request_stop`, `await_stop`, move, destroy | every posted task runs once, on a worker; nothing starts after a stop; restart loses nothing |
| coroutines | `cth_coro/incl/cth/coro/tasks`, `awaiters`, `promises`, `func`, `executor.hpp`, `sync.hpp`, `this_coro` | frames, continuations, injected payload | await, resume, final suspend, `spawn`, `steal`, `sync` | an executor's code runs on its workers; each continuation is resumed exactly once; frames are destroyed once and not used after |
| fence | `cth/incl/cth/coro/fence.hpp` | atomic flag | `signal`, `force_signal`, `reset`, `wait`, move, destroy | no lost wake-up |
| global switch | `cth/incl/cth/coro/global_switch.hpp` | atomic counter | `acquire`, `release`, `force_off` | the switched state agrees with the counter |
| keyboard hook | `cth_win/src/cth/win/io/keyboard.cpp`, `incl/cth/win/io/keyboard.hpp` | queues of subscribers, hook thread, its id | `subscribe`, `unsubscribe`, `push_event`, `start_hook`, `stop_hook` | the hook runs while somebody subscribes; nobody misses an event; stopping terminates |
| keys | `cth/incl/cth/io/keybd/keys.hpp`, `cth_win/incl/cth/win/io/win_key_convert.hpp` | none | both conversions | what is sent is heard |
| console, log | `cth/incl/cth/io/console.hpp`, `io/log.hpp` | stack of text states and a cached escape sequence; one pending report | push, pop, toggle, print; `msg`, the log macros | text shows in its state; a failure is reported once, with its details |
| object pool | `cth/incl/cth/data/pool.hpp` | storage, inactive stack | `append_range`, `acquire`, `release`, `clear` | an object has one user at a time |
| timer pool | `cth_coro/src/coro/utility/timer_pool.hpp`, `cth_win/src/cth/win/coro/timer.cpp` | pool of waitable timers under a mutex | `set` and its completion | a timer serves one wait at a time; no callback is early |
| union-find | `cth/incl/cth/data/union_find.hpp` | parent array | `find`, `merge`, `merge(group)`, queries | the partition is what the merges ask for |
| untyped vector | `cth/incl/cth/data/poly_vector.hpp` | raw buffer | construct, copy, move, swap, assign, destroy | every buffer has one owner |
| algorithms | `cth/incl/cth/algorithm/combine.hpp` and beside it | locals of a search | `assign`, `unique_combine` | an assignment is found exactly if there is one, and it spreads |
| screen | `cth_win/src/cth/win/screen.cpp`, `incl/cth/win/screen.hpp` | a section's rectangle and GDI objects; the thread's DPI awareness | read, write, move a section, `create_window` | a blit reads and writes the part it names and restores the thread's awareness (it does not, section 5) |
| window types | `cth_win/incl/cth/win/win_types.hpp`, `src/cth/win/win_types.cpp` | window class and window of a `window_t` | construct, move, assign, destroy | a class has one owner and is unregistered by it |
| processes | `cth_win/src/cth/win/proc.cpp` | none | `enumerate`, `find`, `active`, `count`, `name` | the search misses no process that ran throughout |
| ownership types | `cth/incl/cth/ptr/*`, `data/optional.hpp`, `coro/unique_cohandle.hpp` | one handle or value | move, release, reset, destroy | released once |
| pure helpers | `cth/incl/cth/numeric.hpp`, `string*`, `meta/*`, `hash/*`, `enums.hpp`, `chrono.hpp` | none | conversions | agree with their definitions |
| other Windows wrappers | `cth_win` (`cmd`, `io`, `string`, `coro/wait`) | OS handles | single calls | errors reported |
| module build | `cth_cthm` | none | the headers again as C++20 modules | same as the headers |

How the parts interact: the scheduler owns an asio `io_context` and the worker
threads; coroutine awaiters `post` or `await` on it and so decide on which
thread code continues; `sync` blocks a thread on a fence inside a coroutine
frame; the scheduler's `await` takes timers from the timer pool, which is an
object pool under a mutex; the keyboard hook starts and stops its thread from
the callbacks of a global switch and converts keys both ways; the log writes
through the console's colored stream; `create_window` hands its class to a
`window_t`. The other containers and algorithms stand alone.

What is hard here:

* interleavings of lock-free code: `ring_alloc`, `global_switch`, `fence`;
* life cycles of threads: a scheduler that is stopped, joined, restarted, moved
  or destroyed while workers start, run and leave; the same for the hook thread;
* who owns a coroutine frame while two threads use it (`sync`, final awaiters),
  and where an exception goes;
* long sequences of legal calls on linked structures in arrays: `miniram`'s
  node table, chain, bins, bitmaps and node stack must agree after every one;
  the forest of union-find; the cache beside the stack of text states;
* who owns what after moves and assignments: buffers, window classes, timers;
* arithmetic at boundaries: unsigned differences of positions, size classes, an
  array of process ids that fills exactly.

Nothing is persisted and nothing is sent over a network, so there are no crashes
and restarts and no lost messages to model. `PROJECT.json` lists the hazards
line by line, with the properties that cover each or the reason why none does.

## 2. Modules

| module | what it is | source |
|---|---|---|
| `Regions` | abstract: an allocator of contiguous regions with cumulative frees | - |
| `RingAlloc` | `ring_alloc`, one action per atomic access | `ringalloc.hpp` |
| `RingAllocFailure` | the same with a history variable: when is an empty answer justified? | `ringalloc.hpp` |
| `GlobalSwitch` | the counter and its callbacks | `global_switch.hpp` |
| `Scheduler` | owner, worker threads, posters and the external `io_context` | `scheduler.hpp`, `scheduler.cpp` |
| `BlockAllocator` | abstract: a good-fit allocator that sees only the blocks clients hold | - |
| `MiniramBins` | the size classes, and what they should be | `miniram.inl:11-58` |
| `Miniram` | `allocate`, `free`, `reserve_allocations` on the whole object | `miniram.inl` |
| `MiniramDefrag` | `clear`, `defragment`, `resize`, `to_disjunct_copies` beside them | `miniram.inl` |
| `Coroutines` | frames, threads and awaiters over a started scheduler | `cth_coro/incl/cth/coro` |
| `Fence` | waiters and signalers on one futex | `fence.hpp` |
| `KeyboardHook` | queues, hook manager and hook thread over `GlobalSwitch` | `keyboard.cpp`, `keyboard.hpp` |
| `Keys` | both conversions of every key | `keys.hpp`, `win_key_convert.hpp` |
| `Console`, `Logging` | `col_stream`; `log::msg` on it and the log macros | `console.hpp`, `log.hpp` |
| `UnionFind` | the forest beside the partition asked for | `union_find.hpp` |
| `PolyVector` | which vector owns which buffer | `poly_vector.hpp` |
| `Pool`, `TimerPool` | the object pool; the timer pool that extends it | `pool.hpp`, `timer_pool.hpp`, `timer.cpp` |
| `Assignment` | `assign` and `unique_combine`, turn by turn | `combine.hpp` |
| `Screen` | sections, blits and DPI awareness | `screen.cpp`, `screen.hpp` |
| `WindowClasses` | `create_window` and the life of a `window_t` | `screen.cpp`, `win_types.*` |
| `Processes` | the search by name among processes that come and go | `proc.cpp` |
| `Windows` | those three together: `WindowsPartHolds` | - |
| `MCLibrary` | the components above that do not touch each other, side by side | - |
| `MC*` | instances for TLC: symmetry sets, views, model values | |
| `RingAllocProofs`, `SchedulerProofs`, `CoroutinesProofs` | theorems about one module each | |
| `KeyboardHookProofs` | about `GlobalSwitch` and `KeyboardHook` | |
| `LoggingProofs` | about `Console` and `Logging` | |
| `ContainersProofs` | about `Pool`, `TimerPool`, `PolyVector`, `UnionFind`, `Assignment` | |
| `WindowsProofs` | about `Screen`, `WindowClasses`, `Processes`, `Windows` | |
| `MiniramProofs` | about `MiniramBins`, `Miniram` and its refinement of `BlockAllocator`, `MiniramDefrag` | |

`RingAllocFailure` extends `RingAlloc`; `Miniram` extends `MiniramBins` and
instantiates `BlockAllocator`; `MiniramDefrag` extends `Miniram`;
`KeyboardHook` extends `GlobalSwitch` and `Keys`; `Logging` extends `Console`;
`TimerPool` extends `Pool`; `Windows` extends `Screen`, `WindowClasses` and
`Processes`. Definitions whose comment begins with "Mutation:"
are deliberately wrong variants of the definition that follows them. They are
part of no specification; each shows that a property notices the bug it is for.

### Correspondence with the code

**RingAlloc.** `head`, `tail` are `_head`, `_tail`. A thread's `pc` says which
atomic access it is about to make: `alloc` loads `_head` (`AllocCall`), loads
`_tail` and checks the space (`AllocLoadTail`), and compares and exchanges
(`AllocCommit`, or `AllocRetry`, which includes the spurious failure of the weak
exchange); `free` loads `_tail` (`FreeCall`), and compares and exchanges until
it wins (`FreeCommit`, `FreeRetry`) or is superseded (`FreeSuperseded`). `seen`
and `arg` are the call's locals, reset when it returns. `held` are the
allocations handed out and not yet passed to `free`, `released` the highest
token passed to it: both exist only for the properties. Atomic accesses are
taken as sequentially consistent. Both exchanges are read-modify-write and so
always see the latest value; what weaker orders add is a load of `_tail` that is
older than today's, which makes the check of the space stricter. Safety does not
depend on it; whether an empty answer is justified does, and there the model says
only what happens without such delays. Positions never reach 2^64 in a run (`Word` is far above `MaxPos`); the
subtraction of line 73 is modulo `Word`, since it can go below zero.

**GlobalSwitch.** `Acquire`/`Release` are the atomic step, `TurnedOn`/`TurnedOff`
the end of the callback the step decided on. A client is one acquisition; a
thread with several is several clients. `on` is which callback ran last.
`force_off` is three steps: the check, the callback, the store of 0. With
`Exclusive` it runs alone, as it does in the destructor; without, beside others.

**Scheduler.** `slot` are the jthreads of `_workers`, `thread` the OS threads,
`active` the shared counter, `guard` the work guard. `Start`, `EngageGuard`,
`CreateWorker`, `StoreWorker` are the statements of `start`; `RequestStop`,
`StopContext` those of `request_stop`; `Join`, `AwaitStopReturn` the loop of
`await_stop`; `Destroy` the end of the destructor; `MoveAssign` a move
assignment, whose members are assigned in their order of declaration. `Enter`
and `Exit` are the worker function around `ctx.run()`. The `io_context` is
external, modelled by what its documentation says and this code relies on: a
queue of handlers, a stopped flag, and outstanding work whose end stops it. A
task stands for a handler and can be posted or awaited once. `JoinFirst` states
that `start` is called only after the last workers have left: nothing in the
repository calls it otherwise, and what it does otherwise is a listed hazard.

**Miniram.** The class is sequential, so an action is a whole call, composed of
operators that follow the member functions. `ram` is the object: `node`, `bin`,
the bitmaps `leaf` and `top` as sets of the bits that are set, `freeNodes` and
`ptr` the stack of ids, `free` the count of free elements. `failed` is set where
a `CTH_CRITICAL` would end the program and by reads outside an array. `live` is
what clients hold. Float classes are computed by the bit arithmetic of the code.
In `MiniramDefrag`, `report` keeps the last report with the allocations it was
about, and clients follow it. `clear` refills a table that, after construction,
is already as large as it asks for: the constructor exchanged `_maxAllocs` for 0.

**Coroutines.** The scheduler is taken as workers and a bag of posted frames: a
started scheduler, as `Scheduler` shows it. A root is one call of `sync`; its
frames are `sync`'s own task, `spawn`'s lazy task, the user's task, a task that
one awaits, and three frames of `steal`: around a foreign awaitable of the user,
around one passed to `spawn`, and `hop`. `spawn` awaits `schedule()`, and its
promise's `await_transform` takes the awaiter for a foreign awaitable and wraps it
in `steal` like any other (`this_coro_promise_base.hpp:46-49`): it is `hop` that is
posted, `spawn` goes on when `hop` ends, and nobody destroys `hop`. A thread has a stack of the frames it
runs; symmetric transfer replaces the top, `sync` on a worker pushes. What a
coroutine does between two suspensions is one action. The awaiters follow the
code: `final_awaiter` resumes the continuation on the same thread. That of `sync`
reads that there is none (`FinalSync`), exchanges the flag of the fence (`Signal`)
and notifies (`Notify`), each in a step of its own: from the exchange on the frame,
with the fence in it, may be destroyed;
a task awaiter injects the payload and destroys the frame it owns; a wait posts
or arms a timer; a foreign awaitable is wrapped by `steal` and resumed by a
thread of another library, or throws.

**Fence.** `atomic::wait` sleeps only if the value is still unsignaled and looks
again when woken; `signal` is an exchange and, if it changed the value, a
notification in a step of its own.

**KeyboardHook.** A queue's constructor and destructor are subscription and
unsubscription with the acquire and release of the switch in their steps;
`start_hook` and `stop_hook` are its callbacks. The hook thread registers,
publishes its id, takes `WM_INPUT` messages and pushes each event to every queue under
the mutex. Where a start and a stop of one `std::jthread` overlap, which the
language leaves undefined, the behaviour ends (`Raced`).

**Console, Logging.** A stream is a record and its member functions operators
from stream to stream; `out` pairs each text with the codes before it and the
state its caller asked for. A macro's expression is evaluated twice, each time
with whatever value it has then; the `LogObj` reports from its destructor.

**UnionFind, Pool, TimerPool, PolyVector.** One action per call. `partition`,
`acquired`, `dropped` say what clients expect and exist for the properties. A
timer's `set` is split where the mutex is released and where Windows is called.
The loop of `find`, which follows parents and sets each to its grandparent, is in
closed form: `Above(parents, i, k)` is the node k steps up, `RootOf` the first that
is its own parent, `Halved` the forest in which each node on an even step of the
path has its grandparent.

**Assignment.** One action per turn of the loops: raise the level, take the next
a from the queue, look at its next option, flip the path found, give up. The a
whose options are looked at stays at the head of `queue` until `NextInQueue`. The
options of an a are a list from `OptionLists`, a constant; a list may name an
option twice.

**Screen, WindowClasses, Processes.** Windows is a few variables: the objects
selected and deleted, the awareness of the thread, the registered classes, the
processes that run. Every call that may fail does so in an action or a disjunct
of its own. `Launch` and `Terminate` are other programs. A DPI awareness context is
a constant (`Constant`) or the opaque handle that Windows returns for one
(`Returned`): `from_win` compares with `==` and finds no handle among the
constants. Where a blit reads and writes are the numbers handed to Windows;
`screen.hpp:230` has a `TODO figure out why writes are not visible on screen`, and
no property says that they are.

**MCLibrary.** `active` names the component of a behaviour; the others rest in
one initial state. They share no variable, so the behaviours are exactly those
of the components.

## 3. Runs

| run | expectation | what it shows |
|---|---|---|
| `ring_alloc` | pass | 3 threads, 4 bytes: no overlap, no free lost, `max_alloc` exact, implements `Regions`, empty answers justified unless `_head` was overtaken |
| `ring_alloc_empty` | violation | an overtaken `alloc` answers empty on an empty ring |
| `global_switch_settled` | violation | after `off()` and `on()` cross, an acquisition is outstanding and the state is off |
| `scheduler` | pass | 2 workers, 3 threads, 3 tasks: no task in two places and none taken out of all, nothing starts after a stop, liveness under fair threads |
| `scheduler_move` | violation | an inactive scheduler may still have workers, and a move assignment pulls the context from under them |
| `miniram` | pass | every order of calls on 7 elements: structure consistent, implements `BlockAllocator` |
| `miniram_report` | pass | the first `clear`, `defragment` or `resize` after any use: the reported moves and their disjunct copies carry the data |
| `miniram_defrag_ids` | violation | `defragment` pops the id of a live allocation |
| `miniram_clear` | violation | `clear` after unordered frees hands out an id twice |
| `coroutines` | pass | two calls of `sync`, from a client thread or nested on a worker: code on its threads, one resumption, frames alive and none leaked but those of `steal`, exceptions delivered, `sync` returns |
| `library` | pass | fourteen components, one per behaviour, keep what each promises |
| `union_find_group` | violation | `merge(group)` takes a member out of its set |

The violations are findings in `PROJECT.json`, each with the line of code and
the line of documentation it contradicts. All other properties hold.

Some properties are conjunctions of named parts, which the modules comment one
by one: `LifecycleHolds` (types, a started scheduler keeps its workers, a joined
one is inactive), `WellFormed` (the stack of ids, the chain of neighbours, the
bins and their bitmaps, the counters of `miniram`), `AllocatableExact` (with
`RefusedOnlyWithoutFit`), `StorageRearranged` (moves, copies, compaction, clear),
`FrameLifetimes` (types, no dangling frame, only `steal` leaks) and
`WindowsPartHolds` (`SectionsSound`, `ClassesOwned`, `SearchComplete`).
`EachTaskInOnePlace` is about states and steps: the places of the tasks are
disjoint (`OnePlace`), and no step takes a posted task out of all of them, makes a
worker let go of one that has not run, or throws one away but in the destruction of
the scheduler (`NothingLost`).

### Bounds, and why they are enough

* `RingAlloc`: `Size = 4`, requests of 1, 2, 3 and 5 (more than the buffer), `MaxPos = 5`
  (no call starts with `head` beyond it). The head passes the end of the buffer,
  with and without padding, while older allocations live; requests fit exactly,
  wrap, and do not fit. Three threads allow two racing frees beside an alloc. The
  theorems hold for all sizes and threads.
* `GlobalSwitch`: four clients are one in each of the states a client has. The
  theorems hold for all finite sets.
* `Scheduler`: two workers show every race between workers; a third thread is
  what a `start` over an old worker needs; three tasks fill both workers and the
  queue.
* `miniram`: `MantissaBits = 1` gives classes 0, 1, 2, 3, 4, 6, 8, ..., so that
  7 elements already need rounding in both directions; requests of 0, 1, 2, 5;
  at most 7 nodes, which includes one growth of the table, 3 + 1 to 7. With it,
  every list operation (head, middle, last) and every merge (left, right, both,
  none) occurs. Two bitmap levels are in use.
* `miniram_report`: `MantissaBits = 3` as in the code, 43 elements, requests
  of 7, 8 and 17 on both sides of `MANTISSA_VALUE` and of a class boundary, one
  maintenance call. Data of different allocations is told apart cell by cell.
  Resizes to less than the allocations may occupy, and to more.
* Views: `allocate` and `free` treat ids as mere names, so `MCMiniram` identifies
  states that differ by a renaming of ids. The renaming keeps the order of the
  node stack and every list. What it leaves out is only what is written before
  it is read: array entries below the stack pointer, nodes on the stack, and the
  list links of a block in use. After `clear` or `defragment` the entries below
  the pointer are read again, and the views of `MCMiniramDefrag` stop hiding
  anything (`FullView`), or the behaviour ends there (`OnceView`).
* `ring_alloc` uses a symmetry set of threads; it checks no liveness. Runs with
  liveness use none.
* `coroutines`: one client thread, two workers and one foreign thread; two calls
  of `sync`, of which one may be made by a coroutine on a worker (`MaxNested`).
  With as many such calls as workers `sync` need not return (section 5). Each
  call may run a task, which awaits up to two things (`MaxOps`): a task, a wait,
  a foreign awaitable, `sync`; or a call passes a foreign awaitable, through
  `spawn` or bare. That is every pair of awaits that can follow each other.
* `library`: two queues and two key presses (one with a right-hand key, one
  without a code that leads back) for a stop and restart while another queue
  comes; every key for the conversions; one text state above the base of the stack, which is pushed,
  popped, cleared and toggled in any order; two waiters, two signalers, two handles of a fence; four
  elements and groups of two and three, in any order of merges and finds; three vectors and four allocations; three objects and three
  calls of the timer pool; three a's with every list of options over three b's, and maxima with
  0 among them; sections at four places on monitors of three scales; three windows of two
  classes; three processes and an array of one slot, doubled twice.

### Fairness

`scheduler`: `FairSpec` has weak fairness for each worker thread and for the
calls the owner has begun: the operating system schedules every runnable thread,
and tasks return. There is none for `Post`, `Await`, `Fire`, `Start`,
`RequestStop`: nobody must use the scheduler and events need not fire.
`ReadyTasksRun` says that a task that is ready runs unless the scheduler is
stopped; `CallsReturn` that `start`, `await_stop` and the destructor return.

`coroutines`: weak fairness for every thread, the foreign ones included, and for
the timers: time passes, and a foreign library resumes what it took. A thread
blocked in `sync` takes no step until its fence is signaled.

`library`: weak fairness for the hook thread, for each call of a queue once it
is begun, for a waiter that is awake and for a signaler on its way to notify. No
fairness for key presses, signals or resets.

Runs with `CHECK_DEADLOCK FALSE` may stop for good: the ring's head reaches its
bound, a scheduler or fence is destroyed, a budget is spent, all calls have
returned.

## 4. Proofs

`RingAllocProofs`, for every set of threads, buffer and request sizes, from
`RingAllocAssumption` (a word is much larger than the buffer, requests are at
most twice the buffer). `NoOverlap` is not inductive: that two allocations are
disjoint follows from positions, not from bytes. `IndInv` adds that

* `tail <= released <= head <= tail + Size` (`WindowBounded`);
* a thread that found room and whose head is still current has room now: the
  tail only grows (`ThreadInv`);
* every allocation ends at its token, at or below the head, and starts at the
  byte its position stands for (`HeldInv`);
* allocations do not intersect as intervals of positions (`OrderedInv`);
* what is released and not yet below the tail is some running `free`'s
  (`ReleasedInv`).

`WindowDisjoint` is the core lemma: two disjoint intervals of positions within
one window of `Size` stand for disjoint bytes. From `IndInv` follow `NoOverlap`,
`FreeNotLost`, `MaxAllocExact` and, step by step, `Refinement`: every step is a
step of `Regions` or a stutter.

`KeyboardHookProofs`, first the switch alone, for every finite set of clients:
the counter counts the holders, `on()` is entered by one at a time, and, if
`force_off` runs alone, the switch is never left on. The invariant adds that a
state which is on with count 0 has a client on its way into `off()`.

Then the hook manager over the switch. Every step of `KeyboardNext` is a step of
the switch or leaves it alone (`HookUsesSwitch`), so the switch's invariant holds
inside. `HookInv` adds three parts: what a subscribed queue holds is what was
pushed from its position on (`QueueInv`); the stage of a queue's constructor or
destructor fixes where it stands in the switch (`StageInv`); and unless two calls
race for the `std::jthread`, the hook runs while somebody holds the switch, but
for the first holder on its way to start it (`ServeInv`). From it follows
`QueuesHearEverything`. The behaviours that race end there, as in the model.

`SchedulerProofs`, for any numbers of workers, threads and tasks. The invariant
comes in parts, each proved action by action:

* `TypeInv`: types, and `active` counts the threads that have counted themselves;
* `TaskInv`: the five places of a task are disjoint and none holds it twice. It
  gives `OnePlace`, and with it each step is shown to keep what is posted in some
  place and on its worker until it has run (`LosesNothing`): `EachTaskInOnePlace`.
  Neither contract below is needed;
* `ControlInv`: where the guard is dropped and the context stopped between and
  during the owner's calls. With it a task starts only between a `start` and the
  end of the next `request_stop` (`NoStartAfterStop`, an action property);
* `OwnInv`: every thread that was created and not joined is in one slot or in
  the hands of `start`. A destroyed scheduler with empty slots therefore has no
  thread left: `NoUseAfterDestroy`, from the contract that a move waits for
  `await_stop` (`MoveWhen # "inactive"`). Without the contract it is false, as
  `scheduler_move` shows;
* `LifeInv`: a worker does not leave while the guard is engaged, so every slot
  filled stays manned. It gives `LifecycleHolds`, from the contract that `start`
  is called only when the last workers are out (`JoinFirst`).

`CoroutinesProofs`, for any numbers of calls, threads, workers and awaited
operations (`CoroutineAssumption`: plans are those of the model, `None` is no
frame). `CoreInv` is proved first, in parts:

* `TypeInv`, `StackInv`: every running frame is at one place of one stack;
* `PlaceInv`: every frame that sleeps is posted, on a timer or abroad, in one of
  these, or is the continuation of exactly one live frame;
* `ContInv`: who may await a coroutine of each kind;
* `CallInv`: how far the frames of one call of `sync` can be apart, `hop` with
  `spawn` among them.

Beside it, `SignalInv`: a signal that is to come is that of one thread, and of a
call whose `sync_task` is over, which nobody has signaled and which still waits.

The awaiters are many and alike, so every action is first shown to have one of
eleven forms (`Form`: a frame awaits another, parks itself, stays, is woken, ends,
ends `sync`'s task; a call of `sync` begins, returns; a fence is signaled, notifies;
a timer fires), and each form keeps the parts. The hard step is the return of `sync`, which destroys frames while a
worker may still be in the final awaiter: `Quiet` shows that once the `sync_task`
is over no coroutine of its call is live, along the chain of continuations. From
`CoreInv` follows `OneResumption` and, with `SignalInv` and types, `FrameLifetimes`;
`ExceptionInv` on top of it gives `NoExceptionLost`: an exception becomes that of
the one that awaited, frame by frame.

`PayloadInjected` and `ExecutorCodeOnWorkers` have a hypothesis, `NoDirect`: no
task is passed to `sync` without `spawn` (the plan `"direct"`). With such a call
both are false (section 5). The run `coroutines` has the same restriction; the
other three theorems do not need it.

`LoggingProofs`, for every depth of the stack of states, every text, severity,
level and build. What `encode()` writes is nine codes in fixed places, and a
terminal, which keeps of each attribute the last code it received, shows from
them the state that was encoded (`RenderedEncode`). `Has(s, below, a, texts)`
says that a stream's top state is `a` over `below` and that its cache, if any, is
`a`'s; each member function of `col_stream` is a lemma on it, and a message is a
sequence of these. Hence `ShownInItsState` and `MessageRestoresState`.
`MacroInv` follows a log macro to its end: nothing is reported before, and a body
with a `LogObj` saw the expression fail. It gives `FailureReportedOnce`. All
theorems are about `LoggingSpec`, in which the user's operations on the stream
and messages of macros alternate freely; `library` checks the two apart.

`ContainersProofs`: `ObjectsHandedOutOnce` is inductive with the types; the work
is in the stack, whose entries must stay distinct as it grows, shrinks and is
rebuilt. The timer pool uses that invariant: `TimerInv` adds that the timers that
are out belong one each to the calls that hold them, those of failed calls
included. Without the failed ones a timer that was lost could not be told from a
free one. `BuffersOwned` needs that buffers are numbered upwards (`PolyInv`), so
that `realloc` finds one nobody points to.

`ForestIsPartition` is proved for every number of nodes. A path to a root is a
chain of parents (`Above`), and two chains are compared by the least step at which
they could differ; the least natural of a set (`NatMin`) takes the place of an
induction. `ForestInv` says that the parents are acyclic (there is a distance that
every step up shortens; the sizes in `union_find.hpp` are no such measure, a merge
prefers the larger index), and, while the merges were `exact`, that two nodes have
the same root exactly if the partition has them in one set and that a root knows
the size of its set. Halving changes no root; hanging one root below another joins
two sets, as the partition does.

`AssignsAndSpreads` is proved for every set of a's, every set of b's and every
choice of option lists. `AssignInv` says that the two tables of the assignment
agree; that during a search every a that was queued is the start or assigned to a
b that was visited; that every visited b has been reached from an a that was
searched, in an order (a rank) in which the path back to the start descends, so
that flipping it ends; and that the level is the least at which all a's so far are
served. The steps of substance are that a search that ends without a path leaves a
set of a's which has too few b's (`NoPathNoAssignment`, by counting) and that the
flip serves one a more and nobody less.

`WindowsProofs`: `SectionsSound` and `ClassesOwned` and `SearchComplete`, and
together `WindowsPartHolds`. `PreviousIsNone` is the lemma behind the first: what
`from_win` makes of anything Windows returns is `NONE`. `ClassesOwned` is not inductive, because a class
that Windows refuses to unregister must be accounted for by an open window;
`WindowInv` adds that an open window has a registered class and, unless it is
held together with it, the class was reused. `SearchInv` follows what must be
found through the call of a process search: it runs, and is on the list or
already found. That the list is complete once the array is not full
(`ListComplete`) is a fact about cardinalities of finite sets.

`MiniramProofs`, for every capacity, width of the mantissa, set of requests and
growth of the node table (`MiniramAssumption`, `MantissaAssumption`,
`MiniramDefragAssumption`), about `allocate`, `free` and `reserve_allocations`, and
about the first `clear`, `defragment` or `resize` after them. A second one, or any
call after one, is not covered: `clear` and `defragment` break the node stack
(section 5). All five properties of `miniram` and both of `miniram_report` are
theorems; `ClassesStayExact` is stated for `Spec`, which has no `clear`,
`defragment` or `resize`.

* The size classes first. The prover has no induction here; `NatMin`, that a set
  of naturals has a least element, replaces it, as a minimal counterexample. It
  comes from the library's well-founded order of finite sets, and powers of two
  from the number of subsets. `ClassGalois` says what rounding down and rounding up mean
  (`ToUint(b) <= n <=> b <= FloorToFloat(n)`), and `ClassesCorrect` that they are
  the reference definitions, for every size.
* `Sound(r, N, B)` is the invariant of the object; `B` are its blocks. The ids
  above the stack pointer are distinct and are those not in `B` (`Stacked`). The
  free blocks are `Filed`: lists doubly linked, one per class, bitmaps in
  agreement, and a rank for each block that its list increases, without which a
  list could be a ring beside the head. The blocks are `Tiled` by their neighbour
  links: each has a place in an order that `prev` and `next` follow, and ends
  where the next begins. A second tiling in the same order, of the free blocks'
  sizes only, has the length `free`; it is how a counter is bound to a sum
  without summing. Two free blocks never meet (`Coalesced`).
* Each step of the code is a lemma about the parts it touches: `pushFreeNode`
  (`PushedNode`), unlinking at the head and inside (`HeadUnlinked`,
  `InnerUnlinked`), `insertNode` (`InsertedNode`), the chaining
  (`ChainedNode`). Tilings are split, merged and resized (`TiledSplit`,
  `TiledMerge`, `TiledResized`). `SliceWhole`, `SlicePart` and `FreeSound` put a
  whole call together from them, `SearchFinds` shows that the two levels of
  bitmaps lead to the least class that serves.
* `IInv` adds that the used blocks are those that clients hold, entry by entry.
  `NeverCritical`, `LiveStaysIntact` and `ClassesStayExact` follow directly.
* `StaysWellFormed` needs sums. `SumOf` adds up in the order of `CHOOSE`;
  `SumsTo` is a function that gives the sum of every subset in any order, it
  exists because finite sets have cardinalities, and equals the fold of
  `SumOf`. `TiledSum` says that the sizes of a tiling add up to what is
  tiled.
* `GapsAre` says that the gaps which `BlockAllocator` sees between the live blocks
  are exactly the free blocks that are not empty, empty live blocks being cuts. From
  it and `SearchFinds` follow `AllocatableStaysExact` and, step by step, the refinement
  `MiniramIsBlockAllocator`.
* `RearrangesStorage` is `OnceSpec => []StorageRearranged` for clients that hold no
  empty block (`0 \notin Requests`; with an empty block it is false, section 5).
  Sorting the used nodes by offset gives the one order there is (`SortedIsOrdered`,
  offsets of blocks that are not empty differ). Along it the list of moves is built
  block by block; `MovesSoFar` is what holds of it after the k-th block: every move
  goes to the left, moves write in increasing order, and each block so far either
  stays, out of reach of all moves, or lies within one move whose distance is its
  own. With that, no move overwrites what a later one reads (`CarriedInOrder`), so
  every cell arrives. Cutting a move into pieces of its own distance keeps all of
  this (`PiecesCut`, `CopiesCut`). That the blocks then fill the storage from 0 is a
  sum again (`SizesAddUp`). The recursive functions of the model are known to the
  prover only by their equation, which needs that a solution exists:
  `RecursionExists` builds one step by step. The state of the object after the call
  is not part of the claim, which is why the induction ends with that call
  (`OnceInv`).

`IndInv` is checked by `ring_alloc` as well. The tilings and ranks of `Sound` are
bound by quantifiers over functions, which TLC cannot enumerate; what they imply
for the object is `WellFormed`, which `miniram` checks. Assumed of the constants
is only what the `ASSUME`s of the modules name.

Only model-checked: what happens after the first call of `clear`, `defragment` or
`resize` (two runs expect a violation there), and all liveness. Liveness under fairness is
out of the prover's reach; so are `ENABLED` and recursive operators.
`SentIsHeard` is about every key there is and has no constants, so `library` has
already decided it. `LibraryTypeOK` is a type invariant; the types its components'
theorems need are proved with them.

## 5. What the models show about the code and no run keeps

Found with `MCMiniramDefrag` by other values of its constants, or by stating the
formula as an invariant:

* `defragment` of a storage without allocations runs into the check of
  `miniram.inl:446` (`NoCriticalFails` in place of `LiveIntact` in
  `MCMiniramDefragIds.cfg`);
* `resize` to less than the live allocations occupy leaves blocks beyond
  `capacity()` and `allocated()` wrong (`Operations = {"resize"}` and
  `ram.capacity - ram.free = SumOf(live, LAMBDA a : a.size)`);
* the free space behind compacted blocks is cut in two at a class boundary, and
  the two are not coalesced when everything is freed
  (`live = {} => MaxAlloc(ram) = ToUint(FloorToFloat(ram.capacity))`);
* blocks of size 0 share an offset with a neighbour; sorted behind it they move
  to the right, which `to_disjunct_copies` refuses by an assertion (a move with
  `dst > src` in `report.moves`, with 0 in `Requests`);
* `clear` leaves nodes marked as used, so that a later `defragment` reports
  allocations that are gone (`Operations = {"clear", "defragment"}`);
* `allocatable(0)` is true on a full storage, where `allocate(0)` fails; this is
  why `AllocatableExact` begins at 1.

Found while modelling the other components:

* `sync` of an executor's task without `spawn` would run it without a payload.
  `this_coro_promise_awaiter_base.hpp:26-29` looks at the callee's promise, not
  the caller's, so nothing refuses it (a plan `"direct"` breaks
  `PayloadInjected`);
* as many calls of `sync` on workers as there are workers block for good
  (`MaxNested = 2` breaks `SyncReturns`);
* if a stolen awaitable throws, `steal` ends before it comes back to the
  executor, whose code then continues on the foreign thread; the property admits
  exactly this case. The frames that `steal` makes are never destroyed, so that
  every `spawn` leaks one, in which it came onto a worker;
* between the exchange and `notify_all` of `fence::signal` (`fence.hpp:18-19`) the
  thread in `sync` may return and destroy the fence; `FrameLifetimes` says that this
  is the only access that comes too late;
* `global_switch::force_off` beside an `acquire` leaves the state on with nobody
  holding it (`Exclusive = FALSE` breaks `NeverLeftOn`); a destroyed fence may
  have waiters inside (`fence.hpp:15`), a moved-from `heap_fence` lets `wait`
  return at once;
* `start_hook` and `stop_hook` (`keyboard.cpp:32,66,70`) may overlap on one
  `std::jthread`; a stop before the thread published its id posts no quit
  message, and the join waits for the next key; `size()` reads a queue without
  the mutex (`keyboard.hpp:56`); `keyboard_test.cpp:41,45` have their conditions
  inverted;
* the function keys have no way back from their codes
  (`win_key_convert.hpp:286`), `HASH` and `LESS_THAN` share codes with others;
* `BGColor::DEFAULT` is 40, the code of `BLACK` (`console.hpp:42`);
* the log macros evaluate their expression twice (`log.hpp:204-213`): if it has
  changed, a body runs with a null `details`, or a report is made and no body
  runs. Move assignment of a `LogObj` keeps its `_moved`;
* `merge(group)` also miscounts the sizes of the roots (`MaxSize` bounds them);
* a timer whose `set` throws or whose wait fails never returns to the pool
  (`timer_pool.hpp:52,57`); Windows' waitable timers count in 100 ns, to which
  a duration is truncated;
* copy assignment of a `poly_vector` with a buffer leaks it (`poly_vector.hpp:73`);
* a DPI context that `from_win` does not find, which is every one that Windows
  returns, is converted to `NONE`, and `CTH_CRITICAL(false)` tells nobody
  (`screen.cpp:117,120`). `set_thread_dpi_awareness` does not return the "previous
  awareness" of `screen.hpp:49`, and the first scaled blit leaves the thread unaware
  (`wanted \in Mapped => awareness = wanted` as an invariant of `library`). It is
  documented to throw (`screen.hpp:48`) and does not; the result of `SelectObject`
  is not looked at (`screen.cpp:372`);
* `create_window` asks for an existing class with a structure whose `cbSize` was
  never set (`screen.cpp:29`), and two threads that create windows of one new
  class race for the registration; move assignment of a `window_t` drops its
  class while the old window is open, which Windows refuses
  (`win_types.hpp:128-131`); the move constructor of `window_class_t` swaps with
  an uninitialised handle (`:115`);
* `proc::active` and `proc::count` are documented to return `nullopt` on failure
  (`proc.hpp:28,35`) and return `false` and 0;
* `read_clipboard` builds its view of the text before it checks the pointer
  (`io.cpp:87`); `align_to` adds a whole multiple unless it is a power of two
  (`numeric.hpp:89`).

## 6. Not modelled

The components with status `not_modelled` or `partly` in `PROJECT.json`, with the
reason for each. In short: templates over types, text, formatting, hashes,
single-value ownership types, floating-point helpers, single calls of the
Windows API and the module build have no state whose steps could interleave or
accumulate. `cth_win/unused/` and `cth/incl/cth/unused/` are included by nothing.

Of the modelled components:

* queries that only read (`allocated`, `size_of`, `free_regions`,
  `fragmentation`, `workers`, `owns_thread`), and the copy and move of
  `basic_miniram`, which are defaulted;
* an exception that leaves a worker's handler ends the process and has no
  further state; neither has a failed `CreateWindowExW` in the hook thread;
* `hook_callback` of the keyboard hook, which is registered nowhere;
* a log stream without colors, and the text of messages;
* the timer pool's other form, one timer per call, which shares nothing;
* the layout of the arrays inside a `poly_vector`'s buffer;
* monitors, frame counts and rectangles of the screen: single calls of Windows;
* memory orders weaker than sequential consistency (see `RingAlloc` above).

## 7. Plan

Done: every component with logic of its own is modelled and checked, and each
has theorems about its safety; of the fence only liveness is claimed. What is left:

1. `Scheduler` as an implementation of the bag of resumptions that `Coroutines`
   takes it for.
2. `Numeric` for `cycle`, `align_to` and `pow` with fixed widths, as operators
   against their definitions.

The runs are kept few: one per question. New components join `library`, which
asks the same question of each.
