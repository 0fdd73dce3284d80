--------------------------- MODULE CoroutinesProofs ---------------------------
(***************************************************************************)
(* Theorems about Coroutines, for any number of calls, threads, workers    *)
(* and awaited operations.  The invariant comes in parts: types; which     *)
(* thread runs which frame; what will resume a suspended frame; who awaits *)
(* whom; how far the frames of one call can be apart; and on top of these  *)
(* the payload, the threads of an executor's code and the exceptions.      *)
(***************************************************************************)
EXTENDS Coroutines, FiniteSetTheorems, TLAPS

Placed == posted \cup timers \cup abroad

(* A frame that was made but not resumed yet, and one that has suspended   *)
(* itself.                                                                 *)
Unstarted(f) == frame[f].st = "suspended" /\ frame[f].pc = "start"

Asleep(f) == frame[f].st = "suspended" /\ frame[f].pc # "start"

Started(f) == frame[f].st = "running" \/ Asleep(f)

TypeInv == TypeOK /\ stack \in [Threads -> Seq(Frames)]

(* Every running frame is at one place of one stack.                       *)
StackInv ==
    /\ \A t \in Threads : \A i \in 1 .. Len(stack[t]) : frame[stack[t][i]].st = "running"
    /\ \A t, u \in Threads : \A i \in 1 .. Len(stack[t]), j \in 1 .. Len(stack[u]) :
         stack[t][i] = stack[u][j] => t = u /\ i = j
    /\ \A f \in Frames : frame[f].st = "running" =>
         \E t \in Threads : \E i \in 1 .. Len(stack[t]) : stack[t][i] = f

(* Every frame that sleeps is in one place or the continuation of one live *)
(* frame.                                                                  *)
PlaceInv ==
    /\ \A f \in Placed : Asleep(f)
    /\ posted \cap timers = {} /\ posted \cap abroad = {} /\ timers \cap abroad = {}
    /\ \A f \in Frames : Live(f) /\ frame[f].cont # None =>
         Asleep(frame[f].cont) /\ frame[f].cont \notin Placed
    /\ \A f, g \in Frames : Live(f) /\ Live(g) /\ frame[f].cont # None
         /\ frame[f].cont = frame[g].cont => f = g
    /\ \A f \in Frames : Asleep(f) =>
         f \in Placed \/ \E g \in Frames : Live(g) /\ frame[g].cont = f

(* Who may await a coroutine of each kind. *)
Awaiters(k) ==
    CASE k = "spawn" -> {"sync"}
      [] k = "hop"   -> {"spawn"}
      [] k = "task"  -> {"spawn", "sync"}
      [] k = "child" -> {"task"}
      [] k = "steal" -> {"spawn", "task", "child"}
      [] OTHER       -> {"steal"}

ContOK(f) ==
    /\ Unstarted(f) => Kind(f) \in {"spawn", "task"} /\ frame[f] = Fresh
    /\ Started(f) => IF Kind(f) = "sync" THEN frame[f].cont = None
                     ELSE \E k \in Awaiters(Kind(f)) : frame[f].cont = <<f[1], k>>
    /\ f \in Placed => IF Kind(f) = "sync" THEN call[f[1]].plan = "bare"
                       ELSE f \in abroad => Kind(f) \in {"steal", "inner"}

ContInv == \A f \in Frames : ContOK(f)

State(r, k) == frame[<<r, k>>].st

At(r, k, pcs) == Live(<<r, k>>) /\ frame[<<r, k>>].pc \in pcs

Failed(r, k) == frame[<<r, k>>].failed

(* How far the frames of one call can be apart.                            *)
CallOK(r) ==
    /\ IF call[r].st = "new" THEN \A k \in Kinds : State(r, k) = "none"
       ELSE call[r].plan \in Plans
    /\ State(r, "spawn") # "none" => call[r].plan \in {"task", "foreign"}
    /\ State(r, "task") # "none" => call[r].plan \in {"task", "direct"}
    /\ At(r, "sync", {"start"}) =>
         /\ call[r].plan \in {"task", "foreign"} => Unstarted(<<r, "spawn">>)
         /\ call[r].plan = "direct" => Unstarted(<<r, "task">>)
    /\ Unstarted(<<r, "spawn">>) => At(r, "sync", {"start"})
    /\ At(r, "spawn", {"start", "scheduled"}) =>
         /\ call[r].plan = "task" => Unstarted(<<r, "task">>)
         /\ call[r].plan = "foreign" => State(r, "steal") = "none"
    /\ State(r, "spawn") = "none" \/ At(r, "spawn", {"start"}) => State(r, "hop") = "none"
    /\ Started(<<r, "hop">>) => At(r, "spawn", {"scheduled"})
    /\ ~Failed(r, "hop") /\ frame[<<r, "sync">>].pc # "scheduled"
    /\ Unstarted(<<r, "task">>) =>
         IF call[r].plan = "direct" THEN At(r, "sync", {"start"})
         ELSE At(r, "spawn", {"start", "scheduled"})
    /\ State(r, "steal") = "none" \/ At(r, "steal", {"start"}) => State(r, "inner") = "none"
    /\ Started(<<r, "task">>) /\ frame[<<r, "task">>].cont = <<r, "sync">> =>
         call[r].plan = "direct"
    /\ Started(<<r, "steal">>) /\ frame[<<r, "steal">>].cont = <<r, "spawn">> =>
         call[r].plan = "foreign"
    /\ State(r, "child") # "final"
    /\ \A k \in {"hop", "steal", "inner"} : State(r, k) # "destroyed"
    /\ call[r].st = "called" /\ call[r].fence => State(r, "sync") = "final"
    /\ call[r].st \in {"returned", "threw"} =>
         /\ \A k \in {"sync", "spawn", "task", "child"} : State(r, k) \in {"none", "destroyed"}
         /\ \A k \in {"hop", "steal", "inner"} : State(r, k) \in {"none", "final"}

CallInv == \A r \in Roots : CallOK(r)

(* A signal that is to come is that of one thread, and of a sync_task that *)
(* is over and waited for.                                                 *)
SignalInv ==
    /\ \A t \in Threads, r \in Roots : notify[t] = <<"signal", r>> =>
         State(r, "sync") = "final" /\ call[r].st = "called" /\ ~call[r].fence
    /\ \A t, u \in Threads, r \in Roots :
         notify[t] = <<"signal", r>> /\ notify[u] = <<"signal", r>> => t = u

(* The payload is there from the first step of a coroutine on.             *)
PayInv ==
    \A f \in Frames : Kind(f) \in {"spawn", "task", "child"} /\ Started(f) => frame[f].pay

(* An executor's code, and steal() when it has come back.                  *)
Pinned(f) ==
    \/ UserKind(f)
    \/ Kind(f) \in {"spawn", "hop"} /\ frame[f].pc # "start"
    \/ Kind(f) = "steal" /\ frame[f].pc = "return"

(* Where these may run; a steal() that failed does not wait any more.      *)
WorkerInv ==
    /\ \A t \in Threads : \A i \in 1 .. Len(stack[t]) :
         Pinned(stack[t][i]) => t \in Workers \/ Failed(stack[t][i][1], "steal")
    /\ \A f \in abroad : Kind(f) = "steal" => frame[f].pc = "resched"
    /\ \A r \in Roots : Failed(r, "steal") =>
         \/ State(r, "steal") = "final"
         \/ State(r, "steal") = "running" /\ frame[<<r, "steal">>].pc = "return"

Over(r, k) == State(r, k) \in {"final", "destroyed"}

(* The exception of a coroutine becomes that of the one that awaited it.   *)
ExceptionOK(r) ==
    /\ \A k \in Kinds : State(r, k) = "none" => ~Failed(r, k) /\ frame[<<r, k>>].pc = "start"
    /\ \A k \in {"sync", "spawn"} :
         /\ Over(r, k) => frame[<<r, k>>].pc = "return"
         /\ Failed(r, k) => frame[<<r, k>>].pc = "return"
    /\ frame[<<r, "sync">>].pc = "return" /\ call[r].plan # "bare" =>
         LET k == IF call[r].plan = "direct" THEN "task" ELSE "spawn"
         IN  Over(r, k) /\ Failed(r, "sync") = Failed(r, k)
    /\ frame[<<r, "spawn">>].pc = "return" =>
         LET k == IF call[r].plan = "task" THEN "task" ELSE "steal"
         IN  Over(r, k) /\ Failed(r, "spawn") = Failed(r, k)
    /\ call[r].st \in {"returned", "threw"} =>
         State(r, "sync") = "destroyed" /\ (call[r].st = "threw" <=> Failed(r, "sync"))

ExceptionInv == \A r \in Roots : ExceptionOK(r)

-----------------------------------------------------------------------------
(* Frames and stacks.                                                      *)

Stacks == stack \in [Threads -> Seq(Frames)]

(* A frame is named by its call and its kind. *)
LEMMA FrameForm ==
  /\ \A f \in Frames : f[1] \in Roots /\ f[2] \in Kinds /\ f = <<f[1], f[2]>>
  /\ \A r \in Roots, k \in Kinds : <<r, k>> \in Frames /\ <<r, k>>[1] = r /\ <<r, k>>[2] = k
  /\ None \notin Frames
  BY CoroutineAssumption DEF Frames, Kinds

(* The first n elements of a sequence. *)
LEMMA Prefix ==
  ASSUME NEW S, NEW s \in Seq(S), NEW n \in Nat, n <= Len(s)
  PROVE  /\ SubSeq(s, 1, n) \in Seq(S) /\ Len(SubSeq(s, 1, n)) = n
         /\ \A i \in 1 .. n : SubSeq(s, 1, n)[i] = s[i]
  <1>1. SubSeq(s, 1, n) \in Seq(S)
    OBVIOUS
  <1>2. Len(SubSeq(s, 1, n)) = n
    OBVIOUS
  <1>3. \A i \in 1 .. n : SubSeq(s, 1, n)[i] = s[i]
    OBVIOUS
  <1>4. QED
    BY <1>1, <1>2, <1>3

(* What Front() and Last() are of a sequence that has a last element. *)
LEMMA FrontLast ==
  ASSUME NEW S, NEW s \in Seq(S), s # <<>>, NEW x \in S
  PROVE  /\ Len(s) \in Nat \ {0} /\ Last(s) = s[Len(s)]
         /\ Front(s) \in Seq(S) /\ Len(Front(s)) = Len(s) - 1
         /\ \A i \in 1 .. Len(s) - 1 : Front(s)[i] = s[i]
         /\ Append(Front(s), x) \in Seq(S) /\ Len(Append(Front(s), x)) = Len(s)
         /\ \A i \in 1 .. Len(s) - 1 : Append(Front(s), x)[i] = s[i]
         /\ Append(Front(s), x)[Len(s)] = x
  <1>1. Len(s) \in Nat \ {0} /\ Last(s) = s[Len(s)]
    BY DEF Last
  <1>2. /\ Front(s) \in Seq(S) /\ Len(Front(s)) = Len(s) - 1
        /\ \A i \in 1 .. Len(s) - 1 : Front(s)[i] = s[i]
    <2>1. Len(s) - 1 \in Nat /\ Len(s) - 1 <= Len(s)
      BY <1>1
    <2>2. Front(s) = SubSeq(s, 1, Len(s) - 1)
      BY DEF Front
    <2>3. QED
      BY <2>1, <2>2, Prefix, ZenonT(60)
  <1>3. QED
    BY <1>1, <1>2

(* Thread t resumes f, or calls it. *)
LEMMA StackPush ==
  ASSUME Stacks, StackInv, NEW t \in Threads, NEW f \in Frames,
         stack' = [stack EXCEPT ![t] = Append(@, f)],
         frame[f].st # "running", frame'[f].st = "running",
         \A h \in Frames : h # f => (frame'[h].st = "running" <=> frame[h].st = "running")
  PROVE  StackInv' /\ Stacks'
  <1> DEFINE n == Len(stack[t])
  <1>1. /\ n \in Nat /\ Len(stack'[t]) = n + 1 /\ stack'[t][n + 1] = f
        /\ \A i \in 1 .. n : stack'[t][i] = stack[t][i]
        /\ \A u \in Threads : u # t => stack'[u] = stack[u]
        /\ Stacks'
    BY DEF Stacks
  <1>2. \A u \in Threads : \A i \in 1 .. Len(stack[u]) : stack[u][i] \in Frames /\ stack[u][i] # f
    BY DEF Stacks, StackInv
  <1>3. \A u \in Threads : \A i \in 1 .. Len(stack'[u]) :
           \/ u = t /\ i = n + 1
           \/ i \in 1 .. Len(stack[u]) /\ stack'[u][i] = stack[u][i]
    BY <1>1 DEF Stacks
  <1>4. \A u \in Threads : \A i \in 1 .. Len(stack[u]) :
           i \in 1 .. Len(stack'[u]) /\ stack'[u][i] = stack[u][i]
    BY <1>1
  <1>5. \A u \in Threads : \A i \in 1 .. Len(stack'[u]) : frame'[stack'[u][i]].st = "running"
    BY <1>1, <1>2, <1>3, SMTT(60) DEF StackInv
  <1>6. \A u, v \in Threads : \A i \in 1 .. Len(stack'[u]), j \in 1 .. Len(stack'[v]) :
           stack'[u][i] = stack'[v][j] => u = v /\ i = j
    BY <1>1, <1>2, <1>3 DEF StackInv
  <1>7. \A h \in Frames : frame'[h].st = "running" =>
           \E u \in Threads : \E i \in 1 .. Len(stack'[u]) : stack'[u][i] = h
    <2> SUFFICES ASSUME NEW h \in Frames, frame'[h].st = "running"
                 PROVE  \E u \in Threads : \E i \in 1 .. Len(stack'[u]) : stack'[u][i] = h
      OBVIOUS
    <2>1. CASE h = f
      BY <1>1, <2>1
    <2>2. CASE h # f
      BY <1>4, <2>2 DEF StackInv
    <2>3. QED
      BY <2>1, <2>2
  <1>8. QED
    BY <1>1, <1>5, <1>6, <1>7 DEF StackInv

(* The active frame of t suspends or ends, and t returns to the one below. *)
LEMMA StackPop ==
  ASSUME Stacks, StackInv, NEW t \in Threads, NEW f \in Frames,
         stack[t] # <<>>, Last(stack[t]) = f,
         stack' = [stack EXCEPT ![t] = Front(@)],
         frame'[f].st # "running",
         \A h \in Frames : h # f => (frame'[h].st = "running" <=> frame[h].st = "running")
  PROVE  StackInv' /\ Stacks'
  <1> DEFINE n == Len(stack[t])
  <1>1. /\ n \in Nat \ {0} /\ Len(stack'[t]) = n - 1 /\ stack[t][n] = f
        /\ \A i \in 1 .. n - 1 : stack'[t][i] = stack[t][i]
        /\ \A u \in Threads : u # t => stack'[u] = stack[u]
        /\ Stacks'
    <2>1. stack[t] \in Seq(Frames) /\ stack'[t] = Front(stack[t])
      BY DEF Stacks
    <2>2. \A u \in Threads : u # t => stack'[u] = stack[u]
      BY DEF Stacks
    <2>3. Stacks'
      BY <2>1, <2>2, FrontLast DEF Stacks
    <2>4. QED
      BY <2>1, <2>2, <2>3, FrontLast
  <1>2. \A u \in Threads : \A i \in 1 .. Len(stack'[u]) :
           /\ i \in 1 .. Len(stack[u]) /\ stack'[u][i] = stack[u][i]
           /\ stack[u][i] \in Frames /\ stack[u][i] # f
    BY <1>1 DEF Stacks, StackInv
  <1>3. \A u \in Threads : \A i \in 1 .. Len(stack[u]) :
           stack[u][i] # f => i \in 1 .. Len(stack'[u]) /\ stack'[u][i] = stack[u][i]
    BY <1>1 DEF Stacks, StackInv
  <1>4. \A u \in Threads : \A i \in 1 .. Len(stack'[u]) : frame'[stack'[u][i]].st = "running"
    BY <1>2 DEF StackInv
  <1>5. \A u, v \in Threads : \A i \in 1 .. Len(stack'[u]), j \in 1 .. Len(stack'[v]) :
           stack'[u][i] = stack'[v][j] => u = v /\ i = j
    BY <1>2 DEF StackInv
  <1>6. \A h \in Frames : frame'[h].st = "running" =>
           \E u \in Threads : \E i \in 1 .. Len(stack'[u]) : stack'[u][i] = h
    BY <1>3 DEF StackInv
  <1>7. QED
    BY <1>1, <1>4, <1>5, <1>6 DEF StackInv

(* The active frame f of t hands over to g. *)
LEMMA StackSwap ==
  ASSUME Stacks, StackInv, NEW t \in Threads, NEW f \in Frames, NEW g \in Frames, f # g,
         stack[t] # <<>>, Last(stack[t]) = f, Transfer(t, g),
         frame[g].st # "running", frame'[f].st # "running", frame'[g].st = "running",
         \A h \in Frames : h \notin {f, g} =>
             (frame'[h].st = "running" <=> frame[h].st = "running")
  PROVE  StackInv' /\ Stacks'
  <1> DEFINE n == Len(stack[t])
  <1>1. /\ n \in Nat \ {0} /\ Len(stack'[t]) = n /\ stack[t][n] = f /\ stack'[t][n] = g
        /\ \A i \in 1 .. n - 1 : stack'[t][i] = stack[t][i]
        /\ \A u \in Threads : u # t => stack'[u] = stack[u]
        /\ Stacks'
    <2>1. stack[t] \in Seq(Frames) /\ stack'[t] = Append(Front(stack[t]), g)
      BY DEF Stacks, Transfer
    <2>2. \A u \in Threads : u # t => stack'[u] = stack[u]
      BY DEF Stacks, Transfer
    <2>3. Stacks'
      BY <2>1, <2>2, FrontLast DEF Stacks, Transfer
    <2>4. QED
      BY <2>1, <2>2, <2>3, FrontLast
  <1>2. \A u \in Threads : Len(stack'[u]) = Len(stack[u])
    BY <1>1
  <1>3. \A u \in Threads : \A i \in 1 .. Len(stack[u]) :
           \/ u = t /\ i = n /\ stack'[u][i] = g
           \/ stack'[u][i] = stack[u][i] /\ stack[u][i] # f
    BY <1>1, SMTT(60) DEF Stacks, StackInv
  <1>4. \A u \in Threads : \A i \in 1 .. Len(stack[u]) : stack[u][i] \in Frames /\ stack[u][i] # g
    BY DEF Stacks, StackInv
  <1>5. \A u \in Threads : \A i \in 1 .. Len(stack'[u]) : frame'[stack'[u][i]].st = "running"
    BY <1>2, <1>3, <1>4 DEF StackInv
  <1>6. \A u, v \in Threads : \A i \in 1 .. Len(stack'[u]), j \in 1 .. Len(stack'[v]) :
           stack'[u][i] = stack'[v][j] => u = v /\ i = j
    BY <1>2, <1>3, <1>4 DEF StackInv
  <1>7. \A h \in Frames : frame'[h].st = "running" =>
           \E u \in Threads : \E i \in 1 .. Len(stack'[u]) : stack'[u][i] = h
    <2> SUFFICES ASSUME NEW h \in Frames, frame'[h].st = "running"
                 PROVE  \E u \in Threads : \E i \in 1 .. Len(stack'[u]) : stack'[u][i] = h
      OBVIOUS
    <2>1. CASE h = g
      BY <1>1, <2>1
    <2>2. CASE h # g
      <3>1. PICK u \in Threads : \E i \in 1 .. Len(stack[u]) : stack[u][i] = h
        BY <2>2 DEF StackInv
      <3>2. h # f
        OBVIOUS
      <3>3. QED
        BY <1>1, <1>2, <1>3, <3>1, <3>2
    <2>3. QED
      BY <2>1, <2>2
  <1>8. QED
    BY <1>1, <1>5, <1>6, <1>7 DEF StackInv

(* The active frame of a thread runs. *)
LEMMA ActiveRuns ==
  ASSUME Stacks, StackInv, NEW t \in Threads, stack[t] # <<>>
  PROVE  Last(stack[t]) \in Frames /\ frame[Last(stack[t])].st = "running"
  BY DEF Stacks, StackInv, Last

-----------------------------------------------------------------------------
(* Each step of the frames preserves the invariant.                        *)

CoreInv == TypeInv /\ StackInv /\ PlaceInv /\ ContInv /\ CallInv

(* Thread t executes frame f. *)
Active(t, f) == stack[t] # <<>> /\ Last(stack[t]) = f

LEMMA CallSame ==
  ASSUME NEW r \in Roots, CallOK(r), call'[r] = call[r],
         \A k \in Kinds : frame'[<<r, k>>] = frame[<<r, k>>]
  PROVE  CallOK(r)'
  BY DEF CallOK, Kinds, State, Failed, At, Live, Unstarted, Started, Asleep

LEMMA TwoFrames ==
  ASSUME frame \in [Frames -> FrameState], NEW f \in Frames, NEW g \in Frames, f # g,
         NEW F \in FrameState, NEW G \in FrameState,
         frame' = [frame EXCEPT ![f] = F, ![g] = G]
  PROVE  /\ frame' \in [Frames -> FrameState] /\ frame'[f] = F /\ frame'[g] = G
         /\ \A h \in Frames : h \notin {f, g} => frame'[h] = frame[h]
  OBVIOUS

LEMMA OneFrame ==
  ASSUME frame \in [Frames -> FrameState], NEW f \in Frames, NEW F \in FrameState,
         frame' = [frame EXCEPT ![f] = F]
  PROVE  /\ frame' \in [Frames -> FrameState] /\ frame'[f] = F
         /\ \A h \in Frames : h # f => frame'[h] = frame[h]
  OBVIOUS

LEMMA FreshStates ==
  /\ Fresh \in FrameState
  /\ \A c \in Frames \cup {None}, b \in BOOLEAN, pc \in {"start", "body"} :
       [Fresh EXCEPT !.st = "running", !.cont = c, !.pay = b, !.pc = pc] \in FrameState
  <1>1. Fresh \in FrameState
    BY CoroutineAssumption DEF Fresh, FrameState
  <1>2. ASSUME NEW c \in Frames \cup {None}, NEW b \in BOOLEAN, NEW pc \in {"start", "body"}
        PROVE  [Fresh EXCEPT !.st = "running", !.cont = c, !.pay = b, !.pc = pc] \in FrameState
    <2>1. [Fresh EXCEPT !.st = "running"] \in FrameState
      BY <1>1 DEF FrameState
    <2>2. [Fresh EXCEPT !.st = "running", !.cont = c] \in FrameState
      BY <2>1 DEF FrameState
    <2>3. [Fresh EXCEPT !.st = "running", !.cont = c, !.pay = b] \in FrameState
      BY <2>2 DEF FrameState
    <2>4. QED
      BY <2>3 DEF FrameState
  <1>3. QED
    BY <1>1, <1>2

LEMMA StacksRange ==
  ASSUME NEW s \in [Threads -> Seq(Frames)]
  PROVE  \A u \in Threads : Range(s[u]) \subseteq Frames
  BY DEF Range

(* Nothing refers to a frame that is not asleep.                           *)
LEMMA NotAwaited ==
  ASSUME PlaceInv, NEW f \in Frames, ~Asleep(f)
  PROVE  f \notin Placed /\ \A h \in Frames : Live(h) => frame[h].cont # f
  BY FrameForm DEF PlaceInv

(* What co_await may do to the frames of a call.                           *)
Awaits(f, g) ==
    /\ g = <<f[1], Kind(g)>>
    /\ \/ /\ Kind(f) = "sync" /\ frame[f].pc = "start" /\ Unstarted(g)
          /\ Kind(g) = IF call[f[1]].plan = "direct" THEN "task" ELSE "spawn"
       \/ /\ Kind(f) = "spawn" /\ frame[f].pc = "start"
          /\ Kind(g) = "hop" /\ frame[g].st = "none"
       \/ /\ Kind(f) = "spawn" /\ frame[f].pc = "scheduled"
          /\ IF call[f[1]].plan = "task" THEN Kind(g) = "task" /\ Unstarted(g)
             ELSE Kind(g) = "steal" /\ frame[g].st = "none"
       \/ /\ Kind(f) = "steal" /\ frame[f].pc = "start"
          /\ Kind(g) = "inner" /\ frame[g].st = "none"
       \/ /\ UserKind(f) /\ frame[f].pc = "body" /\ frame[f].ops < MaxOps
          /\ Kind(g) = "steal" \/ (Kind(g) = "child" /\ Kind(f) = "task")
          /\ frame[g].st = "none"

LEMMA AwaitEffect ==
  ASSUME CoreInv, NEW t \in Threads, NEW f \in Frames, NEW g \in Frames,
         Active(t, f), Awaits(f, g), StartAwait(t, f, g)
  PROVE  /\ f # g /\ frame[f].st = "running" /\ frame[g].st # "running"
         /\ Kind(f) \in Awaiters(Kind(g)) /\ Kind(g) # "sync"
         /\ frame' \in [Frames -> FrameState]
         /\ \A h \in Frames : h \notin {f, g} => frame'[h] = frame[h]
         /\ frame'[f].st = "suspended" /\ frame'[f].pc = AwaitPc(g) /\ frame'[f].cont = frame[f].cont
         /\ frame'[f].failed = frame[f].failed /\ frame'[f].pay = frame[f].pay
         /\ frame'[g].st = "running" /\ frame'[g].cont = f /\ ~frame'[g].failed
         /\ frame'[g].pc = IF UserKind(g) THEN "body" ELSE "start"
         /\ frame'[g].pay = (Kind(g) = "spawn" \/ (UserKind(g) /\ frame[f].pay))
         /\ UNCHANGED <<posted, timers, abroad, call, notify>>
  <1>1. /\ f # g /\ frame[f].st = "running" /\ frame[g].st # "running"
        /\ Kind(f) \in Awaiters(Kind(g)) /\ Kind(g) # "sync"
    BY ActiveRuns DEF CoreInv, TypeInv, Stacks, Active, Awaits, UserKind, Kind, Awaiters, Unstarted
  <1> DEFINE F == [frame[f] EXCEPT !.st = "suspended", !.pc = AwaitPc(g),
                     !.ops = IF UserKind(f) THEN frame[f].ops + 1 ELSE frame[f].ops]
             pay == \/ Kind(g) = "spawn"
                    \/ UserKind(g) /\ frame[f].pay
             pc == IF UserKind(g) THEN "body" ELSE "start"
             G == [Fresh EXCEPT !.st = "running", !.cont = f, !.pay = pay, !.pc = pc]
  <1>2. frame' = [frame EXCEPT ![f] = F, ![g] = G] /\ UNCHANGED <<posted, timers, abroad, call, notify>>
    BY DEF StartAwait, places
  <1>3. /\ frame \in [Frames -> FrameState] /\ frame' \in [Frames -> FrameState]
        /\ frame'[f] = F /\ frame'[g] = G
        /\ \A h \in Frames : h \notin {f, g} => frame'[h] = frame[h]
    <2>1. frame \in [Frames -> FrameState] /\ frame[f] \in FrameState
      BY DEF CoreInv, TypeInv, TypeOK
    <2>2. UserKind(f) => frame[f].ops + 1 \in 0 .. MaxOps
      BY <2>1, CoroutineAssumption DEF Awaits, FrameState, UserKind, Kind
    <2>3. F \in FrameState
      BY <2>1, <2>2 DEF FrameState, AwaitPc
    <2>4. G \in FrameState
      <3>1. pay \in BOOLEAN /\ pc \in {"body", "start"}
        OBVIOUS
      <3> HIDE DEF pay, pc
      <3>2. QED
        BY <3>1, FreshStates
    <2> HIDE DEF F, G
    <2>5. f # g /\ frame' = [frame EXCEPT ![f] = F, ![g] = G]
      BY <1>1, <1>2
    <2>6. QED
      BY <2>1, <2>3, <2>4, <2>5
  <1>4. /\ frame'[f].st = "suspended" /\ frame'[f].pc = AwaitPc(g) /\ frame'[f].cont = frame[f].cont
        /\ frame'[f].failed = frame[f].failed /\ frame'[f].pay = frame[f].pay
    BY <1>3 DEF FrameState, AwaitPc
  <1>5. /\ frame'[g].st = "running" /\ frame'[g].cont = f /\ ~frame'[g].failed
        /\ frame'[g].pc = pc
    BY <1>3 DEF Fresh
  <1>6. frame'[g].pay = pay
    <2>1. pay \in BOOLEAN
      OBVIOUS
    <2> HIDE DEF pay, pc
    <2>2. QED
      BY <1>3, <2>1 DEF Fresh
  <1> HIDE DEF F, G
  <1>7. QED
    BY <1>1, <1>2, <1>3, <1>4, <1>5, <1>6

LEMMA AwaitInv ==
  ASSUME CoreInv, NEW t \in Threads, NEW f \in Frames, NEW g \in Frames,
         Active(t, f), Awaits(f, g), StartAwait(t, f, g)
  PROVE  CoreInv'
  <1>1. /\ f # g /\ frame[f].st = "running" /\ frame[g].st # "running"
        /\ Kind(f) \in Awaiters(Kind(g)) /\ Kind(g) # "sync"
    BY AwaitEffect
  <1>2. UNCHANGED <<posted, timers, abroad, call, notify>>
    BY AwaitEffect
  <1>3. /\ frame \in [Frames -> FrameState] /\ frame' \in [Frames -> FrameState]
        /\ \A h \in Frames : h \notin {f, g} => frame'[h] = frame[h]
    BY AwaitEffect DEF CoreInv, TypeInv, TypeOK
  <1>4. /\ frame'[f].st = "suspended" /\ frame'[f].pc = AwaitPc(g) /\ frame'[f].cont = frame[f].cont
        /\ frame'[g].st = "running" /\ frame'[g].cont = f
        /\ frame'[g].pc = IF UserKind(g) THEN "body" ELSE "start"
    BY AwaitEffect
  <1> AwaitPc(g) # "start"
    BY DEF AwaitPc
  <1>5. StackInv' /\ Stacks'
    BY <1>1, <1>3, <1>4, StackSwap DEF CoreInv, TypeInv, Stacks, Active, StartAwait
  <1>6. TypeInv'
    BY <1>2, <1>3, <1>5, StacksRange DEF CoreInv, TypeInv, TypeOK, Stacks
  <1>7. PlaceInv'
    <2>1. /\ \A h \in {f, g} : h \notin Placed /\ \A x \in Frames : Live(x) => frame[x].cont # h
          /\ Live(g) => frame[g].cont = None
      BY <1>1, NotAwaited DEF CoreInv, Asleep, Awaits, Unstarted, ContInv, ContOK, Fresh, Live
    <2>2. /\ \A h \in Frames : h # g => (Live(h)' <=> Live(h)) /\ frame'[h].cont = frame[h].cont
          /\ \A h \in Frames : h \notin {f, g} => (Asleep(h)' <=> Asleep(h))
          /\ Live(g)' /\ frame'[g].cont = f /\ Asleep(f)' /\ ~Asleep(g)' /\ ~Asleep(f)
          /\ Placed' = Placed
      BY <1>1, <1>2, <1>3, <1>4 DEF Live, Asleep, Placed
    <2> USE FrameForm DEF CoreInv, PlaceInv
    <2>3. \A h \in Placed' : Asleep(h)'
      BY <1>6, <2>1, <2>2, ZenonT(60) DEF TypeInv, TypeOK, Placed
    <2>4. (\A h \in Frames : Live(h) /\ frame[h].cont # None =>
             Asleep(frame[h].cont) /\ frame[h].cont \notin Placed)'
      <3> SUFFICES ASSUME NEW h \in Frames, Live(h)', frame'[h].cont # None
                   PROVE  \E c \in Frames : frame'[h].cont = c /\ Asleep(c)' /\ c \notin Placed'
        OBVIOUS
      <3>1. frame[h].cont \in Frames \cup {None}
        BY <1>3 DEF FrameState
      <3>2. CASE h = g
        BY <2>1, <2>2, <3>2
      <3>3. CASE h # g
        BY <2>1, <2>2, <3>1, <3>3 DEF Asleep
      <3>4. QED
        BY <3>2, <3>3
    <2>5. \A h, x \in Frames : Live(h)' /\ Live(x)' /\ frame'[h].cont # None
            /\ frame'[h].cont = frame'[x].cont => h = x
      BY <2>1, <2>2
    <2>6. \A h \in Frames : Asleep(h)' => h \in Placed' \/ \E x \in Frames : Live(x)' /\ frame'[x].cont = h
      BY <2>1, <2>2
    <2>7. QED
      BY <1>2, <2>3, <2>4, <2>5, <2>6
  <1>8. ContInv'
    <2> SUFFICES ASSUME NEW h \in Frames
                 PROVE  ContOK(h)'
      BY DEF ContInv
    <2>1. ContOK(h) /\ Placed' = Placed /\ abroad' = abroad /\ call' = call
      BY <1>2 DEF CoreInv, ContInv, Placed
    <2>2. CASE h = f
      BY <1>1, <1>4, <2>1, <2>2, NotAwaited DEF CoreInv, ContOK, Unstarted, Started, Asleep
    <2>3. CASE h = g
      <3>1. g \notin Placed
        BY <1>1, NotAwaited DEF CoreInv, ContInv, ContOK, Awaits, Asleep, Unstarted
      <3>2. f = <<g[1], Kind(f)>>
        BY FrameForm DEF Awaits, Kind
      <3>3. QED
        BY <1>1, <1>4, <2>1, <2>3, <3>1, <3>2 DEF ContOK, Unstarted, Started, Asleep
    <2>4. CASE h \notin {f, g}
      BY <1>3, <2>1, <2>4 DEF ContOK, Unstarted, Started, Asleep
    <2>5. QED
      BY <2>2, <2>3, <2>4
  <1>9. CallInv'
    <2> SUFFICES ASSUME NEW r \in Roots
                 PROVE  CallOK(r)'
      BY DEF CallInv
    <2>1. CASE r # f[1]
      <3>1. \A k \in Kinds : <<r, k>> \notin {f, g} /\ <<r, k>> \in Frames
        BY <2>1, FrameForm DEF Awaits
      <3>2. QED
        BY <1>2, <1>3, <3>1, CallSame DEF CoreInv, CallInv
    <2>2. CASE r = f[1]
      <3>1. f = <<r, Kind(f)>> /\ g = <<r, Kind(g)>> /\ CallOK(r) /\ call' = call
        BY <1>2, <2>2, FrameForm DEF Awaits, CoreInv, CallInv, Kind
      <3>2. \A k \in Kinds : k \notin {Kind(f), Kind(g)} => frame'[<<r, k>>] = frame[<<r, k>>]
        BY <1>3, <3>1, FrameForm DEF Kind
      <3>3. /\ frame[f].st = "running" /\ Kind(f) # Kind(g)
            /\ frame'[f].st = "suspended" /\ frame'[f].pc = AwaitPc(g) /\ frame'[f].cont = frame[f].cont
            /\ frame'[g].st = "running" /\ frame'[g].cont = f
            /\ frame'[g].pc = IF UserKind(g) THEN "body" ELSE "start"
            /\ frame'[f].failed = frame[f].failed /\ ~frame'[g].failed
        BY <1>1, <1>4, <3>1, AwaitEffect
      <3>0. Kind(f) = "spawn" => ~Started(<<r, "hop">>)
        <4>1. /\ ContOK(<<r, "hop">>) /\ Kind(<<r, "hop">>) = "hop" /\ <<r, "hop">>[1] = r
              /\ <<r, "hop">> \in Frames
          BY FrameForm DEF CoreInv, ContInv, Kinds, Kind
        <4>2. Started(<<r, "hop">>) => Live(<<r, "hop">>) /\ frame[<<r, "hop">>].cont = <<r, "spawn">>
          BY <4>1 DEF ContOK, Awaiters, Started, Asleep, Live
        <4>3. ~Asleep(f)
          BY <3>3 DEF Asleep
        <4>4. QED
          BY <3>1, <4>1, <4>2, <4>3, NotAwaited DEF CoreInv
      <3>4. CASE Kind(f) = "sync" /\ Kind(g) = "spawn"
        BY <3>1, <3>2, <3>3, <3>4, SMTT(30) DEF Awaits, AwaitPc, CallOK, Failed, State, At, Live, Started, Unstarted, Asleep, UserKind, Kinds
      <3>5. CASE Kind(f) = "sync" /\ Kind(g) = "task"
        BY <3>1, <3>2, <3>3, <3>5 DEF Awaits, AwaitPc, CallOK, Failed, State, At, Live, Started, Unstarted, Asleep, UserKind, Kinds
      <3>6. CASE Kind(f) = "spawn" /\ Kind(g) = "task"
        BY <3>0, <3>1, <3>2, <3>3, <3>6 DEF Awaits, AwaitPc, CallOK, Failed, State, At, Live, Started, Unstarted, Asleep, UserKind, Kinds
      <3>7. CASE Kind(f) = "spawn" /\ Kind(g) = "steal"
        BY <3>0, <3>1, <3>2, <3>3, <3>7 DEF Awaits, AwaitPc, CallOK, Failed, State, At, Live, Started, Unstarted, Asleep, UserKind, Kinds
      <3>8. CASE Kind(f) = "steal" /\ Kind(g) = "inner"
        BY <3>1, <3>2, <3>3, <3>8 DEF Awaits, AwaitPc, CallOK, Failed, State, At, Live, Started, Unstarted, Asleep, UserKind, Kinds
      <3>9. CASE Kind(f) = "task" /\ Kind(g) = "steal"
        BY <3>1, <3>2, <3>3, <3>9 DEF Awaits, AwaitPc, CallOK, Failed, State, At, Live, Started, Unstarted, Asleep, UserKind, Kinds
      <3>10. CASE Kind(f) = "child" /\ Kind(g) = "steal"
        <4>1. State(r, "task") # "none"
          <5>1. ContOK(f) /\ Started(f) /\ Live(f) /\ f[1] = r /\ f \in Frames
            BY <2>2, <3>3 DEF CoreInv, ContInv, Started, Live
          <5>2. frame[f].cont = <<r, "task">>
            BY <3>10, <5>1 DEF ContOK, Awaiters
          <5>3. "task" \in Kinds
            BY DEF Kinds
          <5>4. <<r, "task">> # None
            BY <5>3, FrameForm
          <5>5. Asleep(<<r, "task">>)
            BY <5>1, <5>2, <5>4 DEF CoreInv, PlaceInv
          <5>6. QED
            BY <5>5 DEF Asleep, State
        <4>2. QED
          BY <3>1, <3>2, <3>3, <3>10, <4>1 DEF Awaits, AwaitPc, CallOK, Failed, State, At, Live, Started, Unstarted, Asleep, UserKind, Kinds
      <3>11. CASE Kind(f) = "task" /\ Kind(g) = "child"
        BY <3>1, <3>2, <3>3, <3>11 DEF Awaits, AwaitPc, CallOK, Failed, State, At, Live, Started, Unstarted, Asleep, UserKind, Kinds
      <3>12. CASE Kind(f) = "spawn" /\ Kind(g) = "hop"
        BY <3>1, <3>2, <3>3, <3>12 DEF Awaits, AwaitPc, CallOK, Failed, State, At, Live, Started, Unstarted, Asleep, UserKind, Kinds
      <3>13. QED
        BY <3>4, <3>5, <3>6, <3>7, <3>8, <3>9, <3>10, <3>11, <3>12 DEF Awaits, UserKind
    <2>3. QED
      BY <2>1, <2>2
  <1>10. QED
    BY <1>5, <1>6, <1>7, <1>8, <1>9 DEF CoreInv

(* A frame that stays alive, and keeps its continuation, goes on.          *)
MovesOn(f) ==
    /\ Started(f) /\ Started(f)'
    /\ frame'[f].cont = frame[f].cont
    /\ \A h \in Frames : h # f => frame'[h] = frame[h]
    /\ \/ frame'[f].pc = frame[f].pc
       \/ /\ frame'[f].pc \notin {"start", "scheduled"} /\ Kind(f) # "spawn"
          /\ Kind(f) = "sync" => frame[f].pc # "start" \/ call[f[1]].plan = "bare"
    /\ Kind(f) = "hop" => frame'[f].failed = frame[f].failed

LEMMA MoveCall ==
  ASSUME CallInv, NEW f \in Frames, MovesOn(f), call' = call
  PROVE  CallInv'
  <1> SUFFICES ASSUME NEW r \in Roots
               PROVE  CallOK(r)'
    BY DEF CallInv
  <1>1. CASE r # f[1]
    <2>1. \A k \in Kinds : <<r, k>> # f /\ <<r, k>> \in Frames
      BY <1>1, FrameForm
    <2>2. QED
      BY <2>1, CallSame DEF CallInv, MovesOn
  <1>2. CASE r = f[1]
    <2>1. f = <<r, Kind(f)>> /\ Kind(f) \in Kinds /\ CallOK(r)
      BY <1>2, FrameForm DEF CallInv, Kind
    <2>2. \A k \in Kinds : k # Kind(f) => frame'[<<r, k>>] = frame[<<r, k>>]
      BY <2>1, FrameForm DEF MovesOn
    <2>3. /\ Started(f) /\ Started(f)' /\ frame'[f].cont = frame[f].cont
          /\ Live(f) /\ Live(f)'
          /\ \/ frame'[f].pc = frame[f].pc
             \/ /\ frame'[f].pc \notin {"start", "scheduled"} /\ Kind(f) # "spawn"
                /\ Kind(f) = "sync" => frame[f].pc # "start" \/ call[r].plan = "bare"
          /\ Kind(f) = "hop" => frame'[f].failed = frame[f].failed
      BY <1>2 DEF MovesOn, Live, Started, Asleep
    <2>4. CASE Kind(f) = "sync"
      BY <2>1, <2>2, <2>3, <2>4 DEF CallOK, Failed, State, At, Live, Started, Unstarted, Asleep, Kinds
    <2>5. CASE Kind(f) = "spawn"
      BY <2>1, <2>2, <2>3, <2>5 DEF CallOK, Failed, State, At, Live, Started, Unstarted, Asleep, Kinds
    <2>6. CASE Kind(f) = "task"
      BY <2>1, <2>2, <2>3, <2>6 DEF CallOK, Failed, State, At, Live, Started, Unstarted, Asleep, Kinds
    <2>7. CASE Kind(f) = "child"
      BY <2>1, <2>2, <2>3, <2>7 DEF CallOK, Failed, State, At, Live, Started, Unstarted, Asleep, Kinds
    <2>8. CASE Kind(f) = "steal"
      BY <2>1, <2>2, <2>3, <2>8 DEF CallOK, Failed, State, At, Live, Started, Unstarted, Asleep, Kinds
    <2>9. CASE Kind(f) = "inner"
      BY <2>1, <2>2, <2>3, <2>9 DEF CallOK, Failed, State, At, Live, Started, Unstarted, Asleep, Kinds
    <2>10. CASE Kind(f) = "hop"
      BY <2>1, <2>2, <2>3, <2>10 DEF CallOK, Failed, State, At, Live, Started, Unstarted, Asleep, Kinds
    <2>11. QED
      BY <2>1, <2>4, <2>5, <2>6, <2>7, <2>8, <2>9, <2>10 DEF Kinds
  <1>3. QED
    BY <1>1, <1>2

(* Where a frame that suspends goes.                                       *)
LEMMA ParkInv ==
  ASSUME CoreInv, NEW t \in Threads, NEW f \in Frames, NEW F \in FrameState, Active(t, f),
         F.st = "suspended", F.pc # "start",
         frame' = [frame EXCEPT ![f] = F], stack' = [stack EXCEPT ![t] = Front(@)],
         MovesOn(f), UNCHANGED <<call, notify>>,
         \/ posted' = posted \cup {f} /\ UNCHANGED <<timers, abroad>> /\ Kind(f) # "sync"
         \/ timers' = timers \cup {f} /\ UNCHANGED <<posted, abroad>> /\ Kind(f) # "sync"
         \/ /\ abroad' = abroad \cup {f} /\ UNCHANGED <<posted, timers>>
            /\ Kind(f) \in {"steal", "inner"} \/ (Kind(f) = "sync" /\ call[f[1]].plan = "bare")
  PROVE  CoreInv'
  <1>1. /\ frame[f].st = "running" /\ frame' \in [Frames -> FrameState] /\ frame'[f] = F
        /\ \A h \in Frames : h # f => frame'[h] = frame[h]
        /\ frame'[f].cont = frame[f].cont
    BY ActiveRuns, OneFrame DEF CoreInv, TypeInv, TypeOK, Stacks, Active, MovesOn
  <1>2. StackInv' /\ Stacks'
    BY <1>1, StackPop DEF CoreInv, TypeInv, Stacks, Active
  <1>3. TypeInv'
    BY <1>1, <1>2, StacksRange DEF CoreInv, TypeInv, TypeOK, Stacks
  <1>4. PlaceInv'
    <2>1. f \notin Placed /\ \A x \in Frames : Live(x) => frame[x].cont # f
      BY <1>1, NotAwaited DEF CoreInv, Asleep
    <2>2. /\ \A h \in Frames : (Live(h)' <=> Live(h)) /\ frame'[h].cont = frame[h].cont
          /\ \A h \in Frames : h # f => (Asleep(h)' <=> Asleep(h))
          /\ Asleep(f)' /\ ~Asleep(f)
          /\ Placed' = Placed \cup {f}
      BY <1>1 DEF Live, Asleep, Placed
    <2> USE FrameForm DEF CoreInv, PlaceInv
    <2>3. \A h \in Placed' : Asleep(h)'
      BY <1>3, <2>1, <2>2 DEF TypeInv, TypeOK, Placed
    <2>4. (\A h \in Frames : Live(h) /\ frame[h].cont # None =>
             Asleep(frame[h].cont) /\ frame[h].cont \notin Placed)'
      <3> SUFFICES ASSUME NEW h \in Frames, Live(h)', frame'[h].cont # None
                   PROVE  \E c \in Frames : frame'[h].cont = c /\ Asleep(c)' /\ c \notin Placed'
        OBVIOUS
      <3>1. frame[h].cont \in Frames \cup {None}
        BY <1>1 DEF FrameState, TypeInv, TypeOK
      <3>2. QED
        BY <2>1, <2>2, <3>1 DEF Asleep
    <2>5. \A h, x \in Frames : Live(h)' /\ Live(x)' /\ frame'[h].cont # None
            /\ frame'[h].cont = frame'[x].cont => h = x
      BY <2>1, <2>2
    <2>6. \A h \in Frames : Asleep(h)' => h \in Placed' \/ \E x \in Frames : Live(x)' /\ frame'[x].cont = h
      BY <2>1, <2>2
    <2>7. posted' \cap timers' = {} /\ posted' \cap abroad' = {} /\ timers' \cap abroad' = {}
      BY <2>1 DEF Placed
    <2>8. QED
      BY <2>3, <2>4, <2>5, <2>6, <2>7
  <1>5. ContInv'
    <2> SUFFICES ASSUME NEW h \in Frames
                 PROVE  ContOK(h)'
      BY DEF ContInv
    <2>1. ContOK(h)
      BY DEF CoreInv, ContInv
    <2>2. CASE h = f
      BY <1>1, <2>1, <2>2 DEF ContOK, Unstarted, Started, Asleep, Placed
    <2>3. CASE h # f
      BY <1>1, <2>1, <2>3 DEF ContOK, Unstarted, Started, Asleep, Placed
    <2>4. QED
      BY <2>2, <2>3
  <1>6. CallInv'
    BY MoveCall DEF CoreInv
  <1>7. QED
    BY <1>2, <1>3, <1>4, <1>5, <1>6 DEF CoreInv

(* A frame on a thread that could take it further anyway.                  *)
LEMMA StayInv ==
  ASSUME CoreInv, NEW t \in Threads, NEW f \in Frames, NEW F \in FrameState, Active(t, f),
         F.st = "running", frame' = [frame EXCEPT ![f] = F],
         MovesOn(f), UNCHANGED <<stack, posted, timers, abroad, call, notify>>
  PROVE  CoreInv'
  <1>1. /\ frame[f].st = "running" /\ frame' \in [Frames -> FrameState] /\ frame'[f] = F
        /\ \A h \in Frames : h # f => frame'[h] = frame[h]
        /\ frame'[f].cont = frame[f].cont
    BY ActiveRuns, OneFrame DEF CoreInv, TypeInv, TypeOK, Stacks, Active, MovesOn
  <1>2. \A h \in Frames : /\ frame'[h].st = frame[h].st /\ frame'[h].cont = frame[h].cont
                          /\ h # f => frame'[h] = frame[h]
                          /\ Live(h)' <=> Live(h)
                          /\ Asleep(h)' <=> Asleep(h)
                          /\ Started(h)' <=> Started(h)
                          /\ Unstarted(h)' <=> Unstarted(h)
    BY <1>1 DEF Live, Asleep, Started, Unstarted
  <1>3. TypeInv'
    BY <1>1 DEF CoreInv, TypeInv, TypeOK
  <1>4. StackInv'
    BY <1>2 DEF CoreInv, TypeInv, StackInv
  <1>5. PlaceInv'
    <2>1. \A h \in Frames : frame[h].cont \in Frames \cup {None}
      BY DEF CoreInv, TypeInv, TypeOK, FrameState
    <2>2. QED
      BY <1>2, <2>1 DEF CoreInv, PlaceInv, Placed, TypeInv, TypeOK
  <1>6. ContInv'
    BY <1>1, <1>2 DEF CoreInv, ContInv, ContOK, Placed, Unstarted
  <1>7. CallInv'
    BY MoveCall DEF CoreInv
  <1>8. QED
    BY <1>3, <1>4, <1>5, <1>6, <1>7 DEF CoreInv

(* A thread that was idle resumes a frame from its place.                  *)
LEMMA WakeInv ==
  ASSUME CoreInv, NEW t \in Threads, NEW f \in Placed, NEW F \in FrameState,
         stack[t] = <<>>, Resume(t, f), F.st = "running", frame' = [frame EXCEPT ![f] = F],
         MovesOn(f), UNCHANGED <<timers, call, notify>>,
         \/ f \in posted /\ posted' = posted \ {f} /\ UNCHANGED abroad
         \/ f \in abroad /\ abroad' = abroad \ {f} /\ UNCHANGED posted
  PROVE  CoreInv'
  <1>1. f \in Frames
    BY DEF CoreInv, TypeInv, TypeOK, Placed
  <1>2. /\ Asleep(f) /\ frame[f].st = "suspended"
        /\ frame' \in [Frames -> FrameState] /\ frame'[f] = F
        /\ \A h \in Frames : h # f => frame'[h] = frame[h]
        /\ frame'[f].cont = frame[f].cont
    BY <1>1, OneFrame DEF CoreInv, TypeInv, TypeOK, PlaceInv, Asleep, MovesOn
  <1>3. StackInv' /\ Stacks'
    <2>1. stack' = [stack EXCEPT ![t] = Append(@, f)]
      BY DEF Resume
    <2>2. QED
      BY <1>1, <1>2, <2>1, StackPush DEF CoreInv, TypeInv, Stacks
  <1>4. TypeInv'
    BY <1>1, <1>2, <1>3, StacksRange DEF CoreInv, TypeInv, TypeOK, Stacks
  <1>5. PlaceInv'
    <2>1. \A x \in Frames : Live(x) => frame[x].cont # f
      BY <1>1, FrameForm DEF CoreInv, PlaceInv
    <2>2. /\ \A h \in Frames : (Live(h)' <=> Live(h)) /\ frame'[h].cont = frame[h].cont
          /\ \A h \in Frames : h # f => (Asleep(h)' <=> Asleep(h))
          /\ ~Asleep(f)'
          /\ Placed' = Placed \ {f}
      BY <1>2 DEF Live, Asleep, Placed, CoreInv, PlaceInv
    <2> USE FrameForm DEF CoreInv, PlaceInv
    <2>3. \A h \in Placed' : Asleep(h)'
      BY <1>4, <2>2 DEF TypeInv, TypeOK, Placed
    <2>4. (\A h \in Frames : Live(h) /\ frame[h].cont # None =>
             Asleep(frame[h].cont) /\ frame[h].cont \notin Placed)'
      <3> SUFFICES ASSUME NEW h \in Frames, Live(h)', frame'[h].cont # None
                   PROVE  \E c \in Frames : frame'[h].cont = c /\ Asleep(c)' /\ c \notin Placed'
        OBVIOUS
      <3>1. frame[h].cont \in Frames \cup {None}
        BY DEF FrameState, TypeInv, TypeOK
      <3>2. QED
        BY <2>1, <2>2, <3>1
    <2>5. \A h, x \in Frames : Live(h)' /\ Live(x)' /\ frame'[h].cont # None
            /\ frame'[h].cont = frame'[x].cont => h = x
      BY <2>2
    <2>6. \A h \in Frames : Asleep(h)' => h \in Placed' \/ \E x \in Frames : Live(x)' /\ frame'[x].cont = h
      BY <2>2
    <2>7. posted' \cap timers' = {} /\ posted' \cap abroad' = {} /\ timers' \cap abroad' = {}
      OBVIOUS
    <2>8. QED
      BY <2>3, <2>4, <2>5, <2>6, <2>7
  <1>6. ContInv'
    <2> SUFFICES ASSUME NEW h \in Frames
                 PROVE  ContOK(h)'
      BY DEF ContInv
    <2>1. ContOK(h)
      BY DEF CoreInv, ContInv
    <2>2. CASE h = f
      BY <1>2, <2>1, <2>2 DEF ContOK, Unstarted, Started, Asleep, Placed
    <2>3. CASE h # f
      BY <1>2, <2>1, <2>3 DEF ContOK, Unstarted, Started, Asleep, Placed
    <2>4. QED
      BY <2>2, <2>3
  <1>7. CallInv'
    BY <1>1, MoveCall DEF CoreInv
  <1>8. QED
    BY <1>3, <1>4, <1>5, <1>6, <1>7 DEF CoreInv

(* A timer that fires posts what waited for it: the frames stay.           *)
LEMMA FireInv ==
  ASSUME CoreInv, NEW f \in timers, TimerFires(f)
  PROVE  CoreInv'
  <1>1. TypeInv'
    BY DEF CoreInv, TypeInv, TypeOK, TimerFires
  <1>2. StackInv'
    BY DEF CoreInv, StackInv, TimerFires
  <1>3. PlaceInv'
    <2>1. Placed' = Placed
      BY DEF TimerFires, Placed
    <2>2. UNCHANGED <<frame, abroad>> /\ timers' = timers \ {f} /\ posted' = posted \cup {f}
      BY DEF TimerFires
    <2>3. f \notin abroad /\ f \notin posted
      BY DEF CoreInv, PlaceInv
    <2>4. posted' \cap timers' = {} /\ posted' \cap abroad' = {} /\ timers' \cap abroad' = {}
      BY <2>2, <2>3 DEF CoreInv, PlaceInv
    <2>5. QED
      BY <2>1, <2>2, <2>4 DEF CoreInv, PlaceInv, Asleep, Live
  <1>4. ContInv'
    BY DEF CoreInv, ContInv, ContOK, TimerFires, Placed, Unstarted, Started, Asleep
  <1>5. CallInv'
    BY CallSame DEF CoreInv, CallInv, TimerFires
  <1>6. QED
    BY <1>1, <1>2, <1>3, <1>4, <1>5 DEF CoreInv

(* notify_all() finds what the exchange left.                              *)
LEMMA NotifyInv ==
  ASSUME CoreInv, NEW t \in Threads, NEW r \in Roots, Notify(t, r)
  PROVE  CoreInv'
  <1>0. UNCHANGED <<frame, stack, posted, timers, abroad, call>>
    BY DEF Notify, places
  <1>1. TypeInv'
    BY <1>0 DEF CoreInv, TypeInv, TypeOK, Notify
  <1>2. StackInv' /\ PlaceInv' /\ ContInv'
    BY <1>0 DEF CoreInv, StackInv, PlaceInv, Placed, Asleep, Live, ContInv, ContOK, Unstarted, Started
  <1>3. CallInv'
    BY <1>0, CallSame DEF CoreInv, CallInv
  <1>4. QED
    BY <1>1, <1>2, <1>3 DEF CoreInv

(* The exchange changes nothing but the fence of a call that is over.      *)
LEMMA SignalStepInv ==
  ASSUME CoreInv, SignalInv, NEW t \in Threads, NEW r \in Roots, Signal(t, r)
  PROVE  CoreInv'
  <1>1. /\ UNCHANGED <<frame, stack, posted, timers, abroad>>
        /\ call' = [call EXCEPT ![r].fence = TRUE] /\ notify' = [notify EXCEPT ![t] = <<"notify", r>>]
    BY DEF Signal, places
  <1>2. /\ call' \in [Roots -> CallState]
        /\ call'[r].st = call[r].st
        /\ \A q \in Roots : q # r => call'[q] = call[q]
        /\ \A q \in Roots : call'[q].plan = call[q].plan
    <2>1. call \in [Roots -> CallState] /\ call[r] \in CallState
      BY DEF CoreInv, TypeInv, TypeOK
    <2>2. [call[r] EXCEPT !.fence = TRUE] \in CallState
      BY <2>1 DEF CallState
    <2>3. QED
      BY <1>1, <2>1, <2>2 DEF CallState
  <1>3. TypeInv'
    BY <1>1, <1>2 DEF CoreInv, TypeInv, TypeOK
  <1>4. StackInv' /\ PlaceInv'
    BY <1>1 DEF CoreInv, StackInv, PlaceInv, Placed, Asleep, Live
  <1>5. ContInv'
    BY <1>1, <1>2, FrameForm DEF CoreInv, ContInv, ContOK, Unstarted, Started, Asleep, Placed
  <1>6. CallInv'
    <2> SUFFICES ASSUME NEW q \in Roots
                 PROVE  CallOK(q)'
      BY DEF CallInv
    <2>1. CASE q # r
      BY <1>1, <1>2, <2>1, CallSame DEF CoreInv, CallInv
    <2>2. CASE q = r
      <3>1. State(r, "sync") = "final" /\ CallOK(r)
        BY DEF SignalInv, Signal, CoreInv, CallInv
      <3>2. QED
        BY <1>1, <1>2, <2>2, <3>1 DEF CallOK, Kinds, State, Failed, At, Live, Unstarted, Started, Asleep
    <2>3. QED
      BY <2>1, <2>2
  <1>7. QED
    BY <1>3, <1>4, <1>5, <1>6 DEF CoreInv

(* The sync_task is over: it was awaited by nobody, and awaits nothing.    *)
LEMMA FinalInv ==
  ASSUME CoreInv, NEW t \in Threads, NEW f \in Frames, FinalSync(t, f)
  PROVE  CoreInv'
  <1> DEFINE F == [frame[f] EXCEPT !.st = "final"]
             r == f[1]
  <1>1. /\ Active(t, f) /\ Kind(f) = "sync" /\ frame[f].pc = "return"
        /\ frame' = [frame EXCEPT ![f] = F] /\ stack' = [stack EXCEPT ![t] = Front(@)]
        /\ notify' = [notify EXCEPT ![t] = <<"signal", r>>]
        /\ UNCHANGED <<posted, timers, abroad, call>>
    BY DEF FinalSync, Runs, Active, places
  <1>2. frame[f].st = "running" /\ frame[f] \in FrameState /\ F \in FrameState
        /\ F.st = "final" /\ F.cont = frame[f].cont /\ F.pc = frame[f].pc
    BY <1>1, ActiveRuns DEF CoreInv, TypeInv, TypeOK, Stacks, Active, FrameState
  <1> HIDE DEF F
  <1>3. /\ frame' \in [Frames -> FrameState] /\ frame'[f] = F
        /\ \A h \in Frames : h # f => frame'[h] = frame[h]
    BY <1>1, <1>2, OneFrame DEF CoreInv, TypeInv, TypeOK
  <1>4. StackInv' /\ Stacks'
    BY <1>1, <1>2, <1>3, StackPop DEF CoreInv, TypeInv, Stacks, Active
  <1>5. r \in Roots /\ f = <<r, "sync">>
    BY <1>1, FrameForm DEF Kind
  <1>6. TypeInv'
    BY <1>1, <1>3, <1>4, <1>5, StacksRange DEF CoreInv, TypeInv, TypeOK, Stacks
  <1>7. PlaceInv'
    <2>1. f \notin Placed /\ \A x \in Frames : Live(x) => frame[x].cont # f
      BY <1>2, NotAwaited DEF CoreInv, Asleep
    <2>2. /\ frame[f].cont = None
          /\ \A h \in Frames : h # f => (Live(h)' <=> Live(h)) /\ frame'[h].cont = frame[h].cont
          /\ \A h \in Frames : (Asleep(h)' <=> Asleep(h))
          /\ ~Live(f)' /\ Placed' = Placed
      BY <1>1, <1>2, <1>3 DEF Live, Asleep, Placed, CoreInv, ContInv, ContOK, Started
    <2> USE FrameForm DEF CoreInv, PlaceInv
    <2>3. \A h \in Placed' : Asleep(h)'
      BY <1>6, <2>2 DEF TypeInv, TypeOK, Placed
    <2>4. (\A h \in Frames : Live(h) /\ frame[h].cont # None =>
             Asleep(frame[h].cont) /\ frame[h].cont \notin Placed)'
      <3> SUFFICES ASSUME NEW h \in Frames, Live(h)', frame'[h].cont # None
                   PROVE  \E c \in Frames : frame'[h].cont = c /\ Asleep(c)' /\ c \notin Placed'
        OBVIOUS
      <3>1. frame[h].cont \in Frames \cup {None}
        BY DEF FrameState, TypeInv, TypeOK
      <3>2. QED
        BY <2>1, <2>2, <3>1
    <2>5. \A h, x \in Frames : Live(h)' /\ Live(x)' /\ frame'[h].cont # None
            /\ frame'[h].cont = frame'[x].cont => h = x
      BY <2>2
    <2>6. \A h \in Frames : Asleep(h)' => h \in Placed' \/ \E x \in Frames : Live(x)' /\ frame'[x].cont = h
      BY <2>2
    <2>7. QED
      BY <1>1, <2>3, <2>4, <2>5, <2>6
  <1>8. ContInv'
    <2> SUFFICES ASSUME NEW h \in Frames
                 PROVE  ContOK(h)'
      BY DEF ContInv
    <2>1. ContOK(h) /\ Placed' = Placed
      BY <1>1 DEF CoreInv, ContInv, Placed
    <2>3. CASE h = f
      BY <1>1, <1>2, <1>3, <2>1, <2>3, NotAwaited DEF ContOK, Unstarted, Started, Asleep, CoreInv
    <2>4. CASE h # f
      BY <1>1, <1>3, <2>1, <2>4 DEF ContOK, Unstarted, Started, Asleep
    <2>5. QED
      BY <2>3, <2>4
  <1>9. CallInv'
    <2> SUFFICES ASSUME NEW q \in Roots
                 PROVE  CallOK(q)'
      BY DEF CallInv
    <2>1. CASE q # r
      BY <1>1, <1>3, <1>5, <2>1, FrameForm, CallSame DEF CoreInv, CallInv
    <2>2. CASE q = r
      <3>1. \A k \in Kinds : k # "sync" => frame'[<<r, k>>] = frame[<<r, k>>]
        BY <1>3, <1>5, FrameForm
      <3>2. /\ frame'[<<r, "sync">>].st = "final" /\ frame[<<r, "sync">>].st = "running"
            /\ frame[<<r, "sync">>].pc = "return" /\ frame'[<<r, "sync">>].pc = "return"
            /\ call' = call /\ CallOK(r)
        BY <1>1, <1>2, <1>3, <1>5 DEF CoreInv, CallInv
      <3>3. QED
        BY <2>2, <3>1, <3>2 DEF CallOK, Failed, State, At, Live, Started, Unstarted, Asleep, Kinds
    <2>3. QED
      BY <2>1, <2>2
  <1>10. QED
    BY <1>4, <1>6, <1>7, <1>8, <1>9 DEF CoreInv

(* A call makes its frames, none of which existed before.                  *)
LEMMA SyncCallInv ==
  ASSUME CoreInv, NEW t \in Threads, NEW r \in Roots, NEW plan \in Plans, SyncCall(t, r, plan)
  PROVE  CoreInv'
  <1> DEFINE new == {h \in Frames : h[1] = r /\ Kind(h) \in Argument(plan)}
             s == <<r, "sync">>
  <1>1. /\ s \in Frames /\ s \notin new /\ new \subseteq Frames
        /\ \A h \in Frames : h[1] = r => frame[h].st = "none"
        /\ \A h \in new : Kind(h) \in {"spawn", "task"}
    <2>1. \A k \in Kinds : State(r, k) = "none"
      BY DEF SyncCall, CoreInv, CallInv, CallOK
    <2>2. "sync" \in Kinds /\ Argument(plan) \subseteq {"spawn", "task"}
      BY CoroutineAssumption DEF Argument, Kinds
    <2>3. QED
      BY <2>1, <2>2, FrameForm DEF State, Kind
  <1>2. /\ call[r].st = "new"
        /\ frame \in [Frames -> FrameState] /\ frame' \in [Frames -> FrameState]
        /\ frame'[s] = [Fresh EXCEPT !.st = "running"] /\ \A h \in new : frame'[h] = Fresh
        /\ \A h \in Frames \ new : h # s => frame'[h] = frame[h]
        /\ stack' = [stack EXCEPT ![t] = Append(@, s)]
        /\ UNCHANGED <<posted, timers, abroad, notify>>
    <2>1. [Fresh EXCEPT !.st = "running"] \in FrameState /\ Fresh \in FrameState
      BY FreshStates DEF FrameState
    <2>2. frame \in [Frames -> FrameState]
      BY DEF CoreInv, TypeInv, TypeOK
    <2>3. frame' = [h \in Frames |-> IF h = s THEN [Fresh EXCEPT !.st = "running"]
                                     ELSE IF h[1] = r /\ Kind(h) \in Argument(plan) THEN Fresh
                                     ELSE frame[h]]
      BY DEF SyncCall
    <2>4. frame' \in [Frames -> FrameState]
      BY <2>1, <2>2, <2>3
    <2>5. QED
      BY <1>1, <2>2, <2>3, <2>4 DEF SyncCall, places
  <1>3. /\ frame'[s].st = "running" /\ frame'[s].cont = None
        /\ \A h \in new : frame'[h].st = "suspended" /\ frame'[h].pc = "start" /\ frame'[h].cont = None
    BY <1>2 DEF Fresh
  <1>4. /\ call' \in [Roots -> CallState]
        /\ call'[r].st = "called" /\ call'[r].plan = plan /\ call'[r].fence = FALSE
        /\ \A q \in Roots : q # r => call'[q] = call[q]
    <2>1. call \in [Roots -> CallState] /\ Len(stack[t]) \in Nat
      BY DEF CoreInv, TypeInv, TypeOK
    <2>2. [st |-> "called", plan |-> plan, by |-> t, depth |-> Len(stack[t]), fence |-> FALSE] \in CallState
      BY <2>1 DEF CallState
    <2>3. QED
      BY <2>1, <2>2 DEF SyncCall
  <1> HIDE DEF s
  <1>5. StackInv' /\ Stacks'
    <2>1. s \in Frames /\ s[1] = r
      BY <1>1 DEF s
    <2>2. \A h \in Frames : h # s => (frame'[h].st = "running" <=> frame[h].st = "running")
      BY <1>1, <1>2, <1>3
    <2>3. frame[s].st # "running" /\ frame'[s].st = "running"
      BY <1>1, <1>3, <2>1
    <2>4. Stacks /\ StackInv
      BY DEF CoreInv, TypeInv, Stacks
    <2>5. QED
      BY <1>2, <2>1, <2>2, <2>3, <2>4, StackPush
  <1>6. TypeInv'
    BY <1>2, <1>4, <1>5, StacksRange DEF CoreInv, TypeInv, TypeOK, Stacks
  <1>7. /\ \A h \in Frames : h[1] = r => h \notin Placed /\ \A x \in Frames : Live(x) => frame[x].cont # h
        /\ Placed' = Placed
    <2>1. \A h \in Frames : h[1] = r => ~Asleep(h)
      BY <1>1 DEF Asleep
    <2>2. Placed' = Placed
      BY <1>2 DEF Placed
    <2>3. QED
      BY <2>1, <2>2, NotAwaited DEF CoreInv
  <1>8. PlaceInv'
    <2>1. /\ \A h \in Frames : Live(h)' /\ frame'[h].cont # None => Live(h) /\ frame'[h].cont = frame[h].cont
          /\ \A h \in Frames : Live(h) => Live(h)' /\ frame'[h].cont = frame[h].cont
          /\ \A h \in Frames : (Asleep(h)' <=> Asleep(h))
      BY <1>1, <1>2, <1>3, ZenonT(60) DEF Live, Asleep, s
    <2> USE FrameForm DEF CoreInv, PlaceInv
    <2>2. \A h \in Placed' : Asleep(h)'
      BY <1>6, <1>7, <2>1 DEF TypeInv, TypeOK, Placed
    <2>3. (\A h \in Frames : Live(h) /\ frame[h].cont # None =>
             Asleep(frame[h].cont) /\ frame[h].cont \notin Placed)'
      <3> SUFFICES ASSUME NEW h \in Frames, Live(h)', frame'[h].cont # None
                   PROVE  \E c \in Frames : frame'[h].cont = c /\ Asleep(c)' /\ c \notin Placed'
        OBVIOUS
      <3>1. frame[h].cont \in Frames \cup {None}
        BY DEF FrameState, TypeInv, TypeOK
      <3>2. QED
        BY <1>7, <2>1, <3>1
    <2>4. \A h, x \in Frames : Live(h)' /\ Live(x)' /\ frame'[h].cont # None
            /\ frame'[h].cont = frame'[x].cont => h = x
      BY <2>1
    <2>5. \A h \in Frames : Asleep(h)' => h \in Placed' \/ \E x \in Frames : Live(x)' /\ frame'[x].cont = h
      BY <1>7, <2>1
    <2>6. QED
      BY <1>2, <2>2, <2>3, <2>4, <2>5
  <1>9. ContInv'
    <2> SUFFICES ASSUME NEW h \in Frames
                 PROVE  ContOK(h)'
      BY DEF ContInv
    <2>1. ContOK(h) /\ h[1] \in Roots /\ abroad' = abroad
      BY <1>2, FrameForm DEF CoreInv, ContInv
    <2>2. CASE h = s
      BY <1>1, <1>3, <1>7, <2>2 DEF ContOK, Unstarted, Started, Asleep, Kind, s
    <2>3. CASE h \in new
      BY <1>1, <1>2, <1>3, <1>7, <2>3 DEF ContOK, Unstarted, Started, Asleep
    <2>4. CASE h[1] = r /\ h # s /\ h \notin new
      BY <1>1, <1>2, <1>7, <2>4 DEF ContOK, Unstarted, Started, Asleep
    <2>5. CASE h[1] # r
      BY <1>2, <1>4, <1>7, <2>1, <2>5 DEF ContOK, Unstarted, Started, Asleep, s
    <2>6. QED
      BY <2>2, <2>3, <2>4, <2>5
  <1>10. CallInv'
    <2> SUFFICES ASSUME NEW q \in Roots
                 PROVE  CallOK(q)'
      BY DEF CallInv
    <2>1. CASE q # r
      BY <1>2, <1>4, <2>1, FrameForm, CallSame DEF CoreInv, CallInv, s
    <2>2. CASE q = r
      <3> USE DEF s
      <3>1. \A k \in Kinds : <<r, k>> \in new <=> k \in Argument(plan)
        BY FrameForm DEF Kind
      <3>2. \A k \in Kinds : k # "sync" =>
              IF k \in Argument(plan)
              THEN frame'[<<r, k>>].st = "suspended" /\ frame'[<<r, k>>].pc = "start"
              ELSE frame'[<<r, k>>].st = "none" /\ frame'[<<r, k>>] = frame[<<r, k>>]
        BY <1>1, <1>2, <1>3, <3>1, FrameForm
      <3>3. /\ frame'[<<r, "sync">>].st = "running" /\ frame'[<<r, "sync">>].pc = "start"
        BY <1>2 DEF Fresh
      <3>4. plan \in {"task", "foreign", "bare", "direct"} /\ ~Failed(r, "hop")
        BY CoroutineAssumption DEF CoreInv, CallInv, CallOK
      <3>5. CASE plan = "task"
        BY <1>4, <2>2, <3>2, <3>3, <3>4, <3>5 DEF CallOK, Failed, State, At, Live, Started, Unstarted, Asleep, Kinds, Argument
      <3>6. CASE plan = "foreign"
        BY <1>4, <2>2, <3>2, <3>3, <3>4, <3>6 DEF CallOK, Failed, State, At, Live, Started, Unstarted, Asleep, Kinds, Argument
      <3>7. CASE plan = "bare"
        BY <1>4, <2>2, <3>2, <3>3, <3>4, <3>7 DEF CallOK, Failed, State, At, Live, Started, Unstarted, Asleep, Kinds, Argument
      <3>8. CASE plan = "direct"
        BY <1>4, <2>2, <3>2, <3>3, <3>4, <3>8 DEF CallOK, Failed, State, At, Live, Started, Unstarted, Asleep, Kinds, Argument
      <3>9. QED
        BY <3>4, <3>5, <3>6, <3>7, <3>8
    <2>3. QED
      BY <2>1, <2>2
  <1>11. QED
    BY <1>5, <1>6, <1>8, <1>9, <1>10 DEF CoreInv

(* Once the sync_task is over so is every coroutine of its call: each of   *)
(* them is awaited by one that would have to be asleep, and the chain of   *)
(* those ends at the sync_task.                                            *)
LEMMA Quiet ==
  ASSUME CoreInv, NEW r \in Roots, State(r, "sync") = "final"
  PROVE  \A k \in Kinds : ~Live(<<r, k>>)
  <1>1. CallOK(r) /\ \A k \in Kinds : /\ <<r, k>> \in Frames /\ ContOK(<<r, k>>)
                                      /\ Kind(<<r, k>>) = k /\ <<r, k>>[1] = r
    BY FrameForm DEF CoreInv, CallInv, ContInv, Kind
  <1>2. \A k \in Kinds : Live(<<r, k>>) => Unstarted(<<r, k>>) \/ Started(<<r, k>>)
    BY DEF Live, Unstarted, Started, Asleep
  <1>3. \A k, l \in Kinds : Live(<<r, k>>) /\ frame[<<r, k>>].cont = <<r, l>> => Live(<<r, l>>)
    BY <1>1, FrameForm DEF CoreInv, PlaceInv, Asleep, Live
  <1> USE DEF Kinds
  <1>4. ~Live(<<r, "sync">>)
    BY DEF State, Live
  <1>5. \A k \in Kinds : Unstarted(<<r, k>>) => k \in {"spawn", "task"}
    BY <1>1 DEF ContOK
  <1>6. ~Unstarted(<<r, "spawn">>)
    BY <1>1, <1>4 DEF CallOK, At
  <1>7. ~Live(<<r, "spawn">>)
    BY <1>1, <1>2, <1>3, <1>4, <1>6 DEF ContOK, Awaiters
  <1>8. ~Unstarted(<<r, "task">>)
    BY <1>1, <1>4, <1>7 DEF CallOK, At
  <1>9. ~Live(<<r, "task">>)
    BY <1>1, <1>2, <1>3, <1>4, <1>7, <1>8 DEF ContOK, Awaiters
  <1>10. ~Live(<<r, "child">>)
    BY <1>1, <1>2, <1>3, <1>5, <1>9 DEF ContOK, Awaiters
  <1>11. ~Live(<<r, "steal">>)
    BY <1>1, <1>2, <1>3, <1>5, <1>7, <1>9, <1>10 DEF ContOK, Awaiters
  <1>12. ~Live(<<r, "inner">>)
    BY <1>1, <1>2, <1>3, <1>5, <1>11 DEF ContOK, Awaiters
  <1>13. ~Live(<<r, "hop">>)
    BY <1>1, <1>2, <1>5, <1>7 DEF CallOK, At
  <1>14. QED
    BY <1>4, <1>7, <1>9, <1>10, <1>11, <1>12, <1>13

(* sync() returns, and destroys frames that are over only.                 *)
LEMMA SyncReturnInv ==
  ASSUME CoreInv, NEW t \in Threads, NEW r \in Roots, SyncReturn(t, r)
  PROVE  CoreInv'
  <1>1. /\ call[r].st = "called" /\ call[r].fence
        /\ frame' = [h \in Frames |-> IF h \in Owned(r) /\ frame[h].st # "none"
                                         THEN [frame[h] EXCEPT !.st = "destroyed"]
                                         ELSE frame[h]]
        /\ UNCHANGED <<stack, posted, timers, abroad, notify>>
    BY DEF SyncReturn, Waiting, DestroyAll, places
  <1>2. \A h \in Frames : h[1] = r => ~Live(h)
    <2>1. State(r, "sync") = "final"
      BY <1>1 DEF CoreInv, CallInv, CallOK
    <2>2. QED
      BY <2>1, Quiet, FrameForm
  <1>3. /\ call' \in [Roots -> CallState]
        /\ call'[r].st \in {"returned", "threw"} /\ call'[r].plan = call[r].plan
        /\ call'[r].fence = call[r].fence
        /\ \A q \in Roots : q # r => call'[q] = call[q]
    <2> DEFINE st == IF frame[<<r, "sync">>].failed THEN "threw" ELSE "returned"
    <2>1. call \in [Roots -> CallState] /\ call' = [call EXCEPT ![r].st = st]
      BY DEF SyncReturn, CoreInv, TypeInv, TypeOK
    <2>2. st \in {"returned", "threw"}
      OBVIOUS
    <2> HIDE DEF st
    <2>3. [call[r] EXCEPT !.st = st] \in CallState
      BY <2>1, <2>2 DEF CallState
    <2>4. call'[r] = [call[r] EXCEPT !.st = st]
      BY <2>1
    <2>5. QED
      BY <2>1, <2>2, <2>3, <2>4 DEF CallState
  <1>4. /\ frame \in [Frames -> FrameState]
        /\ \A h \in Frames : frame'[h].cont = frame[h].cont /\ frame'[h].pc = frame[h].pc
        /\ \A h \in Frames : h \notin Owned(r) \/ frame[h].st = "none" => frame'[h] = frame[h]
        /\ \A h \in Frames : h \in Owned(r) /\ frame[h].st # "none" => frame'[h].st = "destroyed"
        /\ \A h \in Frames : frame'[h] \in FrameState
    BY <1>1, ZenonT(60) DEF CoreInv, TypeInv, TypeOK, FrameState
  <1>5. /\ \A h \in Frames : h[1] # r => frame'[h] = frame[h]
        /\ \A h \in Frames : (Live(h)' <=> Live(h)) /\ (Asleep(h)' <=> Asleep(h))
              /\ (Unstarted(h)' <=> Unstarted(h)) /\ (Started(h)' <=> Started(h))
        /\ \A h \in Frames : Live(h) => frame'[h] = frame[h]
        /\ \A h \in Frames : frame'[h].st = "running" <=> frame[h].st = "running"
        /\ Placed' = Placed
    <2>1. \A h \in Owned(r) : h[1] = r
      BY DEF Owned
    <2>2. \A h \in Frames : Live(h) => frame'[h] = frame[h]
      BY <1>2, <1>4, <2>1
    <2>3. \A h \in Frames : ~Live(h) => ~Live(h)'
      BY <1>4 DEF Live
    <2>4. \A h \in Frames : h[1] # r => frame'[h] = frame[h]
      BY <1>4, <2>1
    <2>5. \A h \in Frames : frame'[h].st = "running" <=> frame[h].st = "running"
      BY <2>2, <2>3 DEF Live
    <2>6. QED
      BY <1>1, <2>2, <2>3, <2>4, <2>5 DEF Live, Asleep, Unstarted, Started, Placed
  <1>6. TypeInv'
    <2>1. frame' \in [Frames -> FrameState]
      BY <1>1, <1>4
    <2>2. QED
      BY <1>1, <1>3, <2>1 DEF CoreInv, TypeInv, TypeOK
  <1>7. StackInv'
    BY <1>1, <1>5 DEF CoreInv, StackInv, TypeInv
  <1>8. PlaceInv'
    <2>1. \A h \in Frames : frame[h].cont \in Frames \cup {None}
      BY <1>4 DEF FrameState
    <2>2. QED
      BY <1>1, <1>4, <1>5, <2>1 DEF CoreInv, PlaceInv, Placed, TypeInv, TypeOK
  <1>9. ContInv'
    <2> SUFFICES ASSUME NEW h \in Frames
                 PROVE  ContOK(h)'
      BY DEF ContInv
    <2>1. ContOK(h) /\ h[1] \in Roots
      BY FrameForm DEF CoreInv, ContInv
    <2>2. call'[h[1]].plan = call[h[1]].plan
      BY <1>3, <2>1
    <2>3. Unstarted(h) => Live(h)
      BY DEF Unstarted, Live
    <2>4. QED
      BY <1>1, <1>4, <1>5, <2>1, <2>2, <2>3 DEF ContOK
  <1>10. CallInv'
    <2> SUFFICES ASSUME NEW q \in Roots
                 PROVE  CallOK(q)'
      BY DEF CallInv
    <2>1. CASE q # r
      BY <1>3, <1>5, <2>1, FrameForm, CallSame DEF CoreInv, CallInv
    <2>2. CASE q = r
      <3>1. \A k \in Kinds : /\ ~Live(<<r, k>>)' /\ ~Live(<<r, k>>)
                             /\ IF k \in {"sync", "spawn", "task"} /\ State(r, k) # "none"
                                THEN State(r, k)' = "destroyed" ELSE State(r, k)' = State(r, k)
        <4>1. \A k \in Kinds : <<r, k>> \in Owned(r) <=> k \in {"sync", "spawn", "task"}
          BY DEF Owned
        <4>2. QED
          BY <1>2, <1>4, <1>5, <4>1, FrameForm DEF State
      <3>2. CallOK(r)
        BY DEF CoreInv, CallInv
      <3>3. \A k \in Kinds : /\ State(r, k)' \in {"none", "suspended", "running", "final", "destroyed"}
                             /\ State(r, k)' \notin {"suspended", "running"}
        BY <1>4, <3>1, FrameForm DEF State, Live, FrameState
      <3>4. \A k \in Kinds : ~Unstarted(<<r, k>>)' /\ ~Started(<<r, k>>)'
        BY <3>1 DEF Unstarted, Started, Asleep, Live
      <3>5. \A k \in {"sync", "spawn", "task"} : /\ State(r, k)' \in {"none", "destroyed"}
                                                /\ State(r, k)' = "none" <=> State(r, k) = "none"
        BY <3>1, <3>3 DEF Kinds
      <3>6. \A k \in {"child", "hop", "steal", "inner"} : State(r, k)' = State(r, k)
        BY <3>1 DEF Kinds
      <3>7. /\ ~At(r, "steal", {"start"})' /\ ~At(r, "steal", {"start"})
            /\ ~At(r, "spawn", {"start"})' /\ ~At(r, "spawn", {"start"})
        BY <3>1 DEF At, Kinds
      <3>8. ~Failed(r, "hop")' /\ frame'[<<r, "sync">>].pc # "scheduled"
        <4>1. <<r, "hop">> \notin Owned(r) /\ <<r, "hop">> \in Frames /\ <<r, "sync">> \in Frames
          BY FrameForm DEF Owned, Kinds
        <4>2. QED
          BY <1>4, <3>2, <4>1 DEF CallOK, Failed
      <3>9. QED
        BY <1>1, <1>3, <2>2, <3>1, <3>2, <3>3, <3>4, <3>5, <3>6, <3>7, <3>8, SMTT(60) DEF CallOK, At, Kinds
    <2>3. QED
      BY <2>1, <2>2
  <1>11. QED
    BY <1>6, <1>7, <1>8, <1>9, <1>10 DEF CoreInv

(* What awaits a coroutine that runs.                                      *)
LEMMA Awaiter ==
  ASSUME CoreInv, NEW f \in Frames, frame[f].st = "running", Kind(f) # "sync"
  PROVE  /\ frame[f].cont \in Frames /\ frame[f].cont = <<f[1], Kind(frame[f].cont)>>
         /\ Kind(frame[f].cont) \in Awaiters(Kind(f)) /\ frame[f].cont # f
         /\ Asleep(frame[f].cont) /\ frame[f].cont \notin Placed
         /\ \A h \in Frames : h # f /\ Live(h) => frame[h].cont # frame[f].cont
  <1>1. PICK k \in Awaiters(Kind(f)) : frame[f].cont = <<f[1], k>>
    BY DEF CoreInv, ContInv, ContOK, Started
  <1>2. k \in Kinds
    BY FrameForm DEF Awaiters, Kinds, Kind
  <1>3. frame[f].cont \in Frames /\ frame[f].cont # None /\ Kind(frame[f].cont) = k
    BY <1>1, <1>2, FrameForm DEF Kind
  <1>4. Asleep(frame[f].cont) /\ frame[f].cont \notin Placed
    BY <1>3 DEF CoreInv, PlaceInv, Live
  <1>5. \A h \in Frames : h # f /\ Live(h) => frame[h].cont # frame[f].cont
    BY <1>3 DEF CoreInv, PlaceInv, Live
  <1>6. frame[f].cont # f
    BY <1>4 DEF Asleep
  <1>7. QED
    BY <1>1, <1>3, <1>4, <1>5, <1>6

(* A coroutine that is over resumes the one that awaited it.               *)
LEMMA FinishEffect ==
  ASSUME CoreInv, NEW t \in Threads, NEW f \in Frames, Active(t, f), Kind(f) # "sync",
         NEW failed \in BOOLEAN, NEW caught \in BOOLEAN, Finish(t, f, failed, caught),
         NEW g, g = frame[f].cont
  PROVE  /\ g \in Frames /\ g # f /\ g = <<f[1], Kind(g)>> /\ Kind(g) \in Awaiters(Kind(f))
         /\ Asleep(g) /\ g \notin Placed
         /\ \A h \in Frames : h # f /\ Live(h) => frame[h].cont # g
         /\ frame[f].st = "running"
         /\ frame' \in [Frames -> FrameState]
         /\ \A h \in Frames : h \notin {f, g} => frame'[h] = frame[h]
         /\ frame'[f].st = IF Kind(f) = "child" THEN "destroyed" ELSE "final"
         /\ frame'[f].failed = failed /\ frame'[f].pc = frame[f].pc /\ frame'[f].pay = frame[f].pay
         /\ frame'[g].st = "running" /\ frame'[g].cont = frame[g].cont /\ frame'[g].pay = frame[g].pay
         /\ frame'[g].failed = (failed /\ ~caught) /\ (caught => UserKind(g))
         /\ frame'[g].pc = IF failed /\ ~caught THEN "return" ELSE IF UserKind(g) THEN "body"
                           ELSE IF Kind(g) = "steal" THEN "resched" ELSE NextPc(frame[g].pc)
         /\ UNCHANGED <<posted, timers, abroad, call, notify>> /\ Transfer(t, g)
  <1> DEFINE F == [frame[f] EXCEPT !.st = IF Kind(f) = "child" THEN "destroyed" ELSE "final",
                                   !.failed = failed]
             G == Continue(failed, g, caught)
             thrown == failed /\ ~caught
             pc == IF thrown THEN "return" ELSE IF UserKind(g) THEN "body"
                   ELSE IF Kind(g) = "steal" THEN "resched" ELSE NextPc(frame[g].pc)
  <1>1. /\ g \in Frames /\ g # f /\ g = <<f[1], Kind(g)>> /\ Kind(g) \in Awaiters(Kind(f))
        /\ Asleep(g) /\ g \notin Placed
        /\ \A h \in Frames : h # f /\ Live(h) => frame[h].cont # g
        /\ frame[f].st = "running"
    BY ActiveRuns, Awaiter DEF CoreInv, TypeInv, Stacks, Active
  <1>2. frame' = [frame EXCEPT ![f] = F, ![g] = G] /\ UNCHANGED <<posted, timers, abroad, call, notify>>
        /\ Transfer(t, g) /\ (caught => UserKind(g))
    BY DEF Finish, places
  <1>3. /\ frame \in [Frames -> FrameState] /\ F \in FrameState /\ G \in FrameState
        /\ F.st = IF Kind(f) = "child" THEN "destroyed" ELSE "final"
        /\ F.failed = failed /\ F.pc = frame[f].pc /\ F.pay = frame[f].pay
        /\ G.st = "running" /\ G.cont = frame[g].cont /\ G.pay = frame[g].pay
        /\ G.failed = thrown /\ G.pc = pc
    <2>1. frame \in [Frames -> FrameState] /\ frame[f] \in FrameState /\ frame[g] \in FrameState
      BY <1>1 DEF CoreInv, TypeInv, TypeOK
    <2>2. /\ F \in FrameState /\ F.st = IF Kind(f) = "child" THEN "destroyed" ELSE "final"
          /\ F.failed = failed /\ F.pc = frame[f].pc /\ F.pay = frame[f].pay
      BY <2>1, ZenonT(60) DEF FrameState
    <2>3. /\ G \in FrameState /\ G.st = "running" /\ G.cont = frame[g].cont /\ G.pay = frame[g].pay
          /\ G.failed = thrown /\ G.pc = pc
      <3>1. thrown \in BOOLEAN /\ pc \in {"return", "body", "resched", "scheduled"}
        BY DEF NextPc
      <3>2. G = [frame[g] EXCEPT !.st = "running", !.failed = thrown, !.pc = pc]
        BY DEF Continue
      <3> HIDE DEF thrown, pc, G
      <3>3. QED
        BY <2>1, <3>1, <3>2, ZenonT(60) DEF FrameState
    <2>4. QED
      BY <2>1, <2>2, <2>3
  <1> HIDE DEF F, G
  <1>4. /\ frame' \in [Frames -> FrameState] /\ frame'[f] = F /\ frame'[g] = G
        /\ \A h \in Frames : h \notin {f, g} => frame'[h] = frame[h]
    BY <1>1, <1>2, <1>3
  <1>5. pc = IF failed /\ ~caught THEN "return" ELSE IF UserKind(g) THEN "body"
             ELSE IF Kind(g) = "steal" THEN "resched" ELSE NextPc(frame[g].pc)
    OBVIOUS
  <1>6. thrown = (failed /\ ~caught)
    OBVIOUS
  <1> HIDE DEF thrown, pc
  <1>7. QED
    BY <1>1, <1>2, <1>3, <1>4, <1>5, <1>6

LEMMA FinishInv ==
  ASSUME CoreInv, NEW t \in Threads, NEW f \in Frames, Active(t, f), Kind(f) # "sync",
         NEW failed \in BOOLEAN, NEW caught \in BOOLEAN, Finish(t, f, failed, caught),
         frame[f].pc \in {"body", "return"}, Kind(f) = "hop" => ~failed
  PROVE  CoreInv'
  <1>0. PICK g : g = frame[f].cont
    OBVIOUS
  <1>1. /\ g \in Frames /\ g # f /\ g = <<f[1], Kind(g)>> /\ Kind(g) \in Awaiters(Kind(f))
        /\ Asleep(g) /\ g \notin Placed
        /\ \A h \in Frames : h # f /\ Live(h) => frame[h].cont # g
        /\ frame[f].st = "running"
    BY <1>0, FinishEffect
  <1>2. UNCHANGED <<posted, timers, abroad, call, notify>>
    BY <1>0, FinishEffect
  <1>3. /\ frame'[f].st = IF Kind(f) = "child" THEN "destroyed" ELSE "final"
        /\ frame'[g].st = "running" /\ frame'[g].cont = frame[g].cont
        /\ frame'[g].pc # "start" /\ (Kind(g) = "sync" => frame'[g].pc # "scheduled")
        /\ Kind(g) = "spawn" => frame'[g].pc = IF failed THEN "return" ELSE NextPc(frame[g].pc)
        /\ frame'[f].failed = failed
    <2>1. /\ frame'[f].st = IF Kind(f) = "child" THEN "destroyed" ELSE "final"
          /\ frame'[g].st = "running" /\ frame'[g].cont = frame[g].cont
          /\ frame'[g].pc = IF failed /\ ~caught THEN "return" ELSE IF UserKind(g) THEN "body"
                            ELSE IF Kind(g) = "steal" THEN "resched" ELSE NextPc(frame[g].pc)
          /\ frame'[f].failed = failed /\ (caught => UserKind(g))
      BY <1>0, FinishEffect
    <2>2. Kind(g) = "sync" => frame[g].pc # "scheduled"
      <3>1. f[1] \in Roots /\ CallOK(f[1]) /\ g = <<f[1], Kind(g)>>
        BY <1>1, FrameForm DEF CoreInv, CallInv
      <3>2. QED
        BY <3>1 DEF CallOK
    <2>3. QED
      BY <2>1, <2>2 DEF UserKind, NextPc
  <1>4. /\ frame' \in [Frames -> FrameState]
        /\ \A h \in Frames : h \notin {f, g} => frame'[h] = frame[h]
    BY <1>0, FinishEffect
  <1>5. frame[f].cont = g
    BY <1>0
  <1>6. StackInv' /\ Stacks'
    <2>1. Transfer(t, g)
      BY <1>0, FinishEffect
    <2>2. Stacks /\ StackInv /\ frame[g].st # "running" /\ frame'[f].st # "running" /\ frame'[g].st = "running"
      BY <1>1, <1>3, <1>4 DEF CoreInv, TypeInv, Stacks, Asleep
    <2>3. QED
      BY <1>1, <1>4, <2>1, <2>2, StackSwap DEF Active
  <1>7. TypeInv'
    BY <1>2, <1>4, <1>6, StacksRange DEF CoreInv, TypeInv, TypeOK, Stacks
  <1>8. PlaceInv'
    <2>1. f \notin Placed /\ \A x \in Frames : Live(x) => frame[x].cont # f
      BY <1>1, NotAwaited DEF CoreInv, Asleep
    <2>2. /\ \A h \in Frames : h # f => (Live(h)' <=> Live(h)) /\ frame'[h].cont = frame[h].cont
          /\ \A h \in Frames : h # g => (Asleep(h)' <=> Asleep(h))
          /\ ~Live(f)' /\ ~Asleep(g)' /\ Placed' = Placed /\ Live(f) /\ Placed \subseteq Frames
      <3>1. frame'[f].st \in {"destroyed", "final"}
        BY <1>3, <1>4
      <3>2. frame'[g].cont = frame[g].cont /\ Live(g) /\ Live(g)' /\ ~Asleep(g)'
        BY <1>1, <1>3, <1>4 DEF Live, Asleep
      <3>3. ~Live(f)' /\ ~Asleep(f)' /\ ~Asleep(f) /\ Live(f)
        BY <1>1, <3>1 DEF Live, Asleep
      <3>4. Placed' = Placed /\ Placed \subseteq Frames
        BY <1>2 DEF Placed, CoreInv, TypeInv, TypeOK
      <3>5. QED
        BY <1>4, <3>2, <3>3, <3>4 DEF Live, Asleep
    <2>3. \A h \in Placed' : Asleep(h)'
      BY <1>1, <2>2 DEF CoreInv, PlaceInv
    <2> USE FrameForm DEF CoreInv, PlaceInv
    <2>4. (\A h \in Frames : Live(h) /\ frame[h].cont # None =>
             Asleep(frame[h].cont) /\ frame[h].cont \notin Placed)'
      <3> SUFFICES ASSUME NEW h \in Frames, Live(h)', frame'[h].cont # None
                   PROVE  \E c \in Frames : frame'[h].cont = c /\ Asleep(c)' /\ c \notin Placed'
        OBVIOUS
      <3>1. frame[h].cont \in Frames \cup {None}
        BY DEF FrameState, TypeInv, TypeOK
      <3>2. QED
        BY <1>1, <2>1, <2>2, <3>1
    <2>5. \A h, x \in Frames : Live(h)' /\ Live(x)' /\ frame'[h].cont # None
            /\ frame'[h].cont = frame'[x].cont => h = x
      BY <2>2
    <2>6. ASSUME NEW h \in Frames, Asleep(h)', h \notin Placed'
          PROVE  \E x \in Frames : Live(x)' /\ frame'[x].cont = h
      <3>1. h # g /\ Asleep(h) /\ h \notin Placed
        BY <2>2, <2>6
      <3>2. PICK x \in Frames : Live(x) /\ frame[x].cont = h
        BY <3>1
      <3>3. x # f
        BY <1>5, <3>1, <3>2
      <3>4. QED
        BY <2>2, <3>2, <3>3
    <2>7. QED
      BY <1>2, <2>3, <2>4, <2>5, <2>6
  <1>9. ContInv'
    <2> SUFFICES ASSUME NEW h \in Frames
                 PROVE  ContOK(h)'
      BY DEF ContInv
    <2>1. ContOK(h) /\ Placed' = Placed /\ abroad' = abroad /\ call' = call
      BY <1>2 DEF CoreInv, ContInv, Placed
    <2>2. CASE h = f
      <3>1. f \notin Placed
        BY <1>1, NotAwaited DEF CoreInv, Asleep
      <3>2. QED
        BY <1>3, <1>4, <2>1, <2>2, <3>1 DEF ContOK, Unstarted, Started, Asleep
    <2>3. CASE h = g
      BY <1>1, <1>3, <1>4, <2>1, <2>3 DEF ContOK, Unstarted, Started, Asleep
    <2>4. CASE h \notin {f, g}
      BY <1>4, <2>1, <2>4 DEF ContOK, Unstarted, Started, Asleep
    <2>5. QED
      BY <2>2, <2>3, <2>4
  <1>10. CallInv'
    <2> SUFFICES ASSUME NEW r \in Roots
                 PROVE  CallOK(r)'
      BY DEF CallInv
    <2>1. CASE r # f[1]
      <3>1. \A k \in Kinds : <<r, k>> \notin {f, g} /\ <<r, k>> \in Frames
        BY <1>1, <2>1, FrameForm
      <3>2. QED
        BY <1>2, <1>4, <3>1, CallSame DEF CoreInv, CallInv
    <2>2. CASE r = f[1]
      <3>1. /\ f = <<r, Kind(f)>> /\ g = <<r, Kind(g)>> /\ CallOK(r) /\ call' = call
            /\ Kind(f) \in Kinds
        BY <1>1, <1>2, <2>2, FrameForm DEF CoreInv, CallInv, Kind
      <3>2. \A k \in Kinds : k \notin {Kind(f), Kind(g)} => frame'[<<r, k>>] = frame[<<r, k>>]
        BY <1>4, <3>1, FrameForm DEF Kind
      <3>3. /\ frame[f].st = "running" /\ Kind(f) # Kind(g) /\ frame[f].cont = g
            /\ frame[f].pc \in {"body", "return"}
            /\ frame[g].st = "suspended" /\ frame[g].pc # "start"
            /\ frame'[f].st = IF Kind(f) = "child" THEN "destroyed" ELSE "final"
            /\ frame'[g].st = "running" /\ frame'[g].cont = frame[g].cont
            /\ frame'[g].pc # "start" /\ (Kind(g) = "sync" => frame'[g].pc # "scheduled")
            /\ Kind(g) = "spawn" => frame'[g].pc = IF failed THEN "return" ELSE NextPc(frame[g].pc)
            /\ Kind(f) = "hop" => ~frame'[f].failed
        BY <1>1, <1>3, <1>4, <1>5, <3>1 DEF Asleep
      <3>4. CASE Kind(f) = "spawn"
        <4>1. Kind(g) = "sync"
          BY <1>1, <3>4 DEF Awaiters
        <4>2. QED
          BY <3>1, <3>2, <3>3, <3>4, <4>1 DEF CallOK, Failed, NextPc, State, At, Live, Started, Unstarted, Asleep, Kinds
      <3>5. CASE Kind(f) = "task" /\ Kind(g) = "spawn"
        BY <3>1, <3>2, <3>3, <3>5 DEF CallOK, Failed, NextPc, State, At, Live, Started, Unstarted, Asleep, Kinds
      <3>6. CASE Kind(f) = "task" /\ Kind(g) = "sync"
        BY <3>1, <3>2, <3>3, <3>6 DEF CallOK, Failed, NextPc, State, At, Live, Started, Unstarted, Asleep, Kinds
      <3>7. CASE Kind(f) = "child"
        <4>1. Kind(g) = "task"
          BY <1>1, <3>7 DEF Awaiters
        <4>2. QED
          BY <3>1, <3>2, <3>3, <3>7, <4>1 DEF CallOK, Failed, NextPc, State, At, Live, Started, Unstarted, Asleep, Kinds
      <3>8. CASE Kind(f) = "steal" /\ Kind(g) = "spawn"
        BY <3>1, <3>2, <3>3, <3>8 DEF CallOK, Failed, NextPc, State, At, Live, Started, Unstarted, Asleep, Kinds
      <3>9. CASE Kind(f) = "steal" /\ Kind(g) = "task"
        BY <3>1, <3>2, <3>3, <3>9 DEF CallOK, Failed, NextPc, State, At, Live, Started, Unstarted, Asleep, Kinds
      <3>10. CASE Kind(f) = "steal" /\ Kind(g) = "child"
        BY <3>1, <3>2, <3>3, <3>10 DEF CallOK, Failed, NextPc, State, At, Live, Started, Unstarted, Asleep, Kinds
      <3>11. CASE Kind(f) = "inner"
        <4>1. Kind(g) = "steal"
          BY <1>1, <3>11 DEF Awaiters
        <4>2. QED
          BY <3>1, <3>2, <3>3, <3>11, <4>1 DEF CallOK, Failed, NextPc, State, At, Live, Started, Unstarted, Asleep, Kinds
      <3>12. CASE Kind(f) = "hop"
        <4>1. Kind(g) = "spawn"
          BY <1>1, <3>12 DEF Awaiters
        <4>2. Started(<<r, "hop">>) /\ frame'[g].pc = "scheduled" /\ frame[g].pc = "scheduled"
          <5>1. Started(<<r, "hop">>)
            BY <3>1, <3>3, <3>12 DEF Started
          <5>2. frame[g].pc = "scheduled"
            BY <3>1, <4>1, <5>1 DEF CallOK, At
          <5>3. QED
            BY <3>3, <3>12, <4>1, <5>1, <5>2 DEF NextPc
        <4>3. QED
          BY <3>1, <3>2, <3>3, <3>12, <4>1, <4>2 DEF CallOK, Failed, State, At, Live, Started, Unstarted, Asleep, Kinds
      <3>13. QED
        BY <1>1, <3>1, <3>4, <3>5, <3>6, <3>7, <3>8, <3>9, <3>10, <3>11, <3>12 DEF Kinds, Awaiters
    <2>3. QED
      BY <2>1, <2>2
  <1>11. QED
    BY <1>6, <1>7, <1>8, <1>9, <1>10 DEF CoreInv

-----------------------------------------------------------------------------
(* What a step may be.  Every action is one of these.                      *)

(* co_await of a coroutine. *)
Await(t, f, g) ==
    t \in Threads /\ f \in Frames /\ g \in Frames /\ Active(t, f) /\ Awaits(f, g) /\ StartAwait(t, f, g)

(* Where a frame may go on that suspends itself, or has no need to.        *)
Suspends(f, pc) ==
    \/ Kind(f) = "sync" /\ frame[f].pc = "start" /\ pc = "return" /\ call[f[1]].plan = "bare"
    \/ StealKind(f) /\ frame[f].pc = "start" /\ pc = "resched"
    \/ StealKind(f) /\ frame[f].pc = "resched" /\ pc = "return"
    \/ UserKind(f) /\ frame[f].pc = "body" /\ pc = "body"

(* f becomes F; the other frames and the calls stay. *)
Becomes(f, F) ==
    /\ F \in FrameState /\ F.cont = frame[f].cont /\ F.pay = frame[f].pay
    /\ frame' = [frame EXCEPT ![f] = F] /\ UNCHANGED <<call, notify>>

Park(t, f, F) ==
    /\ t \in Threads /\ f \in Frames /\ Active(t, f)
    /\ Becomes(f, F) /\ Suspends(f, F.pc) /\ F.st = "suspended" /\ F.failed = frame[f].failed
    /\ stack' = [stack EXCEPT ![t] = Front(@)]
    /\ \/ posted' = posted \cup {f} /\ UNCHANGED <<timers, abroad>> /\ Kind(f) # "sync"
       \/ timers' = timers \cup {f} /\ UNCHANGED <<posted, abroad>> /\ Kind(f) # "sync"
       \/ /\ abroad' = abroad \cup {f} /\ UNCHANGED <<posted, timers>>
          /\ \/ Kind(f) \in {"steal", "inner"} /\ F.pc = "resched"
             \/ Kind(f) = "sync"

Stay(t, f, F) ==
    /\ t \in Workers /\ f \in Frames /\ Active(t, f) /\ Kind(f) # "sync"
    /\ Becomes(f, F) /\ Suspends(f, F.pc) /\ F.st = "running" /\ F.failed = frame[f].failed
    /\ UNCHANGED <<stack, posted, timers, abroad>>

Wake(t, f, F) ==
    /\ t \in Threads /\ f \in Placed /\ stack[t] = <<>> /\ Resume(t, f)
    /\ Becomes(f, F) /\ F.st = "running" /\ UNCHANGED timers
    /\ \/ /\ t \in Workers /\ f \in posted /\ posted' = posted \ {f} /\ UNCHANGED abroad
          /\ F.pc = frame[f].pc /\ F.failed = frame[f].failed
       \/ /\ f \in abroad /\ abroad' = abroad \ {f} /\ UNCHANGED posted
          /\ F.failed \in BOOLEAN /\ F.pc = IF F.failed THEN "return" ELSE frame[f].pc

(* The end of a coroutine that is not sync()'s. *)
End(t, f, failed, caught) ==
    /\ t \in Threads /\ f \in Frames /\ Active(t, f) /\ Kind(f) # "sync"
    /\ failed \in BOOLEAN /\ caught \in BOOLEAN /\ Finish(t, f, failed, caught)
    /\ \/ UserKind(f) /\ frame[f].pc = "body"
       \/ frame[f].pc = "return" /\ failed = frame[f].failed

Form ==
    \/ \E t, f, g : Await(t, f, g)
    \/ \E t, f, F : Park(t, f, F) \/ Stay(t, f, F) \/ Wake(t, f, F)
    \/ \E t, f, failed, caught : End(t, f, failed, caught)
    \/ \E t \in Threads, f \in Frames : FinalSync(t, f)
    \/ \E t \in Threads, r \in Roots, plan \in Plans : SyncCall(t, r, plan)
    \/ \E t \in Threads, r \in Roots : SyncReturn(t, r)
    \/ \E t \in Threads, r \in Roots : Signal(t, r) \/ Notify(t, r)
    \/ \E f \in timers : TimerFires(f)

LEMMA RunsFacts ==
  ASSUME CoreInv, NEW t \in Threads, NEW f, NEW pc, Runs(t, f, pc)
  PROVE  /\ Active(t, f) /\ f \in Frames /\ frame[f].st = "running" /\ frame[f].pc = pc
         /\ frame[f] \in FrameState /\ Started(f) /\ Live(f)
         /\ CallOK(f[1]) /\ ContOK(f) /\ call[f[1]].plan \in {"task", "foreign", "bare", "direct"}
  <1>1. /\ Active(t, f) /\ f \in Frames /\ frame[f].st = "running" /\ frame[f].pc = pc
    BY ActiveRuns DEF CoreInv, TypeInv, Stacks, Active, Runs
  <1>2. frame[f] \in FrameState /\ CallOK(f[1]) /\ ContOK(f) /\ f[1] \in Roots
    BY <1>1, FrameForm DEF CoreInv, TypeInv, TypeOK, CallInv, ContInv
  <1>3. call[f[1]].plan \in Plans
    <2>1. State(f[1], Kind(f)) # "none" /\ Kind(f) \in Kinds
      BY <1>1, FrameForm DEF State, Kind
    <2>2. QED
      BY <1>2, <2>1 DEF CallOK
  <1>4. QED
    BY <1>1, <1>2, <1>3, CoroutineAssumption DEF Started, Live

LEMMA ScheduleForm ==
  ASSUME CoreInv, NEW t \in Threads, NEW f, NEW from, NEW pc \in {"resched", "return"},
         Runs(t, f, from), Schedule(t, f, pc), StealKind(f),
         (from = "start" /\ pc = "resched") \/ (from = "resched" /\ pc = "return")
  PROVE  Form
  <1>1. /\ Active(t, f) /\ f \in Frames /\ frame[f].st = "running" /\ frame[f].pc = from
        /\ frame[f] \in FrameState /\ Started(f)
    BY RunsFacts
  <1>2. Suspends(f, pc) /\ Kind(f) # "sync"
    BY <1>1 DEF Suspends, StealKind
  <1>3. CASE t \in Workers
    <2> DEFINE F == [frame[f] EXCEPT !.pc = pc]
    <2>1. Stay(t, f, F)
      BY <1>1, <1>2, <1>3 DEF Schedule, FrameState, places, Stay, Becomes
    <2>2. QED
      BY <2>1 DEF Form
  <1>4. CASE t \notin Workers
    <2> DEFINE F == [frame[f] EXCEPT !.st = "suspended", !.pc = pc]
    <2>1. Park(t, f, F)
      BY <1>1, <1>2, <1>4 DEF Schedule, FrameState, Return, Park, Becomes
    <2>2. QED
      BY <2>1 DEF Form
  <1>5. QED
    BY <1>3, <1>4

(* A foreign awaitable takes the frame.                                    *)
LEMMA AbroadForm ==
  ASSUME CoreInv, NEW t \in Threads, NEW f, NEW pc \in {"resched", "return"},
         Runs(t, f, "start"), Return(t, f, pc), abroad' = abroad \cup {f},
         UNCHANGED <<posted, timers, call, notify>>,
         \/ Kind(f) = "sync" /\ call[f[1]].plan = "bare" /\ pc = "return"
         \/ Kind(f) \in {"steal", "inner"} /\ pc = "resched"
  PROVE  Form
  <1>1. /\ Active(t, f) /\ f \in Frames /\ frame[f].st = "running" /\ frame[f].pc = "start"
        /\ frame[f] \in FrameState
    BY RunsFacts
  <1>2. Suspends(f, pc)
    BY <1>1 DEF Suspends, StealKind
  <1> DEFINE F == [frame[f] EXCEPT !.st = "suspended", !.pc = pc]
  <1>3. Park(t, f, F)
    BY <1>1, <1>2 DEF Return, FrameState, Park, Becomes
  <1>4. QED
    BY <1>3 DEF Form

LEMMA SyncBodyForm ==
  ASSUME CoreInv, NEW t \in Threads, NEW f, SyncBody(t, f)
  PROVE  Form
  <1>1. Runs(t, f, "start") /\ Kind(f) = "sync"
    BY DEF SyncBody
  <1>2. CASE call[f[1]].plan = "bare"
    BY <1>1, <1>2, AbroadForm DEF SyncBody
  <1>3. CASE call[f[1]].plan # "bare"
    <2> DEFINE k == IF call[f[1]].plan = "direct" THEN "task" ELSE "spawn"
    <2>1. PICK g : g = <<f[1], k>>
      OBVIOUS
    <2>2. /\ f \in Frames /\ Active(t, f) /\ CallOK(f[1]) /\ Live(f) /\ frame[f].pc = "start"
          /\ call[f[1]].plan \in {"task", "foreign", "direct"}
      BY <1>1, <1>3, RunsFacts
    <2>3. f[1] \in Roots /\ f = <<f[1], "sync">> /\ g \in Frames /\ Kind(g) = k
      <3>1. f[1] \in Roots /\ f = <<f[1], "sync">>
        BY <1>1, <2>2, FrameForm DEF Kind
      <3>2. k \in Kinds
        BY DEF Kinds
      <3>3. QED
        BY <2>1, <3>1, <3>2, FrameForm DEF Kind
    <2>4. Unstarted(g)
      BY <2>1, <2>2, <2>3 DEF CallOK, At
    <2>5. Awaits(f, g)
      BY <1>1, <2>1, <2>2, <2>3, <2>4 DEF Awaits
    <2>6. StartAwait(t, f, g)
      BY <1>3, <2>1 DEF SyncBody
    <2>7. QED
      BY <2>2, <2>3, <2>5, <2>6 DEF Await, Form
  <1>4. QED
    BY <1>2, <1>3

LEMMA SpawnScheduleForm ==
  ASSUME CoreInv, NEW t \in Threads, NEW f, SpawnSchedule(t, f)
  PROVE  Form
  <1>1. Runs(t, f, "start") /\ Kind(f) = "spawn"
    BY DEF SpawnSchedule
  <1>2. PICK g : g = <<f[1], "hop">>
    OBVIOUS
  <1>3. /\ f \in Frames /\ Active(t, f) /\ CallOK(f[1]) /\ Live(f) /\ frame[f].pc = "start"
    BY <1>1, RunsFacts
  <1>4. f = <<f[1], "spawn">> /\ g \in Frames /\ Kind(g) = "hop"
    <2>1. f[1] \in Roots /\ f = <<f[1], "spawn">> /\ "hop" \in Kinds
      BY <1>1, <1>3, FrameForm DEF Kind, Kinds
    <2>2. QED
      BY <1>2, <2>1, FrameForm DEF Kind
  <1>5. frame[g].st = "none"
    BY <1>2, <1>3, <1>4 DEF CallOK, At, State
  <1>6. Awaits(f, g)
    BY <1>1, <1>2, <1>3, <1>4, <1>5 DEF Awaits
  <1>7. StartAwait(t, f, g)
    BY <1>2 DEF SpawnSchedule
  <1>8. QED
    BY <1>3, <1>4, <1>6, <1>7 DEF Await, Form

LEMMA SpawnAwaitForm ==
  ASSUME CoreInv, NEW t \in Threads, NEW f, SpawnAwait(t, f)
  PROVE  Form
  <1> DEFINE k == IF call[f[1]].plan = "task" THEN "task" ELSE "steal"
  <1>1. Runs(t, f, "scheduled") /\ Kind(f) = "spawn"
    BY DEF SpawnAwait
  <1>2. PICK g : g = <<f[1], k>>
    OBVIOUS
  <1>3. /\ f \in Frames /\ Active(t, f) /\ CallOK(f[1]) /\ Live(f) /\ frame[f].pc = "scheduled"
        /\ frame[f].st = "running"
    BY <1>1, RunsFacts
  <1>4. f[1] \in Roots /\ f = <<f[1], "spawn">> /\ g \in Frames /\ Kind(g) = k
    <2>1. f[1] \in Roots /\ f = <<f[1], "spawn">>
      BY <1>1, <1>3, FrameForm DEF Kind
    <2>2. k \in Kinds
      BY DEF Kinds
    <2>3. QED
      BY <1>2, <2>1, <2>2, FrameForm DEF Kind
  <1>5. At(f[1], "spawn", {"start", "scheduled"}) /\ State(f[1], "spawn") # "none"
    BY <1>3, <1>4 DEF At, State
  <1>6. IF k = "task" THEN Unstarted(g) ELSE frame[g].st = "none"
    BY <1>2, <1>3, <1>5 DEF CallOK, State
  <1>7. Awaits(f, g)
    BY <1>1, <1>2, <1>3, <1>4, <1>6 DEF Awaits
  <1>8. StartAwait(t, f, g)
    BY <1>2 DEF SpawnAwait
  <1>9. QED
    BY <1>3, <1>4, <1>7, <1>8 DEF Await, Form

LEMMA StealAwaitForm ==
  ASSUME CoreInv, NEW t \in Threads, NEW f, StealAwait(t, f)
  PROVE  Form
  <1>1. Runs(t, f, "start") /\ StealKind(f)
    BY DEF StealAwait
  <1>2. CASE Kind(f) = "hop" /\ Schedule(t, f, "resched")
    BY <1>1, <1>2, ScheduleForm
  <1>3. CASE Kind(f) = "steal" /\ StartAwait(t, f, <<f[1], "inner">>)
    <2>1. PICK g : g = <<f[1], "inner">>
      OBVIOUS
    <2>2. /\ f \in Frames /\ Active(t, f) /\ CallOK(f[1]) /\ Live(f) /\ frame[f].pc = "start"
      BY <1>1, RunsFacts
    <2>3. f[1] \in Roots /\ f = <<f[1], "steal">> /\ g \in Frames /\ Kind(g) = "inner"
      <3>1. f[1] \in Roots /\ f = <<f[1], "steal">>
        BY <1>3, <2>2, FrameForm DEF Kind
      <3>2. "inner" \in Kinds
        BY DEF Kinds
      <3>3. QED
        BY <2>1, <3>1, <3>2, FrameForm DEF Kind
    <2>4. frame[g].st = "none"
      BY <2>1, <2>2, <2>3 DEF CallOK, At, State
    <2>5. Awaits(f, g)
      BY <1>3, <2>1, <2>2, <2>3, <2>4 DEF Awaits
    <2>6. StartAwait(t, f, g)
      BY <1>3, <2>1
    <2>7. QED
      BY <2>2, <2>3, <2>5, <2>6 DEF Await, Form
  <1>4. CASE /\ Kind(f) # "hop" /\ Return(t, f, "resched") /\ abroad' = abroad \cup {f}
             /\ UNCHANGED <<posted, timers, call, notify>>
    BY <1>1, <1>4, AbroadForm DEF StealKind
  <1>5. QED
    BY <1>2, <1>3, <1>4 DEF StealAwait

(* The two bodies of a call await MaxOps times at most.                    *)
LEMMA OpsLeft ==
  ASSUME CoreInv, NEW f \in Frames, UserKind(f), Ops(f[1]) < MaxOps
  PROVE  frame[f].ops < MaxOps /\ frame[f].ops \in Nat
  <1>1. "task" \in Kinds /\ "child" \in Kinds
    BY DEF Kinds
  <1>2. f = <<f[1], "task">> \/ f = <<f[1], "child">>
    BY FrameForm DEF UserKind, Kind
  <1>3. frame[<<f[1], "task">>].ops \in Nat /\ frame[<<f[1], "child">>].ops \in Nat
    BY <1>1, FrameForm DEF CoreInv, TypeInv, TypeOK, FrameState
  <1>4. QED
    BY <1>2, <1>3, CoroutineAssumption DEF Ops

LEMMA UserAwaitForm ==
  ASSUME CoreInv, NEW t \in Threads, NEW f, NEW k \in {"child", "steal"},
         UserAwait(t, f, <<f[1], k>>)
  PROVE  Form
  <1>1. PICK g : g = <<f[1], k>>
    OBVIOUS
  <1>2. /\ UserKind(f) /\ Runs(t, f, "body") /\ Ops(f[1]) < MaxOps
        /\ Kind(g) = "child" => Kind(f) = "task"
        /\ frame[g].st = "none" /\ StartAwait(t, f, g)
    BY <1>1 DEF UserAwait, UserBody
  <1>3. f \in Frames /\ Active(t, f) /\ frame[f].pc = "body"
    BY <1>2, RunsFacts
  <1>4. g \in Frames /\ Kind(g) = k
    BY <1>1, <1>3, FrameForm DEF Kind, Kinds
  <1>5. Awaits(f, g)
    BY <1>1, <1>2, <1>3, <1>4, OpsLeft DEF Awaits
  <1>6. QED
    BY <1>2, <1>3, <1>4, <1>5 DEF Await, Form

LEMMA UserWaitForm ==
  ASSUME CoreInv, NEW t \in Threads, NEW f, UserWait(t, f)
  PROVE  Form
  <1>1. /\ Runs(t, f, "body") /\ UserKind(f) /\ Ops(f[1]) < MaxOps
    BY DEF UserWait, UserBody
  <1>2. /\ Active(t, f) /\ f \in Frames /\ frame[f].pc = "body"
        /\ frame[f] \in FrameState /\ Started(f)
    BY <1>1, RunsFacts
  <1>3. frame[f].ops + 1 \in 0 .. MaxOps
    BY <1>1, <1>2, OpsLeft, CoroutineAssumption
  <1>4. Suspends(f, "body")
    BY <1>1, <1>2 DEF Suspends
  <1> DEFINE F == [frame[f] EXCEPT !.st = "suspended", !.ops = frame[f].ops + 1]
  <1>5. /\ F \in FrameState /\ F.st = "suspended" /\ F.pc = "body" /\ F.cont = frame[f].cont
        /\ F.pay = frame[f].pay /\ F.failed = frame[f].failed
    BY <1>2, <1>3 DEF FrameState
  <1>6. /\ frame' = [frame EXCEPT ![f] = F] /\ stack' = [stack EXCEPT ![t] = Front(@)]
        /\ timers' = timers \cup {f} /\ UNCHANGED <<posted, abroad, call, notify>>
    BY DEF UserWait
  <1> HIDE DEF F
  <1>7. Park(t, f, F)
    BY <1>1, <1>2, <1>4, <1>5, <1>6 DEF Park, Becomes, UserKind
  <1>8. QED
    BY <1>7 DEF Form

LEMMA WorkerTakesForm ==
  ASSUME CoreInv, NEW t \in Threads, NEW f, WorkerTakes(t, f)
  PROVE  Form
  <1>1. /\ f \in posted /\ f \in Placed /\ stack[t] = <<>> /\ Resume(t, f)
        /\ posted' = posted \ {f} /\ UNCHANGED <<timers, abroad, call, notify>>
    BY DEF WorkerTakes, Idle, Placed
  <1>2. f \in Frames /\ Asleep(f) /\ frame[f] \in FrameState
    BY <1>1 DEF CoreInv, TypeInv, TypeOK, PlaceInv
  <1> DEFINE F == [frame[f] EXCEPT !.st = "running"]
  <1>3. Wake(t, f, F)
    BY <1>1, <1>2 DEF WorkerTakes, FrameState, Wake, Becomes
  <1>4. QED
    BY <1>3 DEF Form

LEMMA ForeignResumesForm ==
  ASSUME CoreInv, NEW t \in Threads, NEW f, NEW throws \in BOOLEAN, ForeignResumes(t, f, throws)
  PROVE  Form
  <1>1. /\ f \in abroad /\ f \in Placed /\ stack[t] = <<>> /\ Resume(t, f)
        /\ abroad' = abroad \ {f} /\ UNCHANGED <<posted, timers, call, notify>>
    BY DEF ForeignResumes, Idle, Placed
  <1>2. f \in Frames /\ Asleep(f) /\ frame[f] \in FrameState /\ ContOK(f)
    BY <1>1 DEF CoreInv, TypeInv, TypeOK, PlaceInv, ContInv
  <1> DEFINE pc == IF throws THEN "return" ELSE frame[f].pc
             F == [frame[f] EXCEPT !.st = "running", !.failed = throws, !.pc = pc]
  <1>3. pc \in {"start", "resched", "scheduled", "body", "awaiting", "return"}
    BY <1>2 DEF FrameState
  <1>4. frame' = [frame EXCEPT ![f] = F]
    BY DEF ForeignResumes
  <1>5. pc = IF throws THEN "return" ELSE frame[f].pc
    OBVIOUS
  <1> HIDE DEF pc
  <1>6. /\ F \in FrameState /\ F.st = "running" /\ F.pc = pc /\ F.cont = frame[f].cont
        /\ F.pay = frame[f].pay /\ F.failed = throws
    BY <1>2, <1>3 DEF FrameState
  <1> HIDE DEF F
  <1>7. Wake(t, f, F)
    BY <1>1, <1>2, <1>4, <1>5, <1>6 DEF Wake, Becomes
  <1>8. QED
    BY <1>7 DEF Form

LEMMA EndForm ==
  ASSUME CoreInv, NEW t \in Threads, NEW f, NEW throws \in BOOLEAN, NEW caught \in BOOLEAN,
         UserReturn(t, f, throws, caught) \/ Complete(t, f, caught)
  PROVE  Form
  <1>1. CASE UserReturn(t, f, throws, caught)
    <2>1. Runs(t, f, "body") /\ Kind(f) # "sync" /\ Finish(t, f, throws, caught)
      BY <1>1 DEF UserReturn, UserBody, UserKind
    <2>2. QED
      BY <1>1, <2>1, RunsFacts DEF End, Form, UserReturn, UserBody
  <1>2. CASE Complete(t, f, caught)
    <2>1. Runs(t, f, "return") /\ Kind(f) # "sync" /\ Finish(t, f, frame[f].failed, caught)
      BY <1>2 DEF Complete
    <2>2. f \in Frames /\ Active(t, f) /\ frame[f].failed \in BOOLEAN /\ frame[f].pc = "return"
      BY <2>1, RunsFacts DEF FrameState
    <2>3. QED
      BY <2>1, <2>2 DEF End, Form
  <1>3. QED
    BY <1>1, <1>2

LEMMA Forms == CoreInv /\ Next => Form
  <1> SUFFICES ASSUME CoreInv, Next
               PROVE  Form
    OBVIOUS
  <1>1. ASSUME NEW t \in Threads, Step(t)
        PROVE  Form
    <2>1. ASSUME NEW f, SyncBody(t, f) \/ SpawnAwait(t, f) \/ StealAwait(t, f)
          PROVE  Form
      BY <2>1, SyncBodyForm, SpawnAwaitForm, StealAwaitForm
    <2>2. ASSUME NEW f \in Range(stack[t]), FinalSync(t, f)
          PROVE  Form
      <3>1. f \in Frames
        BY <2>2 DEF CoreInv, TypeInv, TypeOK
      <3>2. QED
        BY <2>2, <3>1 DEF Form
    <2>3. ASSUME NEW f, SpawnSchedule(t, f)
          PROVE  Form
      BY <2>3, SpawnScheduleForm
    <2>4. ASSUME NEW f, StealSchedule(t, f)
          PROVE  Form
      BY <2>4, ScheduleForm DEF StealSchedule
    <2>5. ASSUME NEW f, NEW throws \in BOOLEAN, NEW caught \in BOOLEAN,
                 UserReturn(t, f, throws, caught) \/ Complete(t, f, caught)
          PROVE  Form
      BY <2>5, EndForm
    <2>6. ASSUME NEW f, WorkerTakes(t, f)
          PROVE  Form
      BY <2>6, WorkerTakesForm
    <2>7. ASSUME NEW f, NEW throws \in BOOLEAN, ForeignResumes(t, f, throws)
          PROVE  Form
      BY <2>7, ForeignResumesForm
    <2>8. ASSUME NEW r \in Roots, Signal(t, r) \/ Notify(t, r)
          PROVE  Form
      BY <2>8 DEF Form
    <2>9. ASSUME NEW r \in Roots, SyncReturn(t, r)
          PROVE  Form
      BY <2>9 DEF Form
    <2>10. QED
      BY <1>1, <2>1, <2>2, <2>3, <2>4, <2>5, <2>6, <2>7, <2>8, <2>9 DEF Step
  <1>2. ASSUME NEW t \in Threads, UserChoice(t)
        PROVE  Form
    <2>1. ASSUME NEW r \in Roots, NEW plan \in Plans, ClientSync(t, r, plan)
          PROVE  Form
      BY <2>1 DEF ClientSync, Form
    <2>2. ASSUME NEW r \in Roots, NEW plan \in Plans, NEW f, NestedSync(t, f, r, plan)
          PROVE  Form
      BY <2>2 DEF NestedSync, Form
    <2>3. ASSUME NEW f, UserWait(t, f)
          PROVE  Form
      BY <2>3, UserWaitForm
    <2>4. ASSUME NEW f, NEW k \in {"child", "steal"}, UserAwait(t, f, <<f[1], k>>)
          PROVE  Form
      BY <2>4, UserAwaitForm
    <2>5. QED
      BY <1>2, <2>1, <2>2, <2>3, <2>4 DEF UserChoice
  <1>3. ASSUME NEW f \in timers, TimerFires(f)
        PROVE  Form
    BY <1>3 DEF Form
  <1>4. QED
    BY <1>1, <1>2, <1>3 DEF Next

(* A frame that goes on by itself stays alive. *)
LEMMA BecomesMoves ==
  ASSUME CoreInv, NEW f \in Frames, NEW F, Becomes(f, F), Started(f),
         F.st = "running" \/ (F.st = "suspended" /\ F.pc # "start"),
         Kind(f) = "hop" => F.failed = frame[f].failed,
         Suspends(f, F.pc) \/ F.pc = frame[f].pc \/ (F.pc = "return" /\ frame[f].pc # "start" /\ Kind(f) # "spawn")
  PROVE  MovesOn(f)
  <1>1. /\ F \in FrameState /\ F.cont = frame[f].cont /\ frame' = [frame EXCEPT ![f] = F]
        /\ frame \in [Frames -> FrameState]
    BY DEF Becomes, CoreInv, TypeInv, TypeOK
  <1>2. frame'[f] = F /\ \A h \in Frames : h # f => frame'[h] = frame[h]
    BY <1>1, OneFrame
  <1>3. \/ F.pc = frame[f].pc
        \/ /\ F.pc \notin {"start", "scheduled"} /\ Kind(f) # "spawn"
           /\ Kind(f) = "sync" => frame[f].pc # "start" \/ call[f[1]].plan = "bare"
    BY DEF Suspends, UserKind, StealKind
  <1>4. QED
    BY <1>1, <1>2, <1>3 DEF MovesOn, Started, Asleep

LEMMA CoreForm ==
  ASSUME CoreInv, SignalInv, Form
  PROVE  CoreInv'
  <1>1. ASSUME NEW t, NEW f, NEW g, Await(t, f, g)
        PROVE  CoreInv'
    BY <1>1, AwaitInv DEF Await
  <1>2. ASSUME NEW t, NEW f, NEW F, Park(t, f, F)
        PROVE  CoreInv'
    <2>1. f \in Frames /\ t \in Threads /\ Active(t, f) /\ frame[f].st = "running" /\ Started(f)
      BY <1>2, ActiveRuns DEF Park, Active, Started, CoreInv, TypeInv, Stacks
    <2>2. F.pc # "start" /\ Becomes(f, F) /\ (Kind(f) = "sync" => call[f[1]].plan = "bare")
      BY <1>2 DEF Park, Suspends, UserKind, StealKind
    <2>3. MovesOn(f)
      BY <1>2, <2>1, <2>2, BecomesMoves DEF Park
    <2>4. QED
      BY <1>2, <2>1, <2>2, <2>3, ParkInv DEF Park, Becomes
  <1>3. ASSUME NEW t, NEW f, NEW F, Stay(t, f, F)
        PROVE  CoreInv'
    <2>1. f \in Frames /\ t \in Threads /\ Active(t, f) /\ frame[f].st = "running" /\ Started(f)
      BY <1>3, ActiveRuns DEF Stay, Active, Started, CoreInv, TypeInv, Stacks, Threads
    <2>2. MovesOn(f)
      BY <1>3, <2>1, BecomesMoves DEF Stay
    <2>3. QED
      BY <1>3, <2>1, <2>2, StayInv DEF Stay, Becomes
  <1>4. ASSUME NEW t, NEW f, NEW F, Wake(t, f, F)
        PROVE  CoreInv'
    <2>1. f \in Frames /\ Asleep(f) /\ ContOK(f)
      BY <1>4 DEF Wake, CoreInv, TypeInv, TypeOK, PlaceInv, Placed, ContInv
    <2>2. F.pc = frame[f].pc \/ (F.pc = "return" /\ frame[f].pc # "start" /\ Kind(f) # "spawn")
      BY <1>4, <2>1 DEF Wake, ContOK, Asleep
    <2>3. Started(f) /\ Becomes(f, F) /\ F.st = "running" /\ (Kind(f) = "hop" => F.failed = frame[f].failed)
      BY <1>4, <2>1 DEF Wake, Started, ContOK
    <2>4. MovesOn(f)
      BY <2>1, <2>2, <2>3, BecomesMoves
    <2>5. QED
      BY <1>4, <2>4, WakeInv DEF Wake, Becomes
  <1>5. ASSUME NEW t, NEW f, NEW failed, NEW caught, End(t, f, failed, caught)
        PROVE  CoreInv'
    <2>1. f \in Frames /\ f[1] \in Roots /\ f = <<f[1], Kind(f)>> /\ CallOK(f[1])
      BY <1>5, FrameForm DEF End, CoreInv, CallInv, Kind
    <2>2. Kind(f) = "hop" => ~failed
      BY <1>5, <2>1 DEF End, UserKind, CallOK, Failed
    <2>3. QED
      BY <1>5, <2>2, FinishInv DEF End
  <1>6. QED
    BY <1>1, <1>2, <1>3, <1>4, <1>5, FinalInv, SyncCallInv, SyncReturnInv, SignalStepInv, NotifyInv,
       FireInv DEF Form

(* No step but that of its thread takes a signal away, and none ends the   *)
(* call before it.                                                         *)
LEMMA SignalKept ==
  ASSUME SignalInv, notify' = notify,
         \A t \in Threads, r \in Roots : notify[t] = <<"signal", r>> =>
           /\ State(r, "sync")' = State(r, "sync")
           /\ call'[r].st = call[r].st /\ call'[r].fence = call[r].fence
  PROVE  SignalInv'
  BY DEF SignalInv

LEMMA SignalForm ==
  ASSUME CoreInv, SignalInv, Form
  PROVE  SignalInv'
  <1>0. \A r \in Roots : <<r, "sync">> \in Frames /\ Kind(<<r, "sync">>) = "sync"
    BY FrameForm DEF Kinds, Kind
  <1>1. ASSUME notify' = notify, call' = call,
               \A h \in Frames : h \notin Placed /\ frame[h].st = "final" => frame'[h] = frame[h]
        PROVE  SignalInv'
    <2>1. \A r \in Roots : State(r, "sync") = "final" => State(r, "sync")' = State(r, "sync")
      BY <1>0, <1>1 DEF State, CoreInv, PlaceInv, Asleep
    <2>2. QED
      BY <1>1, <2>1, SignalKept DEF SignalInv
  <1>2. ASSUME NEW t, NEW f, NEW g, Await(t, f, g)
        PROVE  SignalInv'
    <2>1. /\ \A h \in Frames : h \notin {f, g} => frame'[h] = frame[h]
          /\ frame[f].st = "running" /\ Kind(g) # "sync" /\ UNCHANGED <<call, notify>>
      BY <1>2, AwaitEffect DEF Await
    <2>2. \A r \in Roots : State(r, "sync") = "final" => State(r, "sync")' = State(r, "sync")
      BY <1>0, <2>1 DEF State
    <2>3. QED
      BY <2>1, <2>2, SignalKept DEF SignalInv
  <1>3. ASSUME NEW t, NEW f, NEW F, Park(t, f, F) \/ Stay(t, f, F) \/ Wake(t, f, F)
        PROVE  SignalInv'
    <2>1. f \in Frames /\ frame[f].st # "final" /\ Becomes(f, F)
      <3>1. CASE Park(t, f, F) \/ Stay(t, f, F)
        BY <3>1, ActiveRuns DEF Park, Stay, Active, CoreInv, TypeInv, Stacks, Threads
      <3>2. CASE Wake(t, f, F)
        BY <3>2 DEF Wake, CoreInv, TypeInv, TypeOK, PlaceInv, Placed, Asleep
      <3>3. QED
        BY <1>3, <3>1, <3>2
    <2>2. UNCHANGED <<call, notify>> /\ \A h \in Frames : h # f => frame'[h] = frame[h]
      BY <2>1, OneFrame DEF Becomes, CoreInv, TypeInv, TypeOK
    <2>3. QED
      BY <1>1, <2>1, <2>2
  <1>4. ASSUME NEW t, NEW f, NEW failed, NEW caught, End(t, f, failed, caught)
        PROVE  SignalInv'
    <2>1. PICK g : g = frame[f].cont
      OBVIOUS
    <2>2. /\ \A h \in Frames : h \notin {f, g} => frame'[h] = frame[h]
          /\ frame[f].st = "running" /\ Asleep(g) /\ UNCHANGED <<call, notify>>
      BY <1>4, <2>1, FinishEffect DEF End
    <2>3. QED
      BY <1>1, <2>2 DEF Asleep
  <1>5. ASSUME NEW t \in Threads, NEW f \in Frames, FinalSync(t, f)
        PROVE  SignalInv'
    <2>1. PICK r \in Roots : f = <<r, "sync">> /\ r = f[1]
      BY <1>5, FrameForm DEF FinalSync, Kind
    <2>2. /\ frame[f].st = "running" /\ frame'[f].st = "final" /\ call' = call
          /\ \A h \in Frames : h # f => frame'[h] = frame[h]
          /\ notify' = [notify EXCEPT ![t] = <<"signal", r>>]
      BY <1>5, <2>1, RunsFacts DEF FinalSync, CoreInv, TypeInv, TypeOK
    <2>3. CallOK(r) /\ call[r] \in CallState
      BY DEF CoreInv, CallInv, TypeInv, TypeOK
    <2>4. call[r].st = "called" /\ ~call[r].fence
      BY <2>1, <2>2, <2>3 DEF CallOK, State, CallState, Kinds
    <2>5. \A u \in Threads : notify[u] # <<"signal", r>>
      BY <2>1, <2>2 DEF SignalInv, State
    <2>6. \A u \in Threads, q \in Roots : notify'[u] = <<"signal", q>> =>
             (u = t /\ q = r) \/ (u # t /\ q # r /\ notify[u] = <<"signal", q>>)
      <3>1. notify \in [Threads -> {"signal", "notify"} \X Roots \cup {None}]
        BY DEF CoreInv, TypeInv, TypeOK
      <3>2. \A u \in Threads : notify'[u] = IF u = t THEN <<"signal", r>> ELSE notify[u]
        BY <2>2, <3>1
      <3>3. QED
        BY <2>5, <3>2
    <2>7. \A q \in Roots : q # r => State(q, "sync")' = State(q, "sync")
      BY <1>0, <2>1, <2>2 DEF State
    <2>8. State(r, "sync")' = "final"
      BY <2>1, <2>2 DEF State
    <2>9. QED
      BY <2>2, <2>4, <2>6, <2>7, <2>8 DEF SignalInv
  <1>6. ASSUME NEW t \in Threads, NEW r \in Roots, NEW plan \in Plans, SyncCall(t, r, plan)
        PROVE  SignalInv'
    <2>1. \A u \in Threads : notify[u] # <<"signal", r>>
      BY <1>6 DEF SyncCall, SignalInv
    <2>2. notify' = notify /\ \A q \in Roots : q # r => call'[q] = call[q]
      BY <1>6 DEF SyncCall
    <2>3. \A q \in Roots : q # r => State(q, "sync")' = State(q, "sync")
      BY <1>0, <1>6, FrameForm DEF SyncCall, State
    <2>4. QED
      BY <2>1, <2>2, <2>3, SignalKept
  <1>7. ASSUME NEW t \in Threads, NEW r \in Roots, SyncReturn(t, r)
        PROVE  SignalInv'
    <2>1. \A u \in Threads : notify[u] # <<"signal", r>>
      BY <1>7 DEF SyncReturn, SignalInv
    <2>2. notify' = notify /\ \A q \in Roots : q # r => call'[q] = call[q]
      BY <1>7 DEF SyncReturn
    <2>3. \A q \in Roots : q # r => State(q, "sync")' = State(q, "sync")
      BY <1>0, <1>7 DEF SyncReturn, DestroyAll, Owned, State
    <2>4. QED
      BY <2>1, <2>2, <2>3, SignalKept
  <1>8. ASSUME NEW t \in Threads, NEW r \in Roots, Signal(t, r)
        PROVE  SignalInv'
    <2>1. /\ notify[t] = <<"signal", r>> /\ frame' = frame
          /\ call' = [call EXCEPT ![r].fence = TRUE] /\ notify' = [notify EXCEPT ![t] = <<"notify", r>>]
      BY <1>8 DEF Signal
    <2>2. notify \in [Threads -> {"signal", "notify"} \X Roots \cup {None}]
      BY DEF CoreInv, TypeInv, TypeOK
    <2>3. \A u \in Threads, q \in Roots : notify'[u] = <<"signal", q>> =>
             u # t /\ q # r /\ notify[u] = <<"signal", q>>
      <3>1. \A u \in Threads : notify'[u] = IF u = t THEN <<"notify", r>> ELSE notify[u]
        BY <2>1, <2>2
      <3>2. \A q \in Roots : <<"notify", r>> # <<"signal", q>>
        OBVIOUS
      <3>3. QED
        BY <2>1, <3>1, <3>2 DEF SignalInv
    <2>4. \A q \in Roots : q # r => call'[q] = call[q]
      BY <2>1 DEF CoreInv, TypeInv, TypeOK
    <2>5. \A q \in Roots : State(q, "sync")' = State(q, "sync")
      BY <2>1 DEF State
    <2>6. QED
      BY <2>3, <2>4, <2>5 DEF SignalInv
  <1>9. ASSUME NEW t \in Threads, NEW r \in Roots, Notify(t, r)
        PROVE  SignalInv'
    <2>1. frame' = frame /\ call' = call /\ notify' = [notify EXCEPT ![t] = None]
      BY <1>9 DEF Notify
    <2>2. notify \in [Threads -> {"signal", "notify"} \X Roots \cup {None}]
      BY DEF CoreInv, TypeInv, TypeOK
    <2>3. \A u \in Threads, q \in Roots : notify'[u] = <<"signal", q>> => notify[u] = <<"signal", q>>
      <3>1. \A u \in Threads : notify'[u] = IF u = t THEN None ELSE notify[u]
        BY <2>1, <2>2
      <3>2. \A q \in Roots : None # <<"signal", q>>
        BY CoroutineAssumption
      <3>3. QED
        BY <3>1, <3>2
    <2>4. QED
      BY <2>1, <2>3 DEF SignalInv, State
  <1>10. ASSUME NEW f \in timers, TimerFires(f)
         PROVE  SignalInv'
    BY <1>1, <1>10 DEF TimerFires
  <1>11. QED
    BY <1>2, <1>3, <1>4, <1>5, <1>6, <1>7, <1>8, <1>9, <1>10 DEF Form

LEMMA CoreStep == CoreInv /\ SignalInv /\ [Next]_vars => CoreInv' /\ SignalInv'
  <1> SUFFICES ASSUME CoreInv, SignalInv, UNCHANGED vars
               PROVE  CoreInv' /\ SignalInv'
    BY Forms, CoreForm, SignalForm
  <1>1. UNCHANGED <<frame, stack, posted, timers, abroad, call, notify>>
    BY DEF vars
  <1>2. StackInv' /\ PlaceInv' /\ ContInv'
    BY <1>1 DEF CoreInv, StackInv, PlaceInv, Placed, Asleep, Live, ContInv, ContOK, Unstarted, Started
  <1>3. SignalInv'
    BY <1>1, SignalKept DEF State
  <1>4. QED
    BY <1>1, <1>2, <1>3, CallSame DEF CoreInv, TypeInv, TypeOK, CallInv

LEMMA CoreInit == Init => CoreInv /\ SignalInv
  <1> SUFFICES ASSUME Init
               PROVE  CoreInv /\ SignalInv
    OBVIOUS
  <1> DEFINE F == [Fresh EXCEPT !.st = "none"]
  <1>1. F \in FrameState /\ F.st = "none" /\ ~F.failed /\ F.pc = "start"
    BY FreshStates, ZenonT(60) DEF FrameState, Fresh
  <1>2. \A f \in Frames : /\ frame[f] \in FrameState /\ frame[f].st = "none"
                          /\ ~frame[f].failed /\ frame[f].pc = "start"
    BY <1>1 DEF Init
  <1>3. /\ \A t \in Threads : stack[t] = <<>> /\ stack \in [Threads -> Seq(Frames)]
        /\ posted = {} /\ timers = {} /\ abroad = {}
    BY DEF Init
  <1>4. TypeInv
    <2>1. frame \in [Frames -> FrameState]
      BY <1>2 DEF Init
    <2>2. [st |-> "new", plan |-> None, by |-> None, depth |-> 0, fence |-> FALSE] \in CallState
      BY DEF CallState
    <2>3. \A t \in Threads : Range(stack[t]) \subseteq Frames
      BY <1>3, StacksRange
    <2>4. QED
      BY <1>3, <2>1, <2>2, <2>3 DEF Init, TypeInv, TypeOK
  <1>5. StackInv
    BY <1>2, <1>3 DEF StackInv
  <1>6. PlaceInv
    BY <1>2, <1>3 DEF PlaceInv, Placed, Live, Asleep
  <1>7. ContInv
    BY <1>2, <1>3 DEF ContInv, ContOK, Placed, Unstarted, Started, Asleep
  <1>8. CallInv
    <2> SUFFICES ASSUME NEW r \in Roots
                 PROVE  CallOK(r)
      BY DEF CallInv
    <2>1. \A k \in Kinds : State(r, k) = "none" /\ ~Failed(r, k) /\ frame[<<r, k>>].pc = "start"
      BY <1>2, FrameForm DEF State, Failed
    <2>2. call[r].st = "new"
      BY DEF Init
    <2>3. QED
      BY <2>1, <2>2 DEF CallOK, State, At, Live, Started, Unstarted, Asleep, Kinds
  <1>9. SignalInv
    BY CoroutineAssumption DEF SignalInv, Init
  <1>10. QED
    BY <1>4, <1>5, <1>6, <1>7, <1>8, <1>9 DEF CoreInv

-----------------------------------------------------------------------------
(* What the invariant says of resumptions and of the lives of frames.      *)

LEMMA Cards ==
  /\ Cardinality({}) = 0
  /\ \A x : Cardinality({x}) = 1
  BY FS_EmptySet, FS_Singleton

LEMMA OnThreads ==
  ASSUME CoreInv, NEW f \in Frames
  PROVE  Cardinality({t \in Threads : f \in Range(stack[t])})
           = IF frame[f].st = "running" THEN 1 ELSE 0
  <1> DEFINE on == {t \in Threads : f \in Range(stack[t])}
  <1>1. \A t \in Threads : f \in Range(stack[t]) <=> \E i \in 1 .. Len(stack[t]) : stack[t][i] = f
    BY DEF Range, CoreInv, TypeInv
  <1>2. CASE frame[f].st = "running"
    <2>1. PICK t \in Threads : f \in Range(stack[t])
      BY <1>1, <1>2 DEF CoreInv, StackInv
    <2>2. \A u \in on : u = t
      BY <1>1, <2>1 DEF CoreInv, StackInv
    <2>3. on = {t}
      BY <2>1, <2>2
    <2>4. QED
      BY <1>2, <2>3, Cards
  <1>3. CASE frame[f].st # "running"
    <2>1. on = {}
      BY <1>1, <1>3 DEF CoreInv, StackInv
    <2>2. QED
      BY <1>3, <2>1, Cards
  <1>4. QED
    BY <1>2, <1>3

LEMMA DueOnce ==
  ASSUME CoreInv, NEW f \in Frames
  PROVE  Due(f) = IF Asleep(f) THEN 1 ELSE 0
  <1> DEFINE at == {p \in 1 .. 3 : f \in places[p]}
  <1>1. \A p \in 1 .. 3 : p \in at <=> \/ p = 1 /\ f \in posted
                                       \/ p = 2 /\ f \in timers
                                       \/ p = 3 /\ f \in abroad
    BY DEF places
  <1>2. Due(f) = Cardinality(at) + Cardinality(AwaitedBy(f))
    BY DEF Due
  <1>3. at \subseteq 1 .. 3
    OBVIOUS
  <1> HIDE DEF at
  <1>4. CASE ~Asleep(f)
    <2>1. at = {} /\ AwaitedBy(f) = {}
      BY <1>1, <1>3, <1>4, NotAwaited DEF CoreInv, Placed, AwaitedBy
    <2>2. QED
      BY <1>2, <1>4, <2>1, Cards
  <1>5. CASE Asleep(f) /\ f \in Placed
    <2>1. AwaitedBy(f) = {}
      BY <1>5, FrameForm DEF CoreInv, PlaceInv, AwaitedBy
    <2>2. PICK p \in 1 .. 3 : p \in at
      BY <1>1, <1>5 DEF Placed
    <2>3. /\ ~(f \in posted /\ f \in timers) /\ ~(f \in posted /\ f \in abroad)
          /\ ~(f \in timers /\ f \in abroad)
      BY DEF CoreInv, PlaceInv
    <2>4. ASSUME NEW q \in at
          PROVE  q = p
      <3>1. q \in 1 .. 3
        BY <1>3
      <3>2. CASE p = 1
        BY <1>1, <2>2, <2>3, <3>1, <3>2
      <3>3. CASE p = 2
        BY <1>1, <2>2, <2>3, <3>1, <3>3
      <3>4. CASE p = 3
        BY <1>1, <2>2, <2>3, <3>1, <3>4
      <3>5. QED
        BY <3>2, <3>3, <3>4
    <2>5. at = {p}
      <3>1. p \in at /\ \A q \in at : q = p
        BY <2>2, <2>4
      <3>2. QED
        BY <3>1
    <2>6. Cardinality(at) = 1 /\ Cardinality(AwaitedBy(f)) = 0
      BY <2>1, <2>5, Cards
    <2>7. QED
      BY <1>2, <1>5, <2>6
  <1>6. CASE Asleep(f) /\ f \notin Placed
    <2>1. at = {}
      BY <1>1, <1>3, <1>6 DEF Placed
    <2>2. PICK g \in Frames : Live(g) /\ frame[g].cont = f
      BY <1>6 DEF CoreInv, PlaceInv
    <2>3. \A h \in AwaitedBy(f) : h = g
      BY <2>2, FrameForm DEF CoreInv, PlaceInv, AwaitedBy
    <2>4. AwaitedBy(f) = {g}
      BY <2>2, <2>3 DEF AwaitedBy
    <2>5. QED
      BY <1>2, <1>6, <2>1, <2>4, Cards
  <1>7. QED
    BY <1>4, <1>5, <1>6

LEMMA CoreResumption == CoreInv => OneResumption
  BY OnThreads, DueOnce DEF OneResumption, Asleep

LEMMA CoreLifetimes == CoreInv /\ SignalInv => FrameLifetimes
  <1> SUFFICES ASSUME CoreInv, SignalInv
               PROVE  FrameLifetimes
    OBVIOUS
  <1>1. TypeOK
    BY DEF CoreInv, TypeInv
  <1>2. NoDanglingFrame
    <2> DEFINE dead == {f \in Frames : frame[f].st = "destroyed"}
    <2>1. \A t \in Threads : Range(stack[t]) \cap dead = {}
      BY DEF CoreInv, StackInv, Range, TypeInv
    <2>2. (posted \cup timers \cup abroad) \cap dead = {}
      BY DEF CoreInv, PlaceInv, Placed, Asleep
    <2>3. \A f \in Frames : Live(f) => frame[f].cont \notin dead
      BY FrameForm DEF CoreInv, PlaceInv, Asleep
    <2>4. \A t \in Threads, r \in Roots : notify[t] = <<"signal", r>> => <<r, "sync">> \notin dead
      BY DEF SignalInv, State
    <2>5. QED
      BY <2>1, <2>2, <2>3, <2>4 DEF NoDanglingFrame
  <1>3. OnlyStealLeaks
    <2> SUFFICES ASSUME NEW f \in Frames, call[f[1]].st \in {"returned", "threw"}, frame[f].st # "none"
                 PROVE  \/ frame[f].st = "destroyed"
                        \/ StealKind(f) /\ frame[f].st = "final"
      BY DEF OnlyStealLeaks
    <2>1. CallOK(f[1]) /\ Kind(f) \in Kinds /\ f = <<f[1], Kind(f)>>
      BY FrameForm DEF CoreInv, CallInv, Kind
    <2>2. frame[f].st = State(f[1], Kind(f))
      BY <2>1 DEF State
    <2>3. QED
      BY <2>1, <2>2 DEF CallOK, Kinds, StealKind
  <1>4. QED
    BY <1>1, <1>2, <1>3 DEF FrameLifetimes

LEMMA CoreInvariant == Spec => [](CoreInv /\ SignalInv)
  BY CoreInit, CoreStep, PTL DEF Spec

(* executor_task.hpp, awaiter.hpp, sync_task.hpp: a suspended coroutine    *)
(* has exactly one resumption to come, and one that runs has none.         *)
THEOREM ResumptionIsOne == Spec => []OneResumption
  BY CoreInvariant, CoreResumption, PTL

(* sync() destroys a coroutine only when it is at its final suspension and *)
(* nothing refers to it any more, final_sync_awaiter included; it leaves   *)
(* the frames of steal() behind, one at least for every spawn().           *)
THEOREM FramesOutliveReferences == Spec => []FrameLifetimes
  BY CoreInvariant, CoreLifetimes, PTL

-----------------------------------------------------------------------------
(* Exceptions.                                                             *)

LEMMA ExceptionSame ==
  ASSUME NEW r \in Roots, ExceptionOK(r), call'[r] = call[r],
         \A k \in Kinds : frame'[<<r, k>>] = frame[<<r, k>>]
  PROVE  ExceptionOK(r)'
  BY DEF ExceptionOK, Kinds, State, Over, Failed

(* A frame that stays alive. *)
LEMMA ExceptionLive ==
  ASSUME ExceptionInv, NEW f \in Frames, Live(f), Live(f)', call' = call,
         \A h \in Frames : h # f => frame'[h] = frame[h],
         Kind(f) = "sync" => \/ frame'[f].pc = frame[f].pc /\ frame'[f].failed = frame[f].failed
                             \/ /\ call[f[1]].plan = "bare"
                                /\ frame'[f].failed => frame'[f].pc = "return",
         Kind(f) = "spawn" => /\ frame'[f].failed = frame[f].failed
                              /\ \/ frame'[f].pc = frame[f].pc
                                 \/ frame[f].pc # "return" /\ frame'[f].pc # "return"
  PROVE  ExceptionInv'
  <1> SUFFICES ASSUME NEW r \in Roots
               PROVE  ExceptionOK(r)'
    BY DEF ExceptionInv
  <1>1. ExceptionOK(r)
    BY DEF ExceptionInv
  <1>2. CASE r # f[1]
    BY <1>1, <1>2, ExceptionSame, FrameForm
  <1>3. CASE r = f[1]
    <2>1. f = <<r, Kind(f)>> /\ Kind(f) \in Kinds
      BY <1>3, FrameForm DEF Kind
    <2>2. \A k \in Kinds : k # Kind(f) => frame'[<<r, k>>] = frame[<<r, k>>]
      BY <2>1, FrameForm
    <2>3. /\ Live(f) /\ Live(f)' /\ call' = call
          /\ Kind(f) = "sync" => \/ frame'[f].pc = frame[f].pc /\ frame'[f].failed = frame[f].failed
                                 \/ /\ call[r].plan = "bare"
                                    /\ frame'[f].failed => frame'[f].pc = "return"
          /\ Kind(f) = "spawn" => /\ frame'[f].failed = frame[f].failed
                                  /\ \/ frame'[f].pc = frame[f].pc
                                     \/ frame[f].pc # "return" /\ frame'[f].pc # "return"
      BY <1>3
    <2>4. CASE Kind(f) = "sync"
      BY <1>1, <2>1, <2>2, <2>3, <2>4 DEF ExceptionOK, State, Live, Over, Failed, Kinds
    <2>5. CASE Kind(f) = "spawn"
      BY <1>1, <2>1, <2>2, <2>3, <2>5 DEF ExceptionOK, State, Live, Over, Failed, Kinds
    <2>6. CASE Kind(f) \notin {"sync", "spawn"}
      BY <1>1, <2>1, <2>2, <2>3, <2>6 DEF ExceptionOK, State, Live, Over, Failed, Kinds
    <2>7. QED
      BY <2>4, <2>5, <2>6
  <1>4. QED
    BY <1>2, <1>3

LEMMA ExceptionAwait ==
  ASSUME CoreInv, ExceptionInv, NEW t, NEW f, NEW g, Await(t, f, g)
  PROVE  ExceptionInv'
  <1>1. /\ f \in Frames /\ g \in Frames /\ f # g /\ Awaits(f, g) /\ call' = call
        /\ frame[f].st = "running" /\ frame[g].st # "running"
        /\ \A h \in Frames : h \notin {f, g} => frame'[h] = frame[h]
        /\ frame'[f].st = "suspended" /\ frame'[f].pc = AwaitPc(g) /\ frame'[f].failed = frame[f].failed
        /\ frame'[g].st = "running" /\ ~frame'[g].failed
        /\ frame'[g].pc = IF UserKind(g) THEN "body" ELSE "start"
    BY AwaitEffect DEF Await
  <1> SUFFICES ASSUME NEW r \in Roots
               PROVE  ExceptionOK(r)'
    BY DEF ExceptionInv
  <1>2. ExceptionOK(r) /\ CallOK(r)
    BY DEF ExceptionInv, CoreInv, CallInv
  <1>3. CASE r # f[1]
    <2>1. \A k \in Kinds : <<r, k>> \notin {f, g} /\ <<r, k>> \in Frames
      BY <1>1, <1>3, FrameForm DEF Awaits
    <2>2. QED
      BY <1>1, <1>2, <2>1, ExceptionSame
  <1>4. CASE r = f[1]
    <2>1. f = <<r, Kind(f)>> /\ g = <<r, Kind(g)>> /\ Kind(f) \in Kinds /\ Kind(g) \in Kinds
      BY <1>1, <1>4, FrameForm DEF Awaits, Kind
    <2>2. \A k \in Kinds : k \notin {Kind(f), Kind(g)} => frame'[<<r, k>>] = frame[<<r, k>>]
      BY <1>1, <2>1, FrameForm
    <2> USE DEF Awaits, AwaitPc, ExceptionOK, CallOK, State, Over, Failed, UserKind, Unstarted, Kinds
    <2>3. CASE Kind(f) = "sync" /\ Kind(g) = "spawn"
      BY <1>1, <1>2, <2>1, <2>2, <2>3
    <2>4. CASE Kind(f) = "sync" /\ Kind(g) = "task"
      BY <1>1, <1>2, <2>1, <2>2, <2>4
    <2>5. CASE Kind(f) = "spawn" /\ Kind(g) = "task"
      BY <1>1, <1>2, <2>1, <2>2, <2>5
    <2>6. CASE Kind(f) = "spawn" /\ Kind(g) = "steal"
      BY <1>1, <1>2, <2>1, <2>2, <2>6
    <2>7. CASE Kind(f) = "steal" /\ Kind(g) = "inner"
      BY <1>1, <1>2, <2>1, <2>2, <2>7
    <2>8. CASE Kind(f) = "task" /\ Kind(g) = "steal"
      BY <1>1, <1>2, <2>1, <2>2, <2>8
    <2>9. CASE Kind(f) = "child" /\ Kind(g) = "steal"
      BY <1>1, <1>2, <2>1, <2>2, <2>9
    <2>10. CASE Kind(f) = "task" /\ Kind(g) = "child"
      BY <1>1, <1>2, <2>1, <2>2, <2>10
    <2>11. CASE Kind(f) = "spawn" /\ Kind(g) = "hop"
      BY <1>1, <1>2, <2>1, <2>2, <2>11
    <2>12. QED
      BY <1>1, <2>3, <2>4, <2>5, <2>6, <2>7, <2>8, <2>9, <2>10, <2>11
  <1>5. QED
    BY <1>3, <1>4

LEMMA ExceptionEnd ==
  ASSUME CoreInv, ExceptionInv, NEW t, NEW f, NEW failed, NEW caught, End(t, f, failed, caught)
  PROVE  ExceptionInv'
  <1>0. PICK g : g = frame[f].cont
    OBVIOUS
  <1>1. /\ f \in Frames /\ g \in Frames /\ f # g /\ g = <<f[1], Kind(g)>> /\ call' = call
        /\ Kind(f) # "sync" /\ Kind(g) \in Awaiters(Kind(f))
        /\ frame[f].st = "running" /\ frame[g].st = "suspended"
        /\ \A h \in Frames : h \notin {f, g} => frame'[h] = frame[h]
        /\ frame'[f].st = IF Kind(f) = "child" THEN "destroyed" ELSE "final"
        /\ frame'[f].failed = failed /\ frame'[f].pc = frame[f].pc
        /\ frame'[g].st = "running" /\ frame'[g].failed = (failed /\ ~caught)
        /\ frame'[g].pc = IF failed /\ ~caught THEN "return" ELSE IF UserKind(g) THEN "body"
                          ELSE IF Kind(g) = "steal" THEN "resched" ELSE NextPc(frame[g].pc)
        /\ failed \in BOOLEAN /\ (caught => UserKind(g))
        /\ UserKind(f) \/ (frame[f].pc = "return" /\ failed = frame[f].failed)
    BY <1>0, FinishEffect DEF End, Asleep
  <1> SUFFICES ASSUME NEW r \in Roots
               PROVE  ExceptionOK(r)'
    BY DEF ExceptionInv
  <1>2. ExceptionOK(r) /\ CallOK(r)
    BY DEF ExceptionInv, CoreInv, CallInv
  <1>3. CASE r # f[1]
    <2>1. \A k \in Kinds : <<r, k>> \notin {f, g} /\ <<r, k>> \in Frames
      BY <1>1, <1>3, FrameForm
    <2>2. QED
      BY <1>1, <1>2, <2>1, ExceptionSame
  <1>4. CASE r = f[1]
    <2>1. /\ f = <<r, Kind(f)>> /\ g = <<r, Kind(g)>> /\ Kind(f) \in Kinds /\ Kind(g) \in Kinds
          /\ frame[f].cont = g /\ Started(f)
      BY <1>0, <1>1, <1>4, FrameForm DEF Kind, Started
    <2>2. \A k \in Kinds : k \notin {Kind(f), Kind(g)} => frame'[<<r, k>>] = frame[<<r, k>>]
      BY <1>1, <2>1, FrameForm
    <2>0. /\ Kind(g) = "sync" => NextPc(frame[g].pc) = "return"
          /\ Kind(g) = "spawn" => NextPc(frame[g].pc) = IF Kind(f) = "hop" THEN "scheduled" ELSE "return"
          /\ Kind(f) = "hop" => ~failed
      <3> USE DEF CallOK, At, State, Live
      <3>1. Kind(g) = "sync" => frame[g].pc # "scheduled"
        BY <1>2, <2>1
      <3>2. Kind(f) = "hop" => ~failed /\ frame[<<r, "spawn">>].pc = "scheduled"
        BY <1>1, <1>2, <2>1 DEF UserKind, Failed
      <3>3. Kind(g) = "spawn" => Kind(f) \in {"hop", "task", "steal"}
        BY <1>1, <2>1 DEF Awaiters, Kinds
      <3>4. Kind(g) = "spawn" /\ Kind(f) = "task" => frame[g].pc # "scheduled"
        BY <1>1, <1>2, <2>1, CoroutineAssumption DEF Unstarted
      <3>5. Kind(g) = "spawn" /\ Kind(f) = "steal" => frame[g].pc # "scheduled"
        BY <1>1, <1>2, <2>1
      <3>6. QED
        BY <2>1, <3>1, <3>2, <3>3, <3>4, <3>5 DEF NextPc
    <2> USE DEF ExceptionOK, CallOK, State, Over, Failed, UserKind, Kinds
    <2>3. CASE Kind(f) = "spawn" /\ Kind(g) = "sync"
      BY <1>1, <1>2, <2>0, <2>1, <2>2, <2>3
    <2>4. CASE Kind(f) = "task" /\ Kind(g) = "spawn"
      BY <1>1, <1>2, <2>0, <2>1, <2>2, <2>4
    <2>5. CASE Kind(f) = "task" /\ Kind(g) = "sync"
      BY <1>1, <1>2, <2>0, <2>1, <2>2, <2>5
    <2>6. CASE Kind(f) = "child" /\ Kind(g) = "task"
      BY <1>1, <1>2, <2>0, <2>1, <2>2, <2>6, SMTT(30)
    <2>7. CASE Kind(f) = "steal" /\ Kind(g) = "spawn"
      BY <1>1, <1>2, <2>0, <2>1, <2>2, <2>7
    <2>8. CASE Kind(f) = "steal" /\ Kind(g) \in {"task", "child"}
      BY <1>1, <1>2, <2>0, <2>1, <2>2, <2>8
    <2>9. CASE Kind(f) = "inner" /\ Kind(g) = "steal"
      BY <1>1, <1>2, <2>0, <2>1, <2>2, <2>9
    <2>10. CASE Kind(f) = "hop" /\ Kind(g) = "spawn"
      BY <1>1, <1>2, <2>0, <2>1, <2>2, <2>10
    <2>11. QED
      BY <1>1, <2>1, <2>3, <2>4, <2>5, <2>6, <2>7, <2>8, <2>9, <2>10 DEF Awaiters
  <1>5. QED
    BY <1>3, <1>4

(* What a frame that goes on by itself keeps. *)
LEMMA BecomesEffect ==
  ASSUME CoreInv, NEW f, NEW F, Becomes(f, F), f \in Frames
  PROVE  /\ frame'[f] = F /\ \A h \in Frames : h # f => frame'[h] = frame[h]
         /\ F \in FrameState /\ F.cont = frame[f].cont /\ F.pay = frame[f].pay /\ call' = call
  BY OneFrame DEF Becomes, CoreInv, TypeInv, TypeOK

LEMMA GoesOn ==
  ASSUME CoreInv, NEW t, NEW f, NEW F, Park(t, f, F) \/ Stay(t, f, F)
  PROVE  /\ f \in Frames /\ t \in Threads /\ Active(t, f) /\ frame[f].st = "running"
         /\ Becomes(f, F) /\ Suspends(f, F.pc) /\ F.failed = frame[f].failed
         /\ F.st \in {"running", "suspended"}
  BY ActiveRuns DEF Park, Stay, Active, CoreInv, TypeInv, Stacks, Threads

(* The three steps of sync() itself. *)
LEMMA ExceptionFinal ==
  ASSUME CoreInv, ExceptionInv, NEW t \in Threads, NEW f \in Frames, FinalSync(t, f)
  PROVE  ExceptionInv'
  <1>1. Kind(f) = "sync" /\ frame[f].pc = "return" /\ frame[f].st = "running" /\ f[1] \in Roots
    BY RunsFacts, FrameForm DEF FinalSync
  <1>2. /\ frame'[f].st = "final" /\ frame'[f].pc = frame[f].pc /\ frame'[f].failed = frame[f].failed
        /\ \A h \in Frames : h # f => frame'[h] = frame[h]
    BY DEF FinalSync, CoreInv, TypeInv, TypeOK, FrameState
  <1>3. call' = call
    BY DEF FinalSync
  <1> SUFFICES ASSUME NEW r \in Roots
               PROVE  ExceptionOK(r)'
    BY DEF ExceptionInv
  <1>4. ExceptionOK(r) /\ CallOK(r)
    BY DEF ExceptionInv, CoreInv, CallInv
  <1>5. CASE r # f[1]
    <2>1. \A k \in Kinds : frame'[<<r, k>>] = frame[<<r, k>>]
      BY <1>2, <1>5, FrameForm
    <2>2. QED
      BY <1>3, <1>4, <2>1 DEF ExceptionOK, Kinds, State, Over, Failed
  <1>6. CASE r = f[1]
    <2>1. f = <<r, "sync">>
      BY <1>1, <1>6, FrameForm DEF Kind
    <2>2. \A k \in Kinds : k # "sync" => frame'[<<r, k>>] = frame[<<r, k>>]
      BY <1>2, <2>1, FrameForm
    <2>3. QED
      BY <1>1, <1>2, <1>3, <1>4, <2>1, <2>2 DEF ExceptionOK, CallOK, Kinds, State, Over, Failed
  <1>7. QED
    BY <1>5, <1>6

LEMMA ExceptionCall ==
  ASSUME CoreInv, ExceptionInv, NEW t \in Threads, NEW r \in Roots, NEW plan \in Plans,
         SyncCall(t, r, plan)
  PROVE  ExceptionInv'
  <1>1. \A k \in Kinds : State(r, k) = "none"
    BY DEF SyncCall, CoreInv, CallInv, CallOK
  <1>2. \A h \in Frames : \/ frame'[h] = frame[h]
                          \/ h[1] = r /\ frame'[h].st \in {"running", "suspended"}
                             /\ frame'[h].pc = "start" /\ ~frame'[h].failed
    BY DEF SyncCall, Fresh
  <1>3. call'[r].st = "called" /\ \A q \in Roots : q # r => call'[q] = call[q]
    BY DEF SyncCall, CoreInv, TypeInv, TypeOK
  <1> SUFFICES ASSUME NEW q \in Roots
               PROVE  ExceptionOK(q)'
    BY DEF ExceptionInv
  <1>4. ExceptionOK(q)
    BY DEF ExceptionInv
  <1>5. CASE q # r
    <2>1. \A k \in Kinds : frame'[<<q, k>>] = frame[<<q, k>>]
      BY <1>2, <1>5, FrameForm
    <2>2. QED
      BY <1>3, <1>4, <1>5, <2>1, ExceptionSame
  <1>6. CASE q = r
    <2>1. \A k \in Kinds : /\ ~Failed(r, k) /\ frame[<<r, k>>].pc = "start"
                           /\ frame[<<r, k>>].st = "none"
      BY <1>1, <1>4, <1>6 DEF ExceptionOK, State
    <2>2. \A k \in Kinds : /\ ~Failed(r, k)' /\ frame'[<<r, k>>].pc = "start"
                           /\ frame'[<<r, k>>].st \in {"none", "running", "suspended"}
      BY <1>2, <2>1, FrameForm DEF Failed
    <2>3. QED
      BY <1>3, <1>6, <2>2 DEF ExceptionOK, State, Over, Kinds
  <1>7. QED
    BY <1>5, <1>6

LEMMA ExceptionReturn ==
  ASSUME CoreInv, ExceptionInv, NEW t \in Threads, NEW r \in Roots, SyncReturn(t, r)
  PROVE  ExceptionInv'
  <1>1. State(r, "sync") = "final"
    BY DEF SyncReturn, Waiting, CoreInv, CallInv, CallOK
  <1>2. /\ \A h \in Frames : /\ frame'[h].pc = frame[h].pc /\ frame'[h].failed = frame[h].failed
                             /\ frame'[h].st = IF h \in Owned(r) /\ frame[h].st # "none"
                                                 THEN "destroyed" ELSE frame[h].st
        /\ \A h \in Frames : h \notin Owned(r) => frame'[h] = frame[h]
    BY DEF SyncReturn, DestroyAll, CoreInv, TypeInv, TypeOK, FrameState
  <1>3. /\ call'[r].plan = call[r].plan
        /\ call'[r].st = IF frame[<<r, "sync">>].failed THEN "threw" ELSE "returned"
        /\ \A q \in Roots : q # r => call'[q] = call[q]
    BY DEF SyncReturn, CoreInv, TypeInv, TypeOK, CallState
  <1> SUFFICES ASSUME NEW q \in Roots
               PROVE  ExceptionOK(q)'
    BY DEF ExceptionInv
  <1>4. ExceptionOK(q)
    BY DEF ExceptionInv
  <1>5. CASE q # r
    <2>1. \A k \in Kinds : frame'[<<q, k>>] = frame[<<q, k>>]
      BY <1>2, <1>5, FrameForm DEF Owned
    <2>2. QED
      BY <1>3, <1>4, <1>5, <2>1, ExceptionSame
  <1>6. CASE q = r
    <2>1. \A k \in Kinds : /\ frame'[<<r, k>>].pc = frame[<<r, k>>].pc
                           /\ Failed(r, k)' = Failed(r, k)
                           /\ State(r, k)' = IF k \in {"sync", "spawn", "task"} /\ State(r, k) # "none"
                                               THEN "destroyed" ELSE State(r, k)
      BY <1>2, FrameForm DEF Owned, State, Failed
    <2>2. \A k \in Kinds : /\ State(r, k)' = "none" <=> State(r, k) = "none"
                           /\ Over(r, k) => Over(r, k)'
      BY <2>1 DEF Over
    <2>3. State(r, "sync")' = "destroyed"
      BY <1>1, <2>1 DEF Kinds
    <2>4. call'[r].st = "threw" <=> Failed(r, "sync")'
      BY <1>3, <2>1 DEF Failed, Kinds
    <2>5. \A k \in Kinds : Over(r, k)' => Over(r, k) \/ Live(<<r, k>>)
      <3>1. \A k \in Kinds : frame[<<r, k>>].st \in {"none", "suspended", "running", "final", "destroyed"}
        BY FrameForm DEF CoreInv, TypeInv, TypeOK, FrameState
      <3>2. QED
        BY <2>1, <3>1 DEF Over, State, Live
    <2>6. \A k \in Kinds : ~Live(<<r, k>>)
      BY <1>1, Quiet
    <2>7. QED
      BY <1>3, <1>4, <1>6, <2>1, <2>2, <2>3, <2>4, <2>5, <2>6 DEF ExceptionOK, Kinds
  <1>7. QED
    BY <1>5, <1>6

LEMMA ExceptionForm ==
  ASSUME CoreInv, ExceptionInv, Form
  PROVE  ExceptionInv'
  <1>1. ASSUME NEW t, NEW f, NEW F, Park(t, f, F) \/ Stay(t, f, F)
        PROVE  ExceptionInv'
    <2>1. /\ f \in Frames /\ frame[f].st = "running" /\ Suspends(f, F.pc) /\ Becomes(f, F)
          /\ F.failed = frame[f].failed /\ F.st \in {"running", "suspended"}
      BY <1>1, GoesOn
    <2>2. frame'[f] = F /\ (\A h \in Frames : h # f => frame'[h] = frame[h]) /\ call' = call
      BY <2>1, BecomesEffect
    <2>3. Live(f) /\ Live(f)'
      BY <2>1, <2>2 DEF Live
    <2>4. /\ Kind(f) = "sync" => call[f[1]].plan = "bare" /\ F.pc = "return"
          /\ Kind(f) = "spawn" => frame[f].pc # "return" /\ F.pc # "return"
      BY <2>1 DEF Suspends, UserKind, StealKind
    <2>5. QED
      BY <2>1, <2>2, <2>3, <2>4, ExceptionLive
  <1>2. ASSUME NEW t, NEW f, NEW F, Wake(t, f, F)
        PROVE  ExceptionInv'
    <2>1. f \in Frames /\ Asleep(f) /\ ContOK(f) /\ f \in Placed /\ f[1] \in Roots
      BY <1>2, FrameForm DEF Wake, CoreInv, TypeInv, TypeOK, PlaceInv, Placed, ContInv
    <2>2. Becomes(f, F) /\ F.st = "running"
      BY <1>2 DEF Wake
    <2>3. frame'[f] = F /\ (\A h \in Frames : h # f => frame'[h] = frame[h]) /\ call' = call
      BY <2>1, <2>2, BecomesEffect
    <2>4. Live(f) /\ Live(f)'
      BY <2>1, <2>2, <2>3 DEF Live, Asleep
    <2>5. Kind(f) = "sync" => call[f[1]].plan = "bare"
      BY <2>1 DEF ContOK
    <2>6. CASE F.pc = frame[f].pc /\ F.failed = frame[f].failed
      BY <2>1, <2>3, <2>4, <2>6, ExceptionLive
    <2>7. CASE f \in abroad /\ F.pc = IF F.failed THEN "return" ELSE frame[f].pc
      <3>1. Kind(f) # "spawn"
        BY <2>1, <2>7 DEF ContOK
      <3>2. Kind(f) = "sync" => call[f[1]].plan = "bare" /\ (F.failed => F.pc = "return")
        BY <2>5, <2>7
      <3>3. QED
        BY <2>1, <2>3, <2>4, <3>1, <3>2, ExceptionLive
    <2>8. QED
      BY <1>2, <2>6, <2>7 DEF Wake
  <1>3. ASSUME NEW t, NEW f, NEW g, Await(t, f, g)
        PROVE  ExceptionInv'
    BY <1>3, ExceptionAwait
  <1>4. ASSUME NEW t, NEW f, NEW failed, NEW caught, End(t, f, failed, caught)
        PROVE  ExceptionInv'
    BY <1>4, ExceptionEnd
  <1>5. ASSUME NEW t \in Threads, NEW r \in Roots, Signal(t, r) \/ Notify(t, r)
        PROVE  ExceptionInv'
    <2>1. frame' = frame /\ \A q \in Roots : call'[q].st = call[q].st /\ call'[q].plan = call[q].plan
      <3>1. \A q \in Roots : call[q] \in CallState /\ call \in [Roots -> CallState]
        BY DEF CoreInv, TypeInv, TypeOK
      <3>2. frame' = frame /\ (call' = call \/ call' = [call EXCEPT ![r].fence = TRUE])
        BY <1>5 DEF Signal, Notify
      <3>3. QED
        BY <3>1, <3>2 DEF CallState
    <2>2. QED
      <3> SUFFICES ASSUME NEW q \in Roots
                   PROVE  ExceptionOK(q)'
        BY DEF ExceptionInv
      <3>1. ExceptionOK(q)
        BY DEF ExceptionInv
      <3>2. QED
        BY <2>1, <3>1 DEF ExceptionOK, Kinds, State, Over, Failed
  <1>6. ASSUME NEW f, TimerFires(f)
        PROVE  ExceptionInv'
    BY <1>6, ExceptionSame DEF TimerFires, ExceptionInv
  <1>7. QED
    BY <1>1, <1>2, <1>3, <1>4, <1>5, <1>6, ExceptionFinal, ExceptionCall, ExceptionReturn DEF Form

LEMMA ExceptionInit == Init => ExceptionInv
  <1> SUFFICES ASSUME Init, NEW r \in Roots
               PROVE  ExceptionOK(r)
    BY DEF ExceptionInv
  <1>1. [Fresh EXCEPT !.st = "none"].st = "none" /\ [Fresh EXCEPT !.st = "none"].pc = "start"
        /\ ~[Fresh EXCEPT !.st = "none"].failed
    BY DEF Fresh
  <1>2. \A k \in Kinds : State(r, k) = "none" /\ ~Failed(r, k) /\ frame[<<r, k>>].pc = "start"
    BY <1>1, FrameForm DEF Init, State, Failed
  <1>3. call[r].st = "new"
    BY DEF Init
  <1>4. QED
    BY <1>2, <1>3 DEF ExceptionOK, Over, Kinds

LEMMA ExceptionStep == CoreInv /\ ExceptionInv /\ [Next]_vars => ExceptionInv'
  <1>1. ASSUME ExceptionInv, UNCHANGED vars
        PROVE  ExceptionInv'
    BY <1>1, ExceptionSame DEF vars, ExceptionInv
  <1>2. QED
    BY <1>1, Forms, ExceptionForm

LEMMA ExceptionSafe == CoreInv /\ ExceptionInv => NoExceptionLost
  <1> SUFFICES ASSUME CoreInv, ExceptionInv, NEW r \in Roots
               PROVE  /\ call[r].st = "returned" => \A k \in {"spawn", "task"} : ~Failed(r, k)
                      /\ call[r].st = "threw" /\ call[r].plan # "bare" =>
                            \E k \in {"task", "steal"} : Failed(r, k)
    BY DEF NoExceptionLost, Failed
  <1>1. ExceptionOK(r) /\ CallOK(r)
    BY DEF ExceptionInv, CoreInv, CallInv
  <1> SUFFICES ASSUME call[r].st \in {"returned", "threw"}
               PROVE  /\ call[r].st = "returned" => \A k \in {"spawn", "task"} : ~Failed(r, k)
                      /\ call[r].st = "threw" /\ call[r].plan # "bare" =>
                            \E k \in {"task", "steal"} : Failed(r, k)
    BY <1>1
  <1>2. call[r].plan \in {"task", "foreign", "bare", "direct"}
    BY <1>1, CoroutineAssumption DEF CallOK
  <1>3. \A k \in Kinds : State(r, k) = "none" => ~Failed(r, k)
    BY <1>1 DEF ExceptionOK
  <1>4. /\ State(r, "sync") = "destroyed" /\ frame[<<r, "sync">>].pc = "return"
        /\ call[r].st = "threw" <=> Failed(r, "sync")
    BY <1>1 DEF ExceptionOK, Over
  <1>5. CASE call[r].plan = "bare"
    <2>1. State(r, "spawn") = "none" /\ State(r, "task") = "none"
      BY <1>1, <1>5 DEF CallOK
    <2>2. QED
      BY <1>3, <1>5, <2>1 DEF Kinds
  <1>6. CASE call[r].plan = "direct"
    <2>1. State(r, "spawn") = "none" /\ Failed(r, "sync") = Failed(r, "task")
      BY <1>1, <1>4, <1>6 DEF CallOK, ExceptionOK
    <2>2. QED
      BY <1>3, <1>4, <2>1 DEF Kinds
  <1>7. CASE call[r].plan \in {"task", "foreign"}
    <2>1. Over(r, "spawn") /\ Failed(r, "sync") = Failed(r, "spawn")
      BY <1>1, <1>4, <1>7 DEF ExceptionOK
    <2>2. frame[<<r, "spawn">>].pc = "return"
      BY <1>1, <2>1 DEF ExceptionOK
    <2>3. CASE call[r].plan = "task"
      BY <1>1, <1>4, <2>1, <2>2, <2>3 DEF ExceptionOK
    <2>4. CASE call[r].plan = "foreign"
      <3>1. State(r, "task") = "none"
        BY <1>1, <2>4 DEF CallOK
      <3>2. Failed(r, "spawn") = Failed(r, "steal")
        BY <1>1, <2>2, <2>4 DEF ExceptionOK
      <3>3. QED
        BY <1>3, <1>4, <2>1, <3>1, <3>2 DEF Kinds
    <2>5. QED
      BY <1>7, <2>3, <2>4
  <1>8. QED
    BY <1>2, <1>5, <1>6, <1>7

(* promise.hpp, sync_task.hpp: an exception nobody caught reaches the      *)
(* caller of sync(), and the caller gets one only if a coroutine of the    *)
(* call, or what it awaited, threw.                                        *)
THEOREM ExceptionReachesCaller == Spec => []NoExceptionLost
  <1>1. Spec => [](CoreInv /\ ExceptionInv)
    BY CoreInvariant, ExceptionInit, ExceptionStep, PTL DEF Spec
  <1>2. QED
    BY <1>1, ExceptionSafe, PTL

-----------------------------------------------------------------------------
(* The payload.  sync(task()) is left out: its task has none.              *)

NoDirect == "direct" \notin Plans

LEMMA PayKept ==
  ASSUME PayInv,
         \A h \in Frames : Kind(h) \in {"spawn", "task", "child"} /\ Started(h)' =>
           (Started(h) /\ frame'[h].pay = frame[h].pay) \/ frame'[h].pay
  PROVE  PayInv'
  BY DEF PayInv

(* Whoever awaits a task runs and has its payload. *)
LEMMA PayAwait ==
  ASSUME NoDirect, CoreInv, PayInv, NEW t, NEW f, NEW g, Await(t, f, g)
  PROVE  PayInv'
  <1>1. /\ f \in Frames /\ g \in Frames /\ Awaits(f, g) /\ frame[f].st = "running"
        /\ \A h \in Frames : h \notin {f, g} => frame'[h] = frame[h]
        /\ frame'[f].pay = frame[f].pay
        /\ frame'[g].pay = (Kind(g) = "spawn" \/ (UserKind(g) /\ frame[f].pay))
    BY AwaitEffect DEF Await
  <1>2. Kind(f) \in {"sync", "spawn", "task", "child"} /\ UserKind(g) => frame[f].pay
    <2>1. CASE Kind(f) = "sync"
      <3>1. f = <<f[1], "sync">> /\ f[1] \in Roots /\ CallOK(f[1])
        BY <1>1, <2>1, FrameForm DEF Kind, CoreInv, CallInv
      <3>2. State(f[1], "sync") # "none"
        BY <1>1, <3>1 DEF State
      <3>3. call[f[1]].plan # "direct"
        BY <3>1, <3>2 DEF CallOK, NoDirect, Kinds
      <3>4. QED
        BY <1>1, <2>1, <3>3 DEF Awaits, UserKind
    <2>2. CASE Kind(f) # "sync"
      BY <1>1, <2>2 DEF PayInv, Started
    <2>3. QED
      BY <2>1, <2>2
  <1>3. UserKind(g) => Kind(f) \in {"sync", "spawn", "task", "child"}
    BY <1>1 DEF Awaits, UserKind
  <1>4. Kind(g) \in {"spawn", "task", "child"} => frame'[g].pay
    BY <1>1, <1>2, <1>3 DEF UserKind
  <1>5. Started(f)
    BY <1>1 DEF Started
  <1>6. QED
    <2> SUFFICES ASSUME NEW h \in Frames, Kind(h) \in {"spawn", "task", "child"}, Started(h)'
                 PROVE  (Started(h) /\ frame'[h].pay = frame[h].pay) \/ frame'[h].pay
      BY PayKept
    <2>1. CASE h \notin {f, g}
      BY <1>1, <2>1 DEF Started, Asleep
    <2>2. CASE h = f
      BY <1>1, <1>5, <2>2
    <2>3. CASE h = g
      BY <1>4, <2>3
    <2>4. QED
      BY <2>1, <2>2, <2>3

LEMMA PayForm ==
  ASSUME NoDirect, CoreInv, PayInv, Form
  PROVE  PayInv'
  <1>1. ASSUME NEW t, NEW f, NEW g, Await(t, f, g)
        PROVE  PayInv'
    BY <1>1, PayAwait
  <1>2. ASSUME NEW t, NEW f, NEW F, Park(t, f, F) \/ Stay(t, f, F) \/ Wake(t, f, F)
        PROVE  PayInv'
    <2>1. f \in Frames /\ Started(f) /\ Becomes(f, F)
      <3>1. CASE Park(t, f, F) \/ Stay(t, f, F)
        BY <3>1, GoesOn DEF Started
      <3>2. CASE Wake(t, f, F)
        BY <3>2 DEF Wake, CoreInv, TypeInv, TypeOK, PlaceInv, Placed, Started
      <3>3. QED
        BY <1>2, <3>1, <3>2
    <2>2. /\ frame'[f] = F /\ F.pay = frame[f].pay
          /\ \A h \in Frames : h # f => frame'[h] = frame[h]
      BY <2>1, BecomesEffect
    <2>3. QED
      BY <2>1, <2>2, PayKept DEF Started, Asleep
  <1>3. ASSUME NEW t, NEW f, NEW failed, NEW caught, End(t, f, failed, caught)
        PROVE  PayInv'
    <2>1. PICK g : g = frame[f].cont
      OBVIOUS
    <2>2. /\ f \in Frames /\ g \in Frames /\ Asleep(g) /\ frame[f].st = "running"
          /\ \A h \in Frames : h \notin {f, g} => frame'[h] = frame[h]
          /\ frame'[f].pay = frame[f].pay /\ frame'[g].pay = frame[g].pay
      BY <1>3, <2>1, FinishEffect DEF End
    <2>3. QED
      BY <2>2, PayKept DEF Started, Asleep
  <1>4. ASSUME NEW t \in Threads, NEW f \in Frames, FinalSync(t, f)
        PROVE  PayInv'
    <2>1. Kind(f) = "sync" /\ \A h \in Frames : h # f => frame'[h] = frame[h]
      BY <1>4 DEF FinalSync, CoreInv, TypeInv, TypeOK
    <2>2. QED
      BY <2>1, PayKept DEF Started, Asleep
  <1>5. ASSUME NEW t \in Threads, NEW r \in Roots, NEW plan \in Plans, SyncCall(t, r, plan)
        PROVE  PayInv'
    <2>1. \A h \in Frames : \/ frame'[h] = frame[h]
                            \/ h = <<r, "sync">>
                            \/ frame'[h].st = "suspended" /\ frame'[h].pc = "start"
      BY <1>5 DEF SyncCall, Fresh
    <2>2. \A h \in Frames : Kind(h) \in {"spawn", "task", "child"} =>
             frame'[h] = frame[h] \/ ~Started(h)'
      BY <2>1, FrameForm DEF Kind, Started, Asleep
    <2>3. QED
      BY <2>2, PayKept DEF Started, Asleep
  <1>6. ASSUME NEW t \in Threads, NEW r \in Roots, SyncReturn(t, r)
        PROVE  PayInv'
    <2>1. \A h \in Frames : frame'[h] = frame[h] \/ frame'[h].st = "destroyed"
      BY <1>6 DEF SyncReturn, DestroyAll, CoreInv, TypeInv, TypeOK, FrameState
    <2>2. QED
      BY <2>1, PayKept DEF Started, Asleep
  <1>7. ASSUME UNCHANGED frame
        PROVE  PayInv'
    BY <1>7, PayKept DEF Started, Asleep
  <1>8. QED
    BY <1>1, <1>2, <1>3, <1>4, <1>5, <1>6, <1>7 DEF Form, Signal, Notify, TimerFires

LEMMA PayInit == Init => PayInv
  <1>1. [Fresh EXCEPT !.st = "none"].st = "none"
    BY DEF Fresh
  <1>2. QED
    BY <1>1 DEF Init, PayInv, Started, Asleep

LEMMA PayStep == NoDirect /\ CoreInv /\ PayInv /\ [Next]_vars => PayInv'
  <1>1. ASSUME PayInv, UNCHANGED vars
        PROVE  PayInv'
    BY <1>1 DEF vars, PayInv, Started, Asleep
  <1>2. QED
    BY <1>1, Forms, PayForm

(* promise.hpp await_transform(), executor.hpp spawn(): under spawn() a    *)
(* task, and every task it awaits, has the payload when it runs.           *)
THEOREM PayloadIsThere ==
  ASSUME NoDirect
  PROVE  Spec => []PayloadInjected
  <1>1. PayInv => PayloadInjected
    BY DEF PayInv, PayloadInjected, Started
  <1>2. Spec => [](CoreInv /\ PayInv)
    BY CoreInvariant, PayInit, PayStep, PTL DEF Spec
  <1>3. QED
    BY <1>1, <1>2, PTL

-----------------------------------------------------------------------------
(* The threads that run an executor's code.                                *)

(* Every frame on a stack is x on t's, or was there before and is not f.   *)
OnlyMoved(t, f, x) ==
    \A u \in Threads : \A i \in 1 .. Len(stack'[u]) :
      \/ u = t /\ stack'[u][i] = x
      \/ i \in 1 .. Len(stack[u]) /\ stack'[u][i] = stack[u][i] /\ stack[u][i] # f

LEMMA TopMoved ==
  ASSUME CoreInv, NEW t \in Threads, NEW f \in Frames, NEW x \in Frames, Active(t, f),
         stack' = [stack EXCEPT ![t] = Front(@)] \/ Transfer(t, x)
  PROVE  OnlyMoved(t, f, x)
  <1>1. /\ Len(stack[t]) \in Nat \ {0} /\ stack[t][Len(stack[t])] = f
        /\ stack[t] \in Seq(Frames) /\ stack[t] # <<>>
    BY FrontLast DEF CoreInv, TypeInv, Active
  <1>2. \A u \in Threads : u # t => stack'[u] = stack[u]
    BY DEF CoreInv, TypeInv, Transfer
  <1>3. \A u \in Threads : \A i \in 1 .. Len(stack[u]) :
           u # t \/ i < Len(stack[t]) => stack[u][i] # f
    BY <1>1, SMTT(30) DEF CoreInv, StackInv, TypeInv
  <1>4. \A i \in 1 .. Len(stack'[t]) :
           \/ stack'[t][i] = x
           \/ i \in 1 .. Len(stack[t]) - 1 /\ stack'[t][i] = stack[t][i]
    <2>1. CASE stack' = [stack EXCEPT ![t] = Front(@)]
      <3>1. stack'[t] = Front(stack[t])
        BY <2>1 DEF CoreInv, TypeInv
      <3>2. QED
        BY <1>1, <3>1, FrontLast
    <2>2. CASE Transfer(t, x)
      <3>1. stack'[t] = Append(Front(stack[t]), x)
        BY <2>2 DEF CoreInv, TypeInv, Transfer
      <3>2. Len(stack'[t]) = Len(stack[t]) /\ stack'[t][Len(stack[t])] = x
            /\ \A i \in 1 .. Len(stack[t]) - 1 : stack'[t][i] = stack[t][i]
        BY <1>1, <3>1, FrontLast
      <3>3. QED
        BY <1>1, <3>2
    <2>3. QED
      BY <2>1, <2>2
  <1>5. QED
    BY <1>1, <1>2, <1>3, <1>4 DEF OnlyMoved

(* What is left to show of a step, and the frames it changes.              *)
LEMMA WorkerKept ==
  ASSUME CoreInv, WorkerInv, NEW t \in Threads, NEW f, NEW x, OnlyMoved(t, f, x),
         \A h \in Frames : frame[h].st = "running" /\ h # f => frame'[h].pc = frame[h].pc,
         \A r \in Roots : Failed(r, "steal") => Failed(r, "steal")',
         Pinned(x)' => t \in Workers \/ Failed(x[1], "steal")',
         \A h \in abroad' : Kind(h) = "steal" =>
           (h \in abroad /\ frame'[h].pc = frame[h].pc) \/ frame'[h].pc = "resched",
         \A r \in Roots : Failed(r, "steal")' =>
           \/ frame'[<<r, "steal">>] = frame[<<r, "steal">>]
           \/ State(r, "steal")' = "final"
           \/ State(r, "steal")' = "running" /\ frame'[<<r, "steal">>].pc = "return"
  PROVE  WorkerInv'
  <1>1. ASSUME NEW u \in Threads, NEW i \in 1 .. Len(stack'[u]), Pinned(stack[u][i])'
        PROVE  u \in Workers \/ Failed(stack[u][i][1], "steal")'
    <2>1. CASE stack'[u][i] = x /\ u = t
      BY <1>1, <2>1
    <2>2. CASE i \in 1 .. Len(stack[u]) /\ stack'[u][i] = stack[u][i] /\ stack[u][i] # f
      <3>1. stack[u][i] \in Frames /\ frame[stack[u][i]].st = "running"
        BY <2>2 DEF CoreInv, TypeInv, StackInv
      <3>2. PICK h \in Frames : h = stack[u][i]
        BY <3>1
      <3>3. frame'[h].pc = frame[h].pc /\ Pinned(h)' /\ h[1] \in Roots
        BY <1>1, <2>2, <3>1, <3>2, FrameForm
      <3>4. Pinned(h)
        BY <3>3 DEF Pinned, UserKind, Kind
      <3>5. u \in Workers \/ Failed(h[1], "steal")
        BY <2>2, <3>2, <3>4 DEF WorkerInv
      <3>6. QED
        BY <2>2, <3>2, <3>3, <3>5
    <2>3. QED
      BY <1>1, <2>1, <2>2 DEF OnlyMoved
  <1>2. \A h \in abroad' : Kind(h) = "steal" => frame'[h].pc = "resched"
    BY DEF WorkerInv
  <1>3. \A r \in Roots : Failed(r, "steal")' =>
           \/ State(r, "steal")' = "final"
           \/ State(r, "steal")' = "running" /\ frame'[<<r, "steal">>].pc = "return"
    BY DEF WorkerInv, Failed, State
  <1>4. QED
    BY <1>1, <1>2, <1>3 DEF WorkerInv

LEMMA CallFrames ==
  ASSUME NEW r \in Roots
  PROVE  /\ <<r, "steal">> \in Frames /\ Kind(<<r, "steal">>) = "steal" /\ <<r, "steal">>[1] = r
         /\ <<r, "sync">> \in Frames /\ Kind(<<r, "sync">>) = "sync" /\ <<r, "sync">>[1] = r
  <1>1. "steal" \in Kinds /\ "sync" \in Kinds
    BY DEF Kinds
  <1>2. QED
    BY <1>1, FrameForm DEF Kind

(* The active frame of a thread, where it is pinned. *)
LEMMA PinnedActive ==
  ASSUME CoreInv, WorkerInv, NEW t \in Threads, NEW f \in Frames, Active(t, f), Pinned(f)
  PROVE  t \in Workers \/ Failed(f[1], "steal")
  <1>1. /\ Len(stack[t]) \in Nat \ {0} /\ stack[t][Len(stack[t])] = f
        /\ stack[t] \in Seq(Frames) /\ stack[t] # <<>>
    BY FrontLast DEF CoreInv, TypeInv, Active
  <1>2. QED
    BY <1>1 DEF WorkerInv

LEMMA WorkerAwait ==
  ASSUME NoDirect, CoreInv, WorkerInv, NEW t, NEW f, NEW g, Await(t, f, g)
  PROVE  WorkerInv'
  <1>1. /\ t \in Threads /\ f \in Frames /\ g \in Frames /\ Active(t, f) /\ Awaits(f, g)
        /\ frame[f].st = "running" /\ frame[g].st # "running" /\ f # g
        /\ \A h \in Frames : h \notin {f, g} => frame'[h] = frame[h]
        /\ frame'[f].failed = frame[f].failed /\ ~frame'[g].failed
        /\ frame'[g].pc = IF UserKind(g) THEN "body" ELSE "start"
        /\ abroad' = abroad /\ Transfer(t, g)
    <2>1. Transfer(t, g)
      BY DEF Await, StartAwait
    <2>2. QED
      BY <2>1, AwaitEffect DEF Await
  <1>2. OnlyMoved(t, f, g)
    BY <1>1, TopMoved
  <1>3. f[1] \in Roots /\ f = <<f[1], Kind(f)>> /\ g = <<f[1], Kind(g)>> /\ g[1] = f[1]
    BY <1>1, FrameForm DEF Awaits, Kind
  <1>4. Kind(g) = "steal" => ~frame[g].failed
    <2>1. Kind(g) = "steal" => frame[g].st = "none"
      BY <1>1 DEF Awaits, UserKind
    <2>2. QED
      BY <1>3, <2>1 DEF WorkerInv, Failed, State
  <1>5. Kind(f) = "steal" => ~frame[f].failed
    <2>1. Kind(f) = "steal" => frame[f].pc = "start"
      BY <1>1 DEF Awaits, UserKind
    <2>2. QED
      BY <1>1, <1>3, <2>1 DEF WorkerInv, Failed, State
  <1>6. \A r \in Roots : Failed(r, "steal")' <=> Failed(r, "steal")
    <2> SUFFICES ASSUME NEW r \in Roots
                 PROVE  frame'[<<r, "steal">>].failed <=> frame[<<r, "steal">>].failed
      BY DEF Failed
    <2>1. PICK h \in Frames : h = <<r, "steal">> /\ Kind(h) = "steal"
      BY CallFrames
    <2>2. QED
      BY <1>1, <1>4, <1>5, <2>1
  <1>7. \A r \in Roots : Failed(r, "steal") => <<r, "steal">> \notin {f, g}
    BY <1>3, <1>4, <1>5 DEF Failed
  <1>8. Pinned(g)' => t \in Workers \/ Failed(g[1], "steal")'
    <2>1. SUFFICES ASSUME UserKind(g)
                   PROVE  t \in Workers \/ Failed(g[1], "steal")
      BY <1>1, <1>3, <1>6 DEF Pinned, UserKind, Kind
    <2>2. CASE Kind(f) = "sync"
      <3>1. CallOK(f[1]) /\ State(f[1], "sync") # "none"
        BY <1>1, <1>3, <2>2 DEF CoreInv, CallInv, State
      <3>2. call[f[1]].plan # "direct"
        BY <3>1 DEF CallOK, NoDirect, Kinds
      <3>3. QED
        BY <1>1, <2>1, <2>2, <3>2 DEF Awaits, UserKind
    <2>3. CASE Kind(f) # "sync"
      <3>1. Pinned(f)
        BY <1>1, <2>1, <2>3 DEF Awaits, UserKind, Pinned
      <3>2. QED
        BY <1>1, <1>3, <3>1, PinnedActive
    <2>4. QED
      BY <2>2, <2>3
  <1>9. \A h \in abroad : h \notin {f, g} /\ h \in Frames
    <2>1. \A h \in abroad : Asleep(h) /\ h \in Frames
      BY DEF CoreInv, PlaceInv, Placed, TypeInv, TypeOK
    <2>2. Kind(g) # "sync" /\ ~Asleep(g) /\ ~Asleep(f)
      BY <1>1 DEF Awaits, UserKind, Asleep, Unstarted
    <2>3. QED
      BY <2>1, <2>2
  <1>10. \A r \in Roots : Failed(r, "steal")' => frame'[<<r, "steal">>] = frame[<<r, "steal">>]
    BY <1>1, <1>6, <1>7, CallFrames
  <1>11. QED
    <2>1. \A h \in Frames : frame[h].st = "running" /\ h # f => frame'[h].pc = frame[h].pc
      BY <1>1
    <2>2. \A h \in abroad' : h \in abroad /\ frame'[h].pc = frame[h].pc
      BY <1>1, <1>9
    <2>3. QED
      BY <1>1, <1>2, <1>6, <1>8, <1>10, <2>1, <2>2, WorkerKept

LEMMA WorkerPark ==
  ASSUME CoreInv, WorkerInv, NEW t, NEW f, NEW F, Park(t, f, F) \/ Stay(t, f, F)
  PROVE  WorkerInv'
  <1>1. /\ f \in Frames /\ t \in Threads /\ Active(t, f) /\ frame[f].st = "running"
        /\ Becomes(f, F) /\ Suspends(f, F.pc) /\ F.failed = frame[f].failed
    BY GoesOn
  <1>2. frame'[f] = F /\ \A h \in Frames : h # f => frame'[h] = frame[h]
    BY <1>1, BecomesEffect
  <1>3. f[1] \in Roots /\ f = <<f[1], Kind(f)>>
    BY <1>1, FrameForm DEF Kind
  <1>4. Kind(f) = "steal" => ~frame[f].failed
    <2>1. Kind(f) = "steal" => frame[f].pc # "return"
      BY <1>1 DEF Suspends, UserKind
    <2>2. QED
      BY <1>1, <1>3, <2>1 DEF WorkerInv, Failed, State
  <1>5. \A r \in Roots : Failed(r, "steal")' <=> Failed(r, "steal")
    BY <1>1, <1>2, CallFrames DEF Failed
  <1>6. \A r \in Roots : Failed(r, "steal")' => frame'[<<r, "steal">>] = frame[<<r, "steal">>]
    BY <1>2, <1>3, <1>4, <1>5, CallFrames DEF Failed
  <1>7. \A h \in abroad' : Kind(h) = "steal" =>
           (h \in abroad /\ frame'[h].pc = frame[h].pc) \/ frame'[h].pc = "resched"
    <2>1. \A h \in abroad : h # f /\ h \in Frames
      BY <1>1 DEF CoreInv, PlaceInv, Placed, Asleep, TypeInv, TypeOK
    <2>2. abroad' = abroad \/ (abroad' = abroad \cup {f} /\ (Kind(f) = "steal" => F.pc = "resched"))
      BY DEF Park, Stay
    <2>3. QED
      BY <1>2, <2>1, <2>2
  <1> DEFINE x == IF t \in Workers THEN f ELSE <<f[1], "sync">>
  <1>8. x \in Frames /\ (x = f \/ Kind(x) = "sync") /\ (x = f => t \in Workers \/ Kind(f) = "sync")
    BY <1>1, <1>3, FrameForm, ZenonT(60) DEF Kinds, Kind
  <1> HIDE DEF x
  <1>9. OnlyMoved(t, f, x)
    <2>1. CASE Park(t, f, F)
      BY <1>1, <1>8, <2>1, TopMoved DEF Park
    <2>2. CASE Stay(t, f, F)
      <3>1. x = f /\ stack' = stack
        BY <2>2 DEF Stay, x
      <3>2. stack[t][Len(stack[t])] = f /\ Len(stack[t]) \in Nat \ {0}
        BY <1>1, FrontLast DEF CoreInv, TypeInv, Active
      <3>3. \A u \in Threads : \A i \in 1 .. Len(stack[u]) : stack[u][i] = f => u = t
        BY <1>1, <3>2 DEF CoreInv, StackInv
      <3>4. QED
        BY <3>1, <3>3 DEF OnlyMoved
    <2>3. QED
      BY <2>1, <2>2
  <1>10. Pinned(x)' => t \in Workers
    BY <1>8 DEF Pinned, UserKind
  <1>11. QED
    <2>1. \A h \in Frames : frame[h].st = "running" /\ h # f => frame'[h].pc = frame[h].pc
      BY <1>2
    <2>2. QED
      BY <1>1, <1>5, <1>6, <1>7, <1>9, <1>10, <2>1, WorkerKept

LEMMA WorkerWake ==
  ASSUME CoreInv, WorkerInv, NEW t, NEW f, NEW F, Wake(t, f, F)
  PROVE  WorkerInv'
  <1>1. /\ f \in Frames /\ t \in Threads /\ f \in Placed /\ Asleep(f) /\ ContOK(f)
        /\ stack[t] = <<>> /\ stack' = [stack EXCEPT ![t] = <<f>>]
    BY DEF Wake, Resume, CoreInv, PlaceInv, ContInv, Placed, TypeInv, TypeOK
  <1>2. /\ frame'[f] = F /\ F.st = "running" /\ \A h \in Frames : h # f => frame'[h] = frame[h]
    BY <1>1, BecomesEffect DEF Wake
  <1>3. f[1] \in Roots /\ f = <<f[1], Kind(f)>>
    BY <1>1, FrameForm DEF Kind
  <1>4. Kind(f) = "steal" => ~frame[f].failed
    BY <1>1, <1>3 DEF Asleep, WorkerInv, Failed, State
  <1>5. \A r \in Roots : Failed(r, "steal") => Failed(r, "steal")' /\ <<r, "steal">> # f
    BY <1>2, <1>4, CallFrames DEF Failed
  <1>6. F.pc = frame[f].pc \/ (F.failed /\ F.pc = "return")
    BY DEF Wake
  <1>7. F.failed = frame[f].failed \/ ~F.failed \/ F.pc = "return"
    BY DEF Wake
  <1>8. \A r \in Roots : Failed(r, "steal")' =>
           \/ frame'[<<r, "steal">>] = frame[<<r, "steal">>]
           \/ State(r, "steal")' = "running" /\ frame'[<<r, "steal">>].pc = "return"
    <2> SUFFICES ASSUME NEW r \in Roots, Failed(r, "steal")'
                 PROVE  \/ frame'[<<r, "steal">>] = frame[<<r, "steal">>]
                        \/ State(r, "steal")' = "running" /\ frame'[<<r, "steal">>].pc = "return"
      OBVIOUS
    <2>1. CASE <<r, "steal">> # f
      BY <1>2, <2>1, CallFrames
    <2>2. CASE <<r, "steal">> = f
      <3>1. F.failed /\ ~frame[f].failed
        BY <1>2, <1>4, <2>2, CallFrames DEF Failed
      <3>2. QED
        BY <1>2, <1>7, <2>2, <3>1 DEF State
    <2>3. QED
      BY <2>1, <2>2
  <1>9. OnlyMoved(t, f, f)
    <2>1. stack'[t] = <<f>> /\ \A u \in Threads : u # t => stack'[u] = stack[u]
      BY <1>1 DEF CoreInv, TypeInv
    <2>2. \A u \in Threads : \A i \in 1 .. Len(stack[u]) : stack[u][i] # f
      BY <1>1 DEF CoreInv, StackInv, Asleep
    <2>3. QED
      BY <2>1, <2>2 DEF OnlyMoved
  <1>10. Pinned(f)' => t \in Workers \/ Failed(f[1], "steal")'
    <2> SUFFICES ASSUME Pinned(f)', t \notin Workers
                 PROVE  Failed(f[1], "steal")'
      OBVIOUS
    <2>1. /\ f \in abroad /\ Kind(f) \in {"sync", "steal", "inner"}
          /\ F.pc = IF F.failed THEN "return" ELSE frame[f].pc
      BY <1>1 DEF Wake, ContOK
    <2>2. Kind(f) = "steal" /\ F.pc = "return" /\ frame[f].pc = "resched"
      BY <1>2, <2>1 DEF Pinned, UserKind, WorkerInv
    <2>3. QED
      BY <1>2, <1>3, <2>1, <2>2 DEF Failed
  <1>11. \A h \in abroad' : h \in abroad /\ frame'[h].pc = frame[h].pc
    <2>1. \A h \in abroad' : h \in abroad /\ h # f /\ h \in Frames
      BY DEF Wake, CoreInv, PlaceInv, TypeInv, TypeOK
    <2>2. QED
      BY <1>2, <2>1
  <1>12. QED
    <2>1. \A h \in Frames : frame[h].st = "running" /\ h # f => frame'[h].pc = frame[h].pc
      BY <1>2
    <2>2. QED
      BY <1>1, <1>5, <1>8, <1>9, <1>10, <1>11, <2>1, WorkerKept

LEMMA WorkerEnd ==
  ASSUME CoreInv, WorkerInv, NEW t, NEW f, NEW failed, NEW caught, End(t, f, failed, caught)
  PROVE  WorkerInv'
  <1>0. PICK g : g = frame[f].cont
    OBVIOUS
  <1>1. /\ t \in Threads /\ f \in Frames /\ g \in Frames /\ f # g /\ Active(t, f)
        /\ g = <<f[1], Kind(g)>> /\ Kind(g) \in Awaiters(Kind(f)) /\ Kind(f) # "sync"
        /\ frame[f].st = "running" /\ Asleep(g) /\ g \notin Placed
        /\ \A h \in Frames : h \notin {f, g} => frame'[h] = frame[h]
        /\ frame'[f].st = IF Kind(f) = "child" THEN "destroyed" ELSE "final"
        /\ frame'[f].failed = failed
        /\ frame'[g].st = "running" /\ frame'[g].failed = (failed /\ ~caught)
        /\ frame'[g].pc = IF failed /\ ~caught THEN "return" ELSE IF UserKind(g) THEN "body"
                          ELSE IF Kind(g) = "steal" THEN "resched" ELSE NextPc(frame[g].pc)
        /\ UserKind(f) \/ (frame[f].pc = "return" /\ failed = frame[f].failed)
        /\ abroad' = abroad /\ Transfer(t, g)
    BY <1>0, FinishEffect DEF End
  <1>2. f[1] \in Roots /\ f = <<f[1], Kind(f)>> /\ g[1] = f[1] /\ Kind(f) \in Kinds
    BY <1>1, FrameForm DEF Kind
  <1>3. OnlyMoved(t, f, g)
    BY <1>1, TopMoved
  <1>4. Kind(g) = "steal" => ~frame[g].failed
    BY <1>1, <1>2 DEF Asleep, WorkerInv, Failed, State
  <1>5. Kind(f) = "steal" => frame'[f].failed = frame[f].failed /\ frame[f].pc = "return"
    BY <1>1 DEF UserKind
  <1>6. \A r \in Roots : Failed(r, "steal") => Failed(r, "steal")'
    <2> SUFFICES ASSUME NEW r \in Roots, NEW h \in Frames, h = <<r, "steal">>, Kind(h) = "steal",
                        frame[h].failed
                 PROVE  frame'[h].failed
      BY CallFrames DEF Failed
    <2>1. QED
      BY <1>1, <1>4, <1>5
  <1>7. \A r \in Roots : Failed(r, "steal")' =>
           \/ frame'[<<r, "steal">>] = frame[<<r, "steal">>]
           \/ State(r, "steal")' = "final"
           \/ State(r, "steal")' = "running" /\ frame'[<<r, "steal">>].pc = "return"
    <2> SUFFICES ASSUME NEW r \in Roots, NEW h \in Frames, h = <<r, "steal">>, Kind(h) = "steal",
                        frame'[h].failed
                 PROVE  \/ frame'[h] = frame[h] \/ frame'[h].st = "final"
                        \/ frame'[h].st = "running" /\ frame'[h].pc = "return"
      BY CallFrames, ZenonT(60) DEF Failed, State
    <2>1. QED
      BY <1>1 DEF UserKind
  <1>8. Pinned(g)' => t \in Workers \/ Failed(g[1], "steal")'
    <2> SUFFICES ASSUME Pinned(g)'
                 PROVE  t \in Workers \/ Failed(g[1], "steal")'
      OBVIOUS
    <2>1. CASE Kind(g) \in {"spawn", "task", "child"}
      <3>1. Pinned(f)
        BY <1>1, <1>2, <2>1 DEF Awaiters, Pinned, UserKind, Kinds
      <3>2. QED
        BY <1>1, <1>2, <1>6, <3>1, PinnedActive
    <2>2. CASE Kind(g) = "steal"
      <3>1. frame'[g].failed
        BY <1>1, <2>2 DEF Pinned, UserKind
      <3>2. QED
        BY <1>1, <1>2, <2>2, <3>1 DEF Failed
    <2>3. Kind(g) # "hop"
      BY <1>1, <1>2 DEF Awaiters, Kinds
    <2>4. QED
      BY <2>1, <2>2, <2>3 DEF Pinned, UserKind
  <1>9. \A h \in abroad' : h \in abroad /\ frame'[h].pc = frame[h].pc
    <2>1. \A h \in abroad : h \in Frames /\ h \notin {f, g}
      BY <1>1 DEF CoreInv, PlaceInv, Placed, Asleep, TypeInv, TypeOK
    <2>2. QED
      BY <1>1, <2>1
  <1>10. QED
    <2>1. \A h \in Frames : frame[h].st = "running" /\ h # f => frame'[h].pc = frame[h].pc
      BY <1>1 DEF Asleep
    <2>2. QED
      BY <1>1, <1>3, <1>6, <1>7, <1>8, <1>9, <2>1, WorkerKept

(* The steps of sync() itself change no frame that is pinned.              *)
Aside(t, x) ==
    /\ x \in Frames /\ Kind(x) = "sync" /\ OnlyMoved(t, x, x)
    /\ \A h \in Frames : h # x /\ (Started(h) \/ Kind(h) = "steal") => frame'[h] = frame[h]

LEMMA FinalAside ==
  ASSUME CoreInv, NEW t \in Threads, NEW f \in Frames, FinalSync(t, f)
  PROVE  Aside(t, f)
  <1>1. Active(t, f) /\ stack' = [stack EXCEPT ![t] = Front(@)] /\ Kind(f) = "sync"
    BY DEF FinalSync, Runs, Active
  <1>2. \A h \in Frames : h # f => frame'[h] = frame[h]
    BY DEF FinalSync, CoreInv, TypeInv, TypeOK
  <1>3. QED
    BY <1>1, <1>2, TopMoved DEF Aside

LEMMA CallAside ==
  ASSUME CoreInv, NEW t \in Threads, NEW r \in Roots, NEW plan \in Plans, SyncCall(t, r, plan)
  PROVE  Aside(t, <<r, "sync">>)
  <1>1. PICK x \in Frames : x = <<r, "sync">> /\ Kind(x) = "sync" /\ x[1] = r
    BY CallFrames
  <1>2. \A h \in Frames : h[1] = r => frame[h].st = "none"
    <2>1. \A k \in Kinds : State(r, k) = "none"
      BY DEF SyncCall, CoreInv, CallInv, CallOK
    <2>2. QED
      BY <2>1, FrameForm DEF State
  <1>3. \A h \in Frames : h # x => \/ frame'[h] = frame[h]
                                   \/ h[1] = r /\ Kind(h) \in {"spawn", "task"}
    <2>1. Argument(plan) \subseteq {"spawn", "task"}
      BY CoroutineAssumption DEF Argument
    <2>2. QED
      BY <1>1, <2>1 DEF SyncCall
  <1>4. OnlyMoved(t, x, x)
    <2>1. /\ stack'[t] = Append(stack[t], x) /\ stack[t] \in Seq(Frames)
          /\ \A u \in Threads : u # t => stack'[u] = stack[u]
      BY <1>1 DEF SyncCall, CoreInv, TypeInv
    <2>2. \A u \in Threads : \A i \in 1 .. Len(stack[u]) : stack[u][i] # x
      BY <1>1, <1>2 DEF CoreInv, StackInv
    <2>3. \A i \in 1 .. Len(stack'[t]) :
             \/ stack'[t][i] = x
             \/ i \in 1 .. Len(stack[t]) /\ stack'[t][i] = stack[t][i]
      BY <2>1
    <2>4. QED
      BY <2>1, <2>2, <2>3 DEF OnlyMoved
  <1>5. \A h \in Frames : h # x /\ (Started(h) \/ Kind(h) = "steal") => frame'[h] = frame[h]
    BY <1>2, <1>3 DEF Started, Asleep
  <1>6. QED
    BY <1>1, <1>4, <1>5 DEF Aside

LEMMA ReturnAside ==
  ASSUME CoreInv, NEW t \in Threads, NEW r \in Roots, SyncReturn(t, r)
  PROVE  Aside(t, <<r, "sync">>)
  <1>1. PICK x \in Frames : x = <<r, "sync">> /\ Kind(x) = "sync" /\ x[1] = r
    BY CallFrames
  <1>2. State(r, "sync") = "final"
    BY DEF SyncReturn, Waiting, CoreInv, CallInv, CallOK
  <1>3. \A h \in Frames : h[1] = r => ~Live(h)
    BY <1>2, Quiet, FrameForm
  <1>4. \A h \in Frames : h \notin Owned(r) => frame'[h] = frame[h]
    BY DEF SyncReturn, DestroyAll
  <1>5. \A h \in Owned(r) : h[1] = r /\ Kind(h) # "steal"
    BY DEF Owned, Kind
  <1>6. OnlyMoved(t, x, x)
    <2>1. frame[x].st # "running"
      BY <1>1, <1>2 DEF State
    <2>2. stack' = stack
      BY DEF SyncReturn
    <2>3. QED
      BY <2>1, <2>2 DEF OnlyMoved, CoreInv, StackInv
  <1>7. \A h \in Frames : h # x /\ (Started(h) \/ Kind(h) = "steal") => frame'[h] = frame[h]
    BY <1>3, <1>4, <1>5 DEF Started, Asleep, Live
  <1>8. QED
    BY <1>1, <1>6, <1>7 DEF Aside

LEMMA WorkerSync ==
  ASSUME CoreInv, WorkerInv, NEW t \in Threads, NEW x, Aside(t, x), abroad' = abroad
  PROVE  WorkerInv'
  <1>1. /\ x \in Frames /\ Kind(x) = "sync" /\ OnlyMoved(t, x, x)
        /\ \A h \in Frames : h # x /\ (Started(h) \/ Kind(h) = "steal") => frame'[h] = frame[h]
    BY DEF Aside
  <1>2. \A r \in Roots : frame'[<<r, "steal">>] = frame[<<r, "steal">>]
    BY <1>1, CallFrames
  <1>3. \A r \in Roots : Failed(r, "steal")' <=> Failed(r, "steal")
    BY <1>2 DEF Failed
  <1>4. ~Pinned(x)'
    BY <1>1 DEF Pinned, UserKind
  <1>5. \A h \in abroad' : Kind(h) = "steal" => h \in abroad /\ frame'[h].pc = frame[h].pc
    BY <1>1 DEF CoreInv, TypeInv, TypeOK
  <1>6. \A h \in Frames : frame[h].st = "running" /\ h # x => frame'[h].pc = frame[h].pc
    BY <1>1 DEF Started
  <1>7. QED
    BY <1>1, <1>2, <1>3, <1>4, <1>5, <1>6, WorkerKept

LEMMA WorkerSame ==
  ASSUME WorkerInv, UNCHANGED <<frame, stack, abroad>>
  PROVE  WorkerInv'
  BY DEF WorkerInv, Pinned, Failed, State

LEMMA WorkerForm ==
  ASSUME NoDirect, CoreInv, WorkerInv, Form
  PROVE  WorkerInv'
  <1>1. ASSUME NEW t \in Threads, NEW f \in Frames, FinalSync(t, f)
        PROVE  WorkerInv'
    BY <1>1, FinalAside, WorkerSync DEF FinalSync, places
  <1>2. ASSUME NEW t \in Threads, NEW r \in Roots, NEW plan \in Plans, SyncCall(t, r, plan)
        PROVE  WorkerInv'
    BY <1>2, CallAside, WorkerSync DEF SyncCall, places
  <1>3. ASSUME NEW t \in Threads, NEW r \in Roots, SyncReturn(t, r)
        PROVE  WorkerInv'
    BY <1>3, ReturnAside, WorkerSync DEF SyncReturn, places
  <1>4. ASSUME NEW t \in Threads, NEW r \in Roots, Signal(t, r) \/ Notify(t, r)
        PROVE  WorkerInv'
    BY <1>4, WorkerSame DEF Signal, Notify, places
  <1>5. ASSUME NEW f, TimerFires(f)
        PROVE  WorkerInv'
    BY <1>5, WorkerSame DEF TimerFires
  <1>6. QED
    BY <1>1, <1>2, <1>3, <1>4, <1>5, WorkerAwait, WorkerPark, WorkerWake, WorkerEnd DEF Form

LEMMA WorkerInit == Init => WorkerInv
  <1>1. ~[Fresh EXCEPT !.st = "none"].failed
    BY DEF Fresh
  <1>2. Init => \A r \in Roots : ~Failed(r, "steal")
    BY <1>1, CallFrames DEF Init, Failed
  <1>3. QED
    BY <1>2 DEF Init, WorkerInv

LEMMA WorkerStep == NoDirect /\ CoreInv /\ WorkerInv /\ [Next]_vars => WorkerInv'
  <1>1. ASSUME WorkerInv, UNCHANGED vars
        PROVE  WorkerInv'
    BY <1>1, WorkerSame DEF vars
  <1>2. QED
    BY <1>1, Forms, WorkerForm

(* executor_test.cpp "interop_steal", awaiter.hpp steal(): the code of     *)
(* spawn() and of the tasks under it runs on workers only, wherever what   *)
(* it awaits finishes, unless one of these threw.                          *)
THEOREM CodeRunsOnWorkers ==
  ASSUME NoDirect
  PROVE  Spec => []ExecutorCodeOnWorkers
  <1>1. CoreInv /\ WorkerInv => ExecutorCodeOnWorkers
    <2> SUFFICES ASSUME CoreInv, WorkerInv, NEW t \in Threads, NEW f \in Frames, Active(t, f),
                        \/ Kind(f) \in {"task", "child"}
                        \/ Kind(f) = "spawn" /\ frame[f].pc # "start"
                 PROVE  t \in Workers \/ frame[<<f[1], "steal">>].failed
      BY DEF ExecutorCodeOnWorkers, Active
    <2>1. Pinned(f)
      BY DEF Pinned, UserKind
    <2>2. QED
      BY <2>1, PinnedActive DEF Failed
  <1>2. Spec => [](CoreInv /\ WorkerInv)
    BY CoreInvariant, WorkerInit, WorkerStep, PTL DEF Spec
  <1>3. QED
    BY <1>1, <1>2, PTL
=============================================================================
