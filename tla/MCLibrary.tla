------------------------------ MODULE MCLibrary ------------------------------
(***************************************************************************)
(* The components that do not touch each other, side by side: a behaviour  *)
(* picks one of them, the others rest in their initial state.              *)
(***************************************************************************)
EXTENDS KeyboardHook, Logging, Fence, UnionFind, PolyVector, TimerPool, Assignment, Windows

CONSTANTS q1, q2, q3, q4, v1, v2, v3, w1, w2, s1, s2, h1, h2, t1, t2, t3, f1, f2, f3, p1, p2, p3

MCPresses == {[key |-> "A", right |-> FALSE, down |-> TRUE],
              [key |-> "SHIFT", right |-> TRUE, down |-> FALSE],
              [key |-> "F1", right |-> FALSE, down |-> TRUE]}

MCGroups == {<<0, 1>>, <<2, 1>>, <<3, 1>>, <<1, 3, 0>>, <<2, 0, 3>>}

MCScaleAt == (0 :> 2) @@ (10 :> 2) @@ (30 :> 3) @@ (60 :> 4)

MCOptionLists == {SetToSortSeq(S, <) : S \in SUBSET (1 .. 3)} \cup {<<3, 1, 3>>}

MCMaxima == {<<1, 1, 1>>, <<2, 1, 1>>, <<1, 1, 2>>, <<0, 2, 1>>, <<1, 0, 2>>, <<3, 2, 0>>}

VARIABLE active   \* the component of this behaviour

nativeVars == <<windowVars, processVars>>

allVars == <<active, vars, keyVars, keyboardVars, stream, logVars, fenceVars,
             unionFindVars, polyVars, poolVars, timerVars, assignVars, screenVars, nativeVars>>

(* A component that rests does so in one of its initial states. *)
LibraryInit ==
    /\ active \in {"switch", "keyboard", "keys", "console", "logging", "fence", "unionFind",
                   "polyVector", "pool", "timers", "assign", "screen", "windows",
                   "processes"}
    /\ Init /\ (active = "switch" \/ count = 0)
    /\ KeysInit /\ KeyboardInit
    /\ ConsoleInit
    /\ LogInit /\ (active = "logging" \/ (debug /\ level = 0))
    /\ FenceInit /\ (active = "fence" \/ (~fenceState /\ owner = h1))
    /\ UnionFindInit
    /\ PolyInit
    /\ TimerInit /\ (active = "timers" \/ \A c \in Calls : point[c] = 0)
    /\ AssignInit /\ IF active = "assign" THEN Arguments ELSE NoArguments
    /\ ScreenInit /\ (active = "screen" \/ awareness = "SYSTEM_AWARE")
    /\ WindowInit /\ ProcessInit

SwitchStep ==
    /\ active = "switch"
    /\ Next
    /\ UNCHANGED <<active, keyVars, keyboardVars, stream, logVars, fenceVars,
                   unionFindVars, polyVars, poolVars, timerVars, assignVars, screenVars, nativeVars>>

KeyboardStep ==
    /\ active = "keyboard"
    /\ KeyboardNext
    /\ UNCHANGED <<active, keyVars, stream, logVars, fenceVars, unionFindVars, polyVars,
                   poolVars, timerVars, assignVars, screenVars, nativeVars>>

KeysStep ==
    /\ active = "keys"
    /\ KeysNext
    /\ UNCHANGED <<active, vars, keyboardVars, stream, logVars, fenceVars, unionFindVars,
                   polyVars, poolVars, timerVars, assignVars, screenVars, nativeVars>>

ConsoleStep ==
    /\ active = "console"
    /\ StreamNext
    /\ UNCHANGED <<active, vars, keyVars, keyboardVars, fenceVars, unionFindVars,
                   polyVars, poolVars, timerVars, assignVars, screenVars, nativeVars>>

LogStep ==
    /\ active = "logging"
    /\ LogNext
    /\ UNCHANGED <<active, vars, keyVars, keyboardVars, fenceVars, unionFindVars,
                   polyVars, poolVars, timerVars, assignVars, screenVars, nativeVars>>

FenceStep ==
    /\ active = "fence"
    /\ FenceNext
    /\ UNCHANGED <<active, vars, keyVars, keyboardVars, stream, logVars, unionFindVars,
                   polyVars, poolVars, timerVars, assignVars, screenVars, nativeVars>>

UnionFindStep ==
    /\ active = "unionFind"
    /\ UnionFindNext
    /\ UNCHANGED <<active, vars, keyVars, keyboardVars, stream, logVars, fenceVars,
                   polyVars, poolVars, timerVars, assignVars, screenVars, nativeVars>>

PolyStep ==
    /\ active = "polyVector"
    /\ PolyNext
    /\ UNCHANGED <<active, vars, keyVars, keyboardVars, stream, logVars, fenceVars,
                   unionFindVars, poolVars, timerVars, assignVars, screenVars, nativeVars>>

PoolStep ==
    /\ active = "pool"
    /\ PoolNext
    /\ UNCHANGED <<active, vars, keyVars, keyboardVars, stream, logVars, fenceVars,
                   unionFindVars, polyVars, timerVars, assignVars, screenVars, nativeVars>>

TimerStep ==
    /\ active = "timers"
    /\ TimerNext
    /\ UNCHANGED <<active, vars, keyVars, keyboardVars, stream, logVars, fenceVars,
                   unionFindVars, polyVars, assignVars, screenVars, nativeVars>>

AssignStep ==
    /\ active = "assign"
    /\ AssignNext
    /\ UNCHANGED <<active, vars, keyVars, keyboardVars, stream, logVars, fenceVars,
                   unionFindVars, polyVars, poolVars, timerVars, screenVars, nativeVars>>

ScreenStep ==
    /\ active = "screen"
    /\ ScreenNext
    /\ UNCHANGED <<active, vars, keyVars, keyboardVars, stream, logVars, fenceVars,
                   unionFindVars, polyVars, poolVars, timerVars, assignVars, nativeVars>>

WindowStep ==
    /\ active = "windows"
    /\ WindowNext
    /\ UNCHANGED <<active, vars, keyVars, keyboardVars, stream, logVars, fenceVars, unionFindVars,
                   polyVars, poolVars, timerVars, assignVars, screenVars, processVars>>

ProcessStep ==
    /\ active = "processes"
    /\ ProcessNext
    /\ UNCHANGED <<active, vars, keyVars, keyboardVars, stream, logVars, fenceVars, unionFindVars,
                   polyVars, poolVars, timerVars, assignVars, screenVars, windowVars>>

LibraryNext ==
    \/ SwitchStep \/ KeyboardStep \/ KeysStep \/ ConsoleStep \/ LogStep \/ FenceStep
    \/ UnionFindStep \/ PolyStep \/ PoolStep \/ TimerStep \/ AssignStep \/ ScreenStep
    \/ WindowStep \/ ProcessStep

(* The hook thread runs, a call that was begun goes on, and so does a      *)
(* thread that a fence has woken or that is about to wake others.          *)
Fairness ==
    /\ WF_allVars(KeyboardStep /\ ~Raced /\ HookStep)
    /\ \A q \in Queues : WF_allVars(KeyboardStep /\ ~Raced /\ CallStep(q))
    /\ \A w \in Waiters : WF_allVars(FenceStep /\ Look(w))
    /\ \A s \in Signalers : WF_allVars(FenceStep /\ NotifyAll(s))

LibrarySpec == LibraryInit /\ [][LibraryNext]_allVars /\ Fairness

LibraryTypeOK ==
    /\ TypeOK /\ KeyboardTypeOK /\ ConsoleTypeOK /\ UnionFindTypeOK /\ PolyTypeOK
    /\ TimerTypeOK /\ AssignTypeOK /\ ScreenTypeOK /\ WindowTypeOK
=============================================================================
