---------------------------- MODULE KeyboardHook ----------------------------
(***************************************************************************)
(* The keyboard hook of cth_win (cth_win/src/cth/win/io/keyboard.cpp): the *)
(* event queues subscribe to one hook_manager, whose global_switch starts  *)
(* the hook thread with the first queue and stops it with the last one.    *)
(* The thread reads raw keyboard input and pushes each event to every      *)
(* subscribed queue.  The clients of GlobalSwitch are the queues here, its *)
(* on() is start_hook() and its off() is stop_hook().                      *)
(*                                                                         *)
(* start_hook() and stop_hook() may overlap, since the switch calls them   *)
(* outside any lock; two of them on one std::jthread are a data race, of   *)
(* which nothing is said: behaviours end where it begins.                  *)
(***************************************************************************)
EXTENDS GlobalSwitch, Keys, SequencesExt

CONSTANTS
    Queues,     \* event_queue objects, each built and destroyed by a thread of its own
    Presses,    \* the key states that are typed or sent
    MaxPresses  \* bound: keys typed in a behaviour

ASSUME KeyboardAssumption ==
    /\ Queues \subseteq Clients
    /\ Presses \subseteq KeyState
    /\ MaxPresses \in Nat

VARIABLES
    stage,      \* where each queue is between its constructor and destructor
    listed,     \* _queues
    queue,      \* _queue of each event_queue
    hook,       \* where the hook thread is; "none": not joinable
    hookId,     \* _hookThreadId is set
    stopFlag,   \* the thread's stop token
    quit,       \* a WM_QUIT is in the thread's message queue
    input,      \* the WM_INPUT messages waiting for the thread
    pushed,     \* history: the events pushed so far
    read,       \* history: how many of them each queue's owner is past
    early,      \* history: the last stop found no thread id
    presses     \* keys typed so far

hookVars == <<hook, hookId, stopFlag, quit>>
queueVars == <<listed, queue, pushed, read>>
keyboardVars == <<stage, queueVars, hookVars, input, early, presses>>

(* The thread has a window that receives raw input. *)
Receiving == hook \in {"registered", "loop", "got", "left"}

Raced == Cardinality(At({"turningOn", "turningOff"})) > 1

KeyboardInit ==
    /\ stage = [q \in Queues |-> "gone"]
    /\ listed = {}
    /\ queue = [q \in Queues |-> <<>>]
    /\ hook = "none"
    /\ hookId = FALSE
    /\ stopFlag = FALSE
    /\ quit = FALSE
    /\ input = <<>>
    /\ pushed = <<>>
    /\ read = [q \in Queues |-> 0]
    /\ early = FALSE
    /\ presses = 0

-----------------------------------------------------------------------------
(* The queues' constructor and destructor. *)

(* subscribe(): into the list first, ... *)
Subscribe(q) ==
    /\ stage[q] = "gone" /\ pc[q] = "out"
    /\ stage' = [stage EXCEPT ![q] = "listed"]
    /\ listed' = listed \cup {q}
    /\ queue' = [queue EXCEPT ![q] = <<>>]
    /\ read' = [read EXCEPT ![q] = Len(pushed)]
    /\ UNCHANGED <<vars, hookVars, input, pushed, early, presses>>

(* ... then acquire(), which starts the hook for the first one. *)
SubscribeAcquire(q) ==
    /\ stage[q] = "listed"
    /\ Acquire(q)
    /\ stage' = [stage EXCEPT ![q] = "live"]
    /\ UNCHANGED <<queueVars, hookVars, input, early, presses>>

(* start_hook(): a new thread, whose stop token is clear. *)
StartHook(q) ==
    /\ stage[q] = "live"
    /\ TurnedOn(q)
    /\ hook' = "created"
    /\ stopFlag' = FALSE
    /\ quit' = FALSE
    /\ input' = <<>>
    /\ early' = FALSE
    /\ UNCHANGED <<stage, queueVars, hookId, presses>>

(* Mutation: the queue stays in the list. *)
UnsubscribeListed(q) ==
    /\ stage[q] = "live" /\ pc[q] = "in"
    /\ stage' = [stage EXCEPT ![q] = "unlisted"]
    /\ UNCHANGED <<vars, queueVars, hookVars, input, early, presses>>

(* unsubscribe(): out of the list, ... *)
Unsubscribe(q) ==
    /\ stage[q] = "live" /\ pc[q] = "in"
    /\ stage' = [stage EXCEPT ![q] = "unlisted"]
    /\ listed' = listed \ {q}
    /\ UNCHANGED <<vars, queue, pushed, read, hookVars, input, early, presses>>

(* ... then release(), which stops the hook for the last one. *)
UnsubscribeRelease(q) ==
    /\ stage[q] = "unlisted"
    /\ Release(q)
    /\ stage' = [stage EXCEPT ![q] = IF count = 1 THEN "stop" ELSE "gone"]
    /\ UNCHANGED <<queueVars, hookVars, input, early, presses>>

(* stop_hook(): the stop request, ... *)
RequestStop(q) ==
    /\ stage[q] = "stop"
    /\ stage' = [stage EXCEPT ![q] = "post"]
    /\ stopFlag' = TRUE
    /\ UNCHANGED <<vars, queueVars, hook, hookId, quit, input, early, presses>>

(* Mutation: WM_QUIT is posted only to a thread without an id. *)
PostQuitInverted(q) ==
    /\ stage[q] = "post"
    /\ stage' = [stage EXCEPT ![q] = "join"]
    /\ quit' = (~hookId /\ hook \notin {"none", "finished"})
    /\ early' = ~hookId
    /\ UNCHANGED <<vars, queueVars, hook, hookId, stopFlag, input, presses>>

(* ... WM_QUIT, if the thread has published its id and still runs, ... *)
PostQuit(q) ==
    /\ stage[q] = "post"
    /\ stage' = [stage EXCEPT ![q] = "join"]
    /\ quit' = (hookId /\ hook \notin {"none", "finished"})
    /\ early' = ~hookId
    /\ UNCHANGED <<vars, queueVars, hook, hookId, stopFlag, input, presses>>

(* ... and the join. *)
JoinHook(q) ==
    /\ stage[q] = "join"
    /\ hook = "finished"
    /\ TurnedOff(q)
    /\ stage' = [stage EXCEPT ![q] = "gone"]
    /\ hook' = "none"
    /\ hookId' = FALSE
    /\ UNCHANGED <<queueVars, stopFlag, quit, input, early, presses>>

-----------------------------------------------------------------------------
(* thread_proc(). *)

(* The window and the registration; the latter may fail. *)
Register ==
    /\ hook = "created"
    /\ hook' \in {"registered", "finished"}
    /\ UNCHANGED <<vars, stage, queueVars, hookId, stopFlag, quit, input, early, presses>>

PublishId ==
    /\ hook = "registered"
    /\ hook' = "loop"
    /\ hookId' = TRUE
    /\ UNCHANGED <<vars, stage, queueVars, stopFlag, quit, input, early, presses>>

(* GetMessageW() returns 0 for WM_QUIT, whatever else is waiting. *)
GetQuit ==
    /\ hook = "loop" /\ quit
    /\ hook' = "left"
    /\ quit' = FALSE
    /\ UNCHANGED <<vars, stage, queueVars, hookId, stopFlag, input, early, presses>>

(* GetMessageW() returns a WM_INPUT, which a requested stop discards. *)
GetInput ==
    /\ hook = "loop" /\ input # <<>>
    /\ IF stopFlag
         THEN hook' = "left" /\ input' = Tail(input)
         ELSE hook' = "got" /\ UNCHANGED input
    /\ UNCHANGED <<vars, stage, queueVars, hookId, stopFlag, quit, early, presses>>

(* push_event(), under the manager's mutex: to each queue of the list,     *)
(* unless the key has no name.                                             *)
PushEvent ==
    /\ hook = "got"
    /\ hook' = "loop"
    /\ input' = Tail(input)
    /\ LET event == ToKeyState(Head(input))
       IN  IF event.key = "NONE"
             THEN UNCHANGED <<queue, pushed>>
             ELSE /\ queue' = [q \in Queues |-> IF q \in listed THEN Append(queue[q], event)
                                                               ELSE queue[q]]
                  /\ pushed' = Append(pushed, event)
    /\ UNCHANGED <<vars, stage, listed, read, hookId, stopFlag, quit, early, presses>>

LeaveLoop ==
    /\ hook = "left"
    /\ hook' = "finished"
    /\ hookId' = FALSE
    /\ UNCHANGED <<vars, stage, queueVars, stopFlag, quit, input, early, presses>>

-----------------------------------------------------------------------------

(* A key is typed, or sent by keybd::send(); raw input delivers it to the  *)
(* window if there is one.                                                 *)
Press(s) ==
    /\ presses < MaxPresses
    /\ Receiving
    /\ presses' = presses + 1
    /\ input' = Append(input, Delivered(ToWinInput(s), TRUE))
    /\ UNCHANGED <<vars, stage, queueVars, hookVars, early>>

(* event_queue::pop() by the queue's owner. *)
Pop(q) ==
    /\ stage[q] = "live" /\ pc[q] = "in" /\ queue[q] # <<>>
    /\ queue' = [queue EXCEPT ![q] = Tail(queue[q])]
    /\ read' = [read EXCEPT ![q] = read[q] + 1]
    /\ UNCHANGED <<vars, stage, listed, pushed, hookVars, input, early, presses>>

(* pop_queue() and clear(). *)
PopQueue(q) ==
    /\ stage[q] = "live" /\ pc[q] = "in" /\ queue[q] # <<>>
    /\ queue' = [queue EXCEPT ![q] = <<>>]
    /\ read' = [read EXCEPT ![q] = read[q] + Len(queue[q])]
    /\ UNCHANGED <<vars, stage, listed, pushed, hookVars, input, early, presses>>

HookStep == Register \/ PublishId \/ GetQuit \/ GetInput \/ PushEvent \/ LeaveLoop

(* What a call that was begun goes on to do. *)
CallStep(q) == SubscribeAcquire(q) \/ StartHook(q) \/ UnsubscribeRelease(q)
                  \/ RequestStop(q) \/ PostQuit(q) \/ JoinHook(q)

KeyboardNext ==
    /\ ~Raced
    /\ \/ HookStep
       \/ \E q \in Queues : CallStep(q) \/ Subscribe(q) \/ Unsubscribe(q) \/ Pop(q) \/ PopQueue(q)
       \/ \E s \in Presses : Press(s)

(* The switch of the manager is constructed off. *)
KeyboardSpec == Init /\ count = 0 /\ KeyboardInit
                  /\ [][KeyboardNext]_<<vars, keyboardVars>>

-----------------------------------------------------------------------------
(* Properties.                                                             *)

KeyboardTypeOK ==
    /\ stage \in [Queues -> {"gone", "listed", "live", "unlisted", "stop", "post", "join"}]
    /\ listed \subseteq Queues
    /\ \A q \in Queues : Range(queue[q]) \subseteq KeyState
    /\ hook \in {"none", "created", "registered", "loop", "got", "left", "finished"}
    /\ {hookId, stopFlag, quit, early} \subseteq BOOLEAN
    /\ presses \in 0 .. MaxPresses

(* The manager never pushes to a queue whose destructor is past            *)
(* unsubscribe(), and what a queue holds is, in order and without a gap,   *)
(* what was pushed since it subscribed and its owner has not yet taken,    *)
(* also across a stop and restart of the thread and with other queues      *)
(* coming and going.  A constructed queue is served: its thread was not    *)
(* asked to stop, or the subscriber that acquired first is still about to  *)
(* start it.  (A failed registration ends the thread all the same, and     *)
(* nobody is told.)                                                        *)
QueuesHearEverything ==
    /\ \A q \in listed : /\ stage[q] \in {"listed", "live"}
                         /\ queue[q] = SubSeq(pushed, read[q] + 1, Len(pushed))
    /\ ~Raced /\ (\E q \in Queues : stage[q] = "live" /\ pc[q] = "in") =>
         At({"turningOn"}) # {} \/ (hook # "none" /\ ~stopFlag)

(* stop_hook() returns, unless it came before the thread had published its *)
(* id: then it posts no WM_QUIT and the join waits for the next key.       *)
StopReturns ==
    \A q \in Queues :
        stage[q] \in {"stop", "post", "join"} ~>
            \/ stage[q] = "gone"
            \/ Raced
            \/ early /\ hook = "loop" /\ input = <<>>
=============================================================================
