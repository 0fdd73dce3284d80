----------------------------- MODULE WindowClasses ----------------------------
(***************************************************************************)
(* cth::win::create_window() and what it returns, window_t: a window and,  *)
(* if the call had to register it, the window's class (cth_win/src/cth/    *)
(* win/screen.cpp, win_types.cpp, cth_win/incl/cth/win/win_types.hpp).     *)
(* Windows keeps a class that still has windows: asking it to unregister   *)
(* that one fails, and nobody looks at the result.                         *)
(***************************************************************************)
LOCAL INSTANCE Naturals

CONSTANTS
    Frames,         \* the window_t objects of a program
    ClassNames      \* the ids of its window classes

ASSUME WindowAssumption == {"none", "moved"} \cap ClassNames = {}

VARIABLES
    registered,     \* the classes Windows knows
    frame,          \* classOpt and handle of each window_t
    reused          \* classes somebody used or kept open past their owner

windowVars == <<registered, frame, reused>>

(* classOpt is empty, or holds an id, or holds one that was moved away;    *)
(* handle holds a window of some class, or nothing.                        *)
Ids == ClassNames \cup {"moved"}

Vacant == [id |-> "none", window |-> "none"]

WindowInit ==
    /\ registered = {}
    /\ frame = [f \in Frames |-> Vacant]
    /\ reused = {}

-----------------------------------------------------------------------------

(* UnregisterClassW() in ~window_class_t(), with these windows open *)
Unregistered(id, windows) == registered \ ({id} \ {windows[f].window : f \in Frames})

(* create_window(): a class that is registered is used, any other made and *)
(* owned; "made" says whether CreateWindowExW succeeds.  If not, or if the *)
(* query misses a class that exists (cbSize of what it fills is never set),*)
(* the call throws and leaves all as it was.                               *)
CreateWindow(f, class, made) ==
    /\ frame[f] = Vacant
    /\ LET own == class \notin registered
           window == [id |-> IF own THEN class ELSE "none", window |-> class]
       IN  /\ registered' = registered \cup (IF made THEN {class} ELSE {})
           /\ frame' = IF made THEN [frame EXCEPT ![f] = window] ELSE frame
           /\ reused' = IF made /\ ~own THEN reused \cup {class} ELSE reused

(* ~window_t(): the window first, then its class *)
DestroyWindow(f) ==
    /\ frame' = [frame EXCEPT ![f] = Vacant]
    /\ registered' = Unregistered(frame[f].id, frame')
    /\ reused' = reused \cap registered'

(* Moving from an optional leaves it engaged: window_class_t is moved by a *)
(* swap, and the id that arrives in the source is empty.                   *)
Emptied(id) == IF id = "none" THEN "none" ELSE "moved"

MoveFrame(f, g) ==
    /\ frame[f] = Vacant /\ frame[g] # Vacant
    /\ frame' = [frame EXCEPT ![f] = frame[g],
                              ![g] = [id |-> Emptied(frame[g].id), window |-> "none"]]
    /\ UNCHANGED <<registered, reused>>

(* Mutation: the id is copied to where it goes. *)
MoveFrameOverCopied(f, g) ==
    /\ f # g /\ frame[f] # Vacant
    /\ frame' = [frame EXCEPT ![f] = frame[g], ![g].window = "none"]
    /\ UNCHANGED <<registered, reused>>

(* f = std::move(g), member by member: two engaged classOpts swap their    *)
(* ids; an engaged one that is assigned an empty one drops its class while *)
(* f still has its old window, which goes afterwards.                      *)
MoveFrameOver(f, g) ==
    /\ f # g /\ frame[f] # Vacant
    /\ LET dropped == frame[g].id = "none" /\ frame[f].id \in ClassNames
           back == IF frame[g].id = "none" \/ frame[f].id = "none"
                   THEN Emptied(frame[g].id) ELSE frame[f].id
       IN  /\ frame' = [frame EXCEPT ![f] = frame[g], ![g] = [id |-> back, window |-> "none"]]
           /\ registered' = IF dropped THEN Unregistered(frame[f].id, frame) ELSE registered
           /\ reused' = IF dropped THEN (reused \cup {frame[f].id}) \cap registered' ELSE reused

WindowNext ==
    \/ \E f \in Frames, class \in ClassNames, made \in BOOLEAN : CreateWindow(f, class, made)
    \/ \E f \in Frames : DestroyWindow(f)
    \/ \E f, g \in Frames : MoveFrame(f, g) \/ MoveFrameOver(f, g)

WindowSpec == WindowInit /\ [][WindowNext]_windowVars

-----------------------------------------------------------------------------

Owned == {frame[f].id : f \in Frames} \cap ClassNames

WindowTypeOK ==
    /\ registered \subseteq ClassNames /\ reused \subseteq ClassNames
    /\ frame \in [Frames -> [id : Ids \cup {"none"}, window : ClassNames \cup {"none"}]]

(* However window_t objects are moved and assigned, a class has one owner, *)
(* which does not outlive it and has no window of another class; and a     *)
(* class stays registered without an owner only if a second window used it *)
(* or its own was open when something was moved over its owner.            *)
ClassesOwned ==
    /\ \A f, g \in Frames : f # g /\ frame[f].id = frame[g].id => frame[f].id \notin ClassNames
    /\ \A f \in Frames : frame[f].id \in ClassNames => frame[f].window \in {frame[f].id, "none"}
    /\ Owned \subseteq registered
    /\ registered \ Owned \subseteq reused
=============================================================================
