-------------------------- MODULE RingAllocFailure --------------------------
(***************************************************************************)
(* ring_alloc with a history variable that records, for every alloc() in   *)
(* progress, whether the allocator was ever without room for it since the  *)
(* call began.  It says when an empty answer is justified.                 *)
(***************************************************************************)
EXTENDS RingAlloc

VARIABLE lacked     \* ghost: was there ever no room for the current alloc()?

historyVars == <<vars, lacked>>

Allocating(state) == state \in {"loadTail", "casHead"}

InitHistory == Init /\ lacked = [t \in Threads |-> FALSE]

Observe ==
    lacked' = [t \in Threads |->
                 /\ Allocating(pc'[t])
                 /\ \/ Allocating(pc[t]) /\ lacked[t]
                    \/ ~Fits(head', tail', arg'[t])]

NextHistory == Next /\ Observe

SpecHistory == InitHistory /\ [][NextHistory]_historyVars

-----------------------------------------------------------------------------

(* "@return alloc info or empty if not enough space": an alloc() answers   *)
(* empty only if, at some moment of the call, the allocator had no room    *)
(* for the request.                                                        *)
EmptyOnlyIfNoRoom ==
    [][\A t \in Threads :
         (pc[t] = "loadTail" /\ pc'[t] = "idle") => lacked[t]]_historyVars

(* The only unjustified empty answer is the one of a thread whose copy of  *)
(* _head was overtaken by _tail, so that the unsigned difference wraps: an *)
(* alloc() that was not overtaken answers empty only if there was no room  *)
(* at some moment of the call, however old its copies are.                 *)
EmptyJustifiedUnlessOvertaken ==
    [][\A t \in Threads :
         (/\ pc[t] = "loadTail" /\ pc'[t] = "idle"
          /\ tail <= seen[t] + TotalSize(seen[t], arg[t]))
            => lacked[t]]_historyVars
=============================================================================
