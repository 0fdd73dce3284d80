----------------------------- MODULE Assignment ------------------------------
(***************************************************************************)
(* cth::alg::assign() and unique_combine() (cth/incl/cth/algorithm/        *)
(* combine.hpp), one step per turn of their loops.  Both search breadth    *)
(* first for an augmenting path.  assign() gives every a one of its b's    *)
(* and lets a b take one more a in every round; unique_combine() chooses   *)
(* one value from each selection: the same search where every b takes one  *)
(* a, in one round, and the first a that finds no path ends it.            *)
(***************************************************************************)
EXTENDS Naturals, FiniteSets, FiniteSetsExt, SequencesExt

CONSTANTS
    ACount, BCount,     \* the a's are 1 .. ACount, the b's 1 .. BCount
    OptionLists,        \* what an a may choose from
    Maxima              \* the values of b_max

ASSUME AssignmentAssumption ==
    /\ ACount \in Nat \ {0}
    /\ BCount \in Nat \ {0}
    /\ OptionLists \subseteq Seq(1 .. BCount)
    /\ Maxima \subseteq [1 .. BCount -> Nat]

VARIABLES
    unique,     \* unique_combine() runs, not assign()
    options,    \* per a its b's, in order
    bMax,       \* b_max
    waterLevel, \* current_b_max, before its cut at b_max
    aToB,       \* per a its b, 0 while unassigned
    bToA,       \* per b the a's it holds, in order
    phase,      \* "raise", "search", "flip" or "done"
    placing,    \* the a that is being placed
    searchQueue, \* the search's queue of a's, the current one at its head
    nextOption, \* where the loop over the current a's b's stands
    parentB,    \* per b the a it was reached from, 0 if not visited
    currentB,   \* where the path is being flipped
    result      \* what the call returns

assignVars == <<unique, options, bMax, waterLevel, aToB, bToA, phase, placing, searchQueue,
                nextOption, parentB, currentB, result>>

As == 1 .. ACount
Bs == 1 .. BCount

SmallerOf(x, y) == IF x < y THEN x ELSE y

Capacity(b) == SmallerOf(waterLevel, bMax[b])

(* The arguments; unique_combine() has no b_max. *)
Arguments ==
    /\ unique \in BOOLEAN
    /\ options \in [As -> OptionLists]
    /\ bMax \in IF unique THEN {[b \in Bs |-> 1]} ELSE Maxima

NoArguments ==
    /\ unique = FALSE
    /\ options = [a \in As |-> <<>>]
    /\ bMax = [b \in Bs |-> 0]

(* The state in which both functions start their work. *)
AssignInit ==
    /\ waterLevel = 0
    /\ aToB = [a \in As |-> 0]
    /\ bToA = [b \in Bs |-> <<>>]
    /\ phase = "raise"
    /\ placing = 0
    /\ searchQueue = <<>>
    /\ nextOption = 1
    /\ parentB = [b \in Bs |-> 0]
    /\ currentB = 0
    /\ result = <<>>

Unplaced(from) == {a \in As : a >= from /\ aToB[a] = 0}

(* A search starts with fresh marks at the next a without a b; behind the  *)
(* last one the round is over.                                             *)
StartSearch(from) ==
    LET left == Unplaced(from)
    IN  IF left = {}
          THEN phase' = "raise" /\ UNCHANGED <<placing, searchQueue, nextOption, parentB>>
          ELSE /\ phase' = "search"
               /\ placing' = Min(left)
               /\ searchQueue' = <<Min(left)>>
               /\ nextOption' = 1
               /\ parentB' = [b \in Bs |-> 0]

Return(value) == phase' = "done" /\ result' = value

(* capacity_increased, of the last round *)
Increased == waterLevel = 0 \/ \E b \in Bs : bMax[b] >= waterLevel

(* The outer loop: all placed, no b could take more, or one more round. *)
Raise ==
    /\ phase = "raise"
    /\ IF Unplaced(1) = {} \/ ~Increased
         THEN /\ Return(IF Unplaced(1) = {} THEN aToB ELSE <<>>)
              /\ UNCHANGED <<waterLevel, placing, searchQueue, nextOption, parentB>>
         ELSE /\ waterLevel' = waterLevel + 1
              /\ StartSearch(1)
              /\ UNCHANGED result
    /\ UNCHANGED <<unique, options, bMax, aToB, bToA, currentB>>

HasRoom(b) == Len(bToA[b]) < Capacity(b)

(* All b's of the current a are visited: the next one takes its place. *)
NextInQueue ==
    /\ phase = "search" /\ searchQueue # <<>>
    /\ nextOption > Len(options[Head(searchQueue)])
    /\ searchQueue' = Tail(searchQueue)
    /\ nextOption' = 1
    /\ UNCHANGED <<unique, options, bMax, waterLevel, aToB, bToA, phase, placing, parentB,
                   currentB, result>>

(* The next b of the current a: it ends the search if it has room, and     *)
(* else the a's it holds join the queue.                                   *)
Visit ==
    /\ phase = "search" /\ searchQueue # <<>>
    /\ nextOption <= Len(options[Head(searchQueue)])
    /\ LET current == Head(searchQueue)
           b == options[current][nextOption]
       IN  /\ parentB' = IF parentB[b] # 0 THEN parentB ELSE [parentB EXCEPT ![b] = current]
           /\ IF parentB[b] = 0 /\ HasRoom(b)
                THEN phase' = "flip" /\ currentB' = b /\ UNCHANGED <<searchQueue, nextOption>>
                ELSE /\ searchQueue' = IF parentB[b] # 0 THEN searchQueue
                                                        ELSE searchQueue \o bToA[b]
                     /\ nextOption' = nextOption + 1
                     /\ UNCHANGED <<phase, currentB>>
    /\ UNCHANGED <<unique, options, bMax, waterLevel, aToB, bToA, placing, result>>

(* No path: unique_combine() gives up, assign() tries the next a. *)
DeadEnd ==
    /\ phase = "search" /\ searchQueue = <<>>
    /\ IF unique THEN Return(<<>>) /\ UNCHANGED <<placing, searchQueue, nextOption, parentB>>
                 ELSE StartSearch(placing + 1) /\ UNCHANGED result
    /\ UNCHANGED <<unique, options, bMax, waterLevel, aToB, bToA, currentB>>

(* Swap-and-pop. *)
Without(as, a) ==
    LET at == CHOOSE k \in DOMAIN as : as[k] = a
    IN  [k \in 1 .. Len(as) - 1 |-> IF k = at THEN as[Len(as)] ELSE as[k]]

(* Mutation: the a stays with its previous b as well. *)
FlipKeeps ==
    /\ phase = "flip"
    /\ LET a == parentB[currentB]
       IN  /\ bToA' = [bToA EXCEPT ![currentB] = Append(@, a)]
           /\ aToB' = [aToB EXCEPT ![a] = currentB]
           /\ IF a = placing
                THEN currentB' = 0 /\ StartSearch(placing + 1)
                ELSE currentB' = aToB[a] /\ UNCHANGED <<phase, placing, searchQueue, nextOption, parentB>>
    /\ UNCHANGED <<unique, options, bMax, waterLevel, result>>

(* One step back along the path: the a moves here and leaves its previous  *)
(* b, which is the next step; the path starts at the a that has none.      *)
Flip ==
    /\ phase = "flip"
    /\ LET a == parentB[currentB]
       IN  /\ bToA' = [b \in Bs |-> IF b = currentB THEN Append(bToA[b], a)
                                    ELSE IF b = aToB[a] THEN Without(bToA[b], a)
                                    ELSE bToA[b]]
           /\ aToB' = [aToB EXCEPT ![a] = currentB]
           /\ IF a = placing
                THEN currentB' = 0 /\ StartSearch(placing + 1)
                ELSE currentB' = aToB[a] /\ UNCHANGED <<phase, placing, searchQueue, nextOption, parentB>>
    /\ UNCHANGED <<unique, options, bMax, waterLevel, result>>

AssignNext == Raise \/ NextInQueue \/ Visit \/ DeadEnd \/ Flip

AssignSpec == AssignInit /\ Arguments /\ [][AssignNext]_assignVars

-----------------------------------------------------------------------------

AssignTypeOK ==
    /\ waterLevel \in Nat
    /\ aToB \in [As -> 0 .. BCount]
    /\ \A b \in Bs : ToSet(bToA[b]) \subseteq As
    /\ ToSet(searchQueue) \subseteq As

(* What the callers ask for: every a with one of its options, no b above   *)
(* its maximum nor above a limit for all of them.                          *)
Assignments(limit) ==
    {f \in [As -> Bs] :
        /\ \A a \in As : f[a] \in ToSet(options[a])
        /\ \A b \in Bs : Cardinality({a \in As : f[a] = b}) <= SmallerOf(limit, bMax[b])}

(* An assignment is returned exactly if there is one, it keeps to the      *)
(* options and the maxima, and it spreads: no other one could do with a    *)
(* smaller maximum of a's per b.  For unique_combine() this is a value     *)
(* from every selection, no two the same.                                  *)
AssignsAndSpreads ==
    phase = "done" =>
        \/ result = <<>> /\ Assignments(ACount) = {}
        \/ \E limit \in 1 .. ACount :
             result \in Assignments(limit) /\ Assignments(limit - 1) = {}
=============================================================================
