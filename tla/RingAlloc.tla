----------------------------- MODULE RingAlloc ------------------------------
(***************************************************************************)
(* cth::dt::ring_alloc (cth/incl/cth/data/ringalloc.hpp): a lock-free ring *)
(* allocator.  Positions never wrap to 0: a position p stands for byte     *)
(* p % Size of the buffer, and the bytes in use are those of the positions *)
(* tail .. head-1.  Every atomic access of alloc() and free() is one       *)
(* action, so that any interleaving of the threads is a behaviour.         *)
(***************************************************************************)
EXTENDS Integers

CONSTANTS
    Threads,    \* the threads that share the allocator
    Size,       \* _size, the bytes in the buffer
    Sizes,      \* the sizes the threads ask for
    Word,       \* 2^64: unsigned subtraction is modulo Word
    MaxPos      \* bound: no allocation starts once head has reached MaxPos

(* The contract of alloc(): a size is at most max_alloc(), so far from the *)
(* width of a word; oversized requests are allowed up to twice the buffer. *)
ASSUME RingAllocAssumption ==
    /\ Size \in Nat \ {0}
    /\ Sizes \subseteq 0 .. 2 * Size
    /\ Word \in Nat /\ Word > 8 * Size
    /\ MaxPos \in Nat

VARIABLES
    head,       \* _head, the position the next allocation starts from
    tail,       \* _tail, everything below it is free
    pc,         \* where each thread is
    seen,       \* the local copy of _head (alloc) or of _tail (free)
    arg,        \* the size asked for (alloc) or the position freed (free)
    held,       \* allocations returned by alloc() and not yet passed to free()
    released    \* ghost: the highest position passed to free()

vars == <<head, tail, pc, seen, arg, held, released>>

Allocation == [begin : 0 .. Size - 1, size : Sizes, token : Nat]

TypeOK ==
    /\ head \in Nat
    /\ tail \in Nat
    /\ pc \in [Threads -> {"idle", "loadTail", "casHead", "casTail"}]
    /\ seen \in [Threads -> Nat]
    /\ arg \in [Threads -> Nat]
    /\ held \subseteq Allocation
    /\ released \in Nat

-----------------------------------------------------------------------------
(* The arithmetic of alloc() and max_alloc().                              *)

Minus(a, b) == (a - b) % Word

(* The request does not fit between the head and the end of the buffer. *)
Wraps(h, n) == (h % Size) + n > Size

Begin(h, n) == IF Wraps(h, n) THEN 0 ELSE h % Size

(* Mutation: a wrap forgets the bytes it skips. *)
TotalSizeNoPadding(h, n) == n

(* What the request consumes: a wrap also consumes the rest of the buffer. *)
TotalSize(h, n) == IF Wraps(h, n) THEN n + (Size - (h % Size)) ELSE n

Fits(h, t, n) == Minus(h + TotalSize(h, n), t) <= Size

(* Mutation: head and tail at the same byte are taken for a full buffer. *)
MaxAllocInclusive(h, t) ==
    IF Minus(h, t) >= Size THEN 0
    ELSE IF h % Size <= t % Size
         THEN (t % Size) - (h % Size)
         ELSE IF Size - (h % Size) >= t % Size THEN Size - (h % Size)
                                               ELSE t % Size

MaxAlloc(h, t) ==
    IF Minus(h, t) >= Size THEN 0
    ELSE IF h % Size < t % Size
         THEN (t % Size) - (h % Size)
         ELSE IF Size - (h % Size) >= t % Size THEN Size - (h % Size)
                                             ELSE t % Size

-----------------------------------------------------------------------------

Init ==
    /\ head = 0
    /\ tail = 0
    /\ pc = [t \in Threads |-> "idle"]
    /\ seen = [t \in Threads |-> 0]
    /\ arg = [t \in Threads |-> 0]
    /\ held = {}
    /\ released = 0

(* The call returns; its locals are gone. *)
Return(t) ==
    /\ pc' = [pc EXCEPT ![t] = "idle"]
    /\ seen' = [seen EXCEPT ![t] = 0]
    /\ arg' = [arg EXCEPT ![t] = 0]

(* alloc(n): the relaxed load of _head before the loop. *)
AllocCall(t, n) ==
    /\ pc[t] = "idle"
    /\ head < MaxPos
    /\ pc' = [pc EXCEPT ![t] = "loadTail"]
    /\ seen' = [seen EXCEPT ![t] = head]
    /\ arg' = [arg EXCEPT ![t] = n]
    /\ UNCHANGED <<head, tail, held, released>>

(* Mutation: a request that fills the buffer to the last byte is refused. *)
AllocLoadTailStrict(t) ==
    /\ pc[t] = "loadTail"
    /\ IF Minus(seen[t] + TotalSize(seen[t], arg[t]), tail) < Size
          THEN /\ pc' = [pc EXCEPT ![t] = "casHead"]
               /\ UNCHANGED <<seen, arg>>
          ELSE Return(t)
    /\ UNCHANGED <<head, tail, held, released>>

(* The load of _tail and the space check: an empty optional is returned or *)
(* the compare-exchange is next.                                           *)
AllocLoadTail(t) ==
    /\ pc[t] = "loadTail"
    /\ IF Fits(seen[t], tail, arg[t])
          THEN /\ pc' = [pc EXCEPT ![t] = "casHead"]
               /\ UNCHANGED <<seen, arg>>
          ELSE Return(t)
    /\ UNCHANGED <<head, tail, held, released>>

(* Mutation: a store where the compare-exchange belongs. *)
AllocCommitStore(t) ==
    /\ pc[t] = "casHead"
    /\ head' = seen[t] + TotalSize(seen[t], arg[t])
    /\ held' = held \cup {[begin |-> Begin(seen[t], arg[t]),
                           size  |-> arg[t],
                           token |-> head']}
    /\ Return(t)
    /\ UNCHANGED <<tail, released>>

(* The compare-exchange on _head succeeds and the allocation is returned. *)
AllocCommit(t) ==
    /\ pc[t] = "casHead"
    /\ head = seen[t]
    /\ head' = head + TotalSize(head, arg[t])
    /\ held' = held \cup {[begin |-> Begin(head, arg[t]),
                           size  |-> arg[t],
                           token |-> head']}
    /\ Return(t)
    /\ UNCHANGED <<tail, released>>

(* Mutation: the retry does not check the space again. *)
AllocRetryUnchecked(t) ==
    /\ pc[t] = "casHead"
    /\ seen' = [seen EXCEPT ![t] = head]
    /\ UNCHANGED <<head, tail, pc, arg, held, released>>

(* The compare-exchange fails, because _head moved or spuriously (_weak), and *)
(* the loop starts over with the value of _head it found.                    *)
AllocRetry(t) ==
    /\ pc[t] = "casHead"
    /\ pc' = [pc EXCEPT ![t] = "loadTail"]
    /\ seen' = [seen EXCEPT ![t] = head]
    /\ UNCHANGED <<head, tail, arg, held, released>>

(* free(a.token): the load of _tail before the loop.  From here on every   *)
(* allocation up to a.token may be overwritten: the caller gave them up.   *)
FreeCall(t, a) ==
    /\ pc[t] = "idle"
    /\ held' = held \ {a}
    /\ released' = IF a.token > released THEN a.token ELSE released
    /\ pc' = [pc EXCEPT ![t] = "casTail"]
    /\ seen' = [seen EXCEPT ![t] = tail]
    /\ arg' = [arg EXCEPT ![t] = a.token]
    /\ UNCHANGED <<head, tail>>

(* Another free got at least as far: nothing is left to do. *)
FreeSuperseded(t) ==
    /\ pc[t] = "casTail"
    /\ seen[t] >= arg[t]
    /\ Return(t)
    /\ UNCHANGED <<head, tail, held, released>>

(* The compare-exchange on _tail succeeds. *)
FreeCommit(t) ==
    /\ pc[t] = "casTail"
    /\ seen[t] < arg[t]
    /\ tail = seen[t]
    /\ tail' = arg[t]
    /\ Return(t)
    /\ UNCHANGED <<head, held, released>>

(* Mutation: a free that loses the race gives up. *)
FreeGivesUp(t) ==
    /\ pc[t] = "casTail"
    /\ seen[t] < arg[t]
    /\ Return(t)
    /\ UNCHANGED <<head, tail, held, released>>

(* The compare-exchange fails, because _tail moved or spuriously. *)
FreeRetry(t) ==
    /\ pc[t] = "casTail"
    /\ seen[t] < arg[t]
    /\ seen' = [seen EXCEPT ![t] = tail]
    /\ UNCHANGED <<head, tail, pc, arg, held, released>>

Next == \E t \in Threads :
    \/ \E n \in Sizes : AllocCall(t, n)
    \/ AllocLoadTail(t)
    \/ AllocCommit(t)
    \/ AllocRetry(t)
    \/ \E a \in held : FreeCall(t, a)
    \/ FreeSuperseded(t)
    \/ FreeCommit(t)
    \/ FreeRetry(t)

Spec == Init /\ [][Next]_vars

-----------------------------------------------------------------------------
(* Properties.                                                             *)

(* The allocations whose bytes the callers still rely on. *)
Live == {a \in held : a.token > released}

Abstract == INSTANCE Regions WITH regions <- Live

(* Whatever the interleaving of allocs and frees, two allocations still in *)
(* use never share a byte and every one lies contiguously inside the       *)
(* buffer: alloc() on a stale head or a stale tail never hands out bytes   *)
(* that are in use, also when the request wraps.                           *)
NoOverlap ==
    \A a \in Live :
        /\ a.begin + a.size <= Size
        /\ \A b \in Live \ {a} : Abstract!Disjoint(a, b)

(* free() never frees more than was given up, alloc() never gives out more *)
(* than the buffer holds: tail <= released <= head <= tail + Size.         *)
WindowBounded ==
    /\ tail <= released
    /\ released <= head
    /\ head - tail <= Size

(* Racing frees never lose one: once no free() is running, the tail stands *)
(* at the highest position ever freed, whichever of them came last.        *)
FreeNotLost ==
    (\A t \in Threads : pc[t] # "casTail") => tail = released

(* max_alloc() is exact when nobody interferes: alloc(n) finds room for    *)
(* every n up to the answer and for no n above it, at every position of    *)
(* head and tail in the buffer (full, empty, wrapped).                     *)
MaxAllocExact ==
    \A n \in 0 .. Size + 1 : Fits(head, tail, n) <=> n <= MaxAlloc(head, tail)

(* The ring allocator implements the cumulative-free region allocator. *)
ImplementsRegions == Abstract!Spec

(* The inductive invariant.  A thread about to commit found room on a tail *)
(* that was not newer than today's; every free in progress is for bytes    *)
(* given up; every allocation ends below the head, at its token, and is     *)
(* either wholly released or not at all.                                   *)
ThreadInv ==
    \A t \in Threads :
        /\ pc[t] \in {"loadTail", "casHead"} => /\ arg[t] \in Sizes
                                               /\ seen[t] <= head
        /\ pc[t] = "casHead" /\ seen[t] = head =>
              head + TotalSize(head, arg[t]) - tail <= Size
        /\ pc[t] = "casTail" => /\ seen[t] <= tail
                                /\ arg[t] <= released

HeldInv ==
    \A a \in held :
        /\ a.token <= head
        /\ a.size <= a.token
        /\ a.begin + a.size <= Size
        /\ a.begin = (a.token - a.size) % Size
        /\ a.token <= released \/ released <= a.token - a.size

(* In position space the allocations do not intersect. *)
OrderedInv ==
    \A a, b \in held : a # b => \/ a.token <= b.token - b.size
                                \/ b.token <= a.token - a.size

(* Positions released and not yet freed are those of frees in progress. *)
ReleasedInv ==
    \/ tail = released
    \/ \E t \in Threads : pc[t] = "casTail" /\ arg[t] = released

IndInv ==
    /\ TypeOK
    /\ WindowBounded
    /\ ThreadInv
    /\ HeldInv
    /\ OrderedInv
    /\ ReleasedInv
=============================================================================
