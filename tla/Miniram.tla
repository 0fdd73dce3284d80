------------------------------- MODULE Miniram -------------------------------
(***************************************************************************)
(* cth::dt::basic_miniram (cth/incl/cth/data/miniram.hpp and               *)
(* inl/miniram.inl): an offset allocator.  Storage is cut into blocks, one *)
(* node each, chained to their neighbours.  Free blocks are filed in       *)
(* doubly linked lists, one per size class, and two levels of bitmaps say  *)
(* which lists are not empty.  Ids of unused nodes are kept on a stack in  *)
(* an array.                                                               *)
(*                                                                         *)
(* The class is sequential: an action is a whole call.  The call is put    *)
(* together from operators on the object r, as the code is put together    *)
(* from member functions.                                                  *)
(***************************************************************************)
EXTENDS MiniramBins, Integers

CONSTANTS
    Capacity,       \* elements of the storage
    NumLeafBins,    \* NUM_LEAF_BINS, 8 per bit of size_type in the code
    AllocCapacity,  \* initial_alloc_capacity
    MaxNodes,       \* bound on the growth of the node table
    Requests,       \* sizes that are asked for
    None            \* INVALID_INDEX

ASSUME MiniramAssumption ==
    /\ Capacity \in Nat \ {0}
    /\ NumLeafBins \in Nat /\ NumLeafBins > CeilToFloat(Capacity)
    /\ AllocCapacity \in Nat \ {0}
    /\ MaxNodes \in Nat /\ MaxNodes > AllocCapacity
    /\ Requests \subseteq Nat
    /\ None \notin Nat

VARIABLES
    ram,            \* the object
    live            \* ghost: the allocations [id, offset, size] clients hold

vars == <<ram, live>>

Bins == 0 .. NumLeafBins - 1

NodeRecord == [offset : Nat, size : Nat,
               binPrev : Nat \cup {None}, binNext : Nat \cup {None},
               prev : Nat \cup {None}, next : Nat \cup {None},
               used : BOOLEAN]

Unused == [offset |-> 0, size |-> 0, binPrev |-> None, binNext |-> None,
           prev |-> None, next |-> None, used |-> FALSE]

(* nodes() *)
Nodes(r) == Cardinality(DOMAIN r.node)

RemainingAllocs(r) == Nodes(r) - r.ptr

-----------------------------------------------------------------------------
(* Member functions, on an object r.                                       *)

(* reserve_nodes(n) *)
ReserveNodes(r, n) ==
    IF n <= Nodes(r) THEN r
    ELSE [r EXCEPT
            !.node = [i \in 0 .. n - 1 |-> IF i < Nodes(r) THEN @[i] ELSE Unused],
            !.freeNodes = [i \in 0 .. n - 1 |-> IF i < Nodes(r) THEN @[i] ELSE i]]

(* reserve_allocations() *)
GrowNodes(r) == ReserveNodes(r, 2 * (Nodes(r) - 1) + 1)

(* popFreeNode(): the next id.  The call fails when there is none. *)
NextFreeNode(r) == r.freeNodes[r.ptr]

(* Mutation: the pointer is lowered after the write instead of before. *)
PushFreeNodeLate(r, id) ==
    IF r.ptr = 0 THEN [r EXCEPT !.failed = TRUE]
    ELSE [r EXCEPT !.ptr = @ - 1,
                   !.freeNodes = [i \in DOMAIN r.node |-> IF i = r.ptr THEN id ELSE @[i]]]

(* pushFreeNode() *)
PushFreeNode(r, id) ==
    IF r.ptr = 0 THEN [r EXCEPT !.failed = TRUE]
    ELSE [r EXCEPT !.ptr = @ - 1, !.freeNodes[r.ptr - 1] = id]

(* insertNode(): a free block, at the head of the list of its class. *)
InsertNode(r, size, offset) ==
    IF r.ptr >= Nodes(r) THEN [r EXCEPT !.failed = TRUE]
    ELSE LET id   == NextFreeNode(r)
             bin  == FloorToFloat(size)
             head == r.bin[bin]
             filed == [Unused EXCEPT !.offset = offset, !.size = size, !.binNext = head]
             placed == [r.node EXCEPT ![id] = filed]
         IN  [r EXCEPT
                !.free = @ + size,
                !.ptr = @ + 1,
                !.top = IF head = None THEN @ \cup {TopBin(bin)} ELSE @,
                !.leaf = IF head = None THEN @ \cup {bin} ELSE @,
                !.node = IF head = None THEN placed
                         ELSE [placed EXCEPT ![head].binPrev = id],
                !.bin[bin] = id]

(* The bitmaps once the list of a class is empty. *)
ClearBit(r, bin) ==
    LET leaf == r.leaf \ {bin}
    IN  [r EXCEPT
           !.leaf = leaf,
           !.top = IF \E b \in leaf : TopBin(b) = TopBin(bin) THEN @
                   ELSE @ \ {TopBin(bin)}]

(* The node id at the head of a class is unlinked. *)
UnlinkHead(r, id, bin) ==
    LET next == r.node[id].binNext
        unlinked == [r EXCEPT
            !.bin[bin] = next,
            !.node = IF next = None THEN @ ELSE [@ EXCEPT ![next].binPrev = None]]
    IN  IF next = None THEN ClearBit(unlinked, bin) ELSE unlinked

(* A node behind another one is unlinked. *)
UnlinkInner(r, id) ==
    LET prev == r.node[id].binPrev
        next == r.node[id].binNext
        skipped == [r.node EXCEPT ![prev].binNext = next]
    IN  [r EXCEPT !.node = IF next = None THEN skipped
                           ELSE [skipped EXCEPT ![next].binPrev = prev]]

(* removeNode(): a free block is unlinked and its node given back. *)
RemoveNode(r, id) ==
    LET size == r.node[id].size
        unlinked == IF r.node[id].binPrev = None
                        THEN UnlinkHead(r, id, FloorToFloat(size))
                        ELSE UnlinkInner(r, id)
    IN  PushFreeNode([unlinked EXCEPT !.free = @ - size], id)

(* Chains the node id between two neighbours. *)
Chain(r, id, prev, next) ==
    LET set  == [r.node EXCEPT ![id].prev = prev, ![id].next = next]
        left == IF prev = None THEN set ELSE [set EXCEPT ![prev].next = id]
    IN  [r EXCEPT !.node = IF next = None THEN left ELSE [left EXCEPT ![next].prev = id]]

-----------------------------------------------------------------------------
(* allocate()                                                              *)

(* Mutation: the search starts above the class of the request. *)
SearchBinStrict(r, size) ==
    LET least == CeilToFloat(size)
        same  == {b \in r.leaf : TopBin(b) = TopBin(least) /\ b > least}
        above == {t \in r.top : t > TopBin(least)}
    IN  IF TopBin(least) \in r.top /\ same # {} THEN Min(same)
        ELSE IF above # {} THEN Min({b \in r.leaf : TopBin(b) = Min(above)})
        ELSE None

(* Mutation: the highest class above the top bin of the request is taken. *)
SearchBinHighest(r, size) ==
    LET least == CeilToFloat(size)
        same  == {b \in r.leaf : TopBin(b) = TopBin(least) /\ b >= least}
        above == {t \in r.top : t > TopBin(least)}
    IN  IF TopBin(least) \in r.top /\ same # {} THEN Min(same)
        ELSE IF above # {} THEN Max({b \in r.leaf : TopBin(b) = Max(above)})
        ELSE None

(* The lowest class that serves a request: first within the top bin of the *)
(* request, then in the lowest one above; None if there is none.           *)
SearchBin(r, size) ==
    LET least == CeilToFloat(size)
        same  == {b \in r.leaf : TopBin(b) = TopBin(least) /\ b >= least}
        above == {t \in r.top : t > TopBin(least)}
    IN  IF TopBin(least) \in r.top /\ same # {} THEN Min(same)
        ELSE IF above # {} THEN Min({b \in r.leaf : TopBin(b) = Min(above)})
        ELSE None

(* Mutation: the rest starts where the block starts. *)
SliceOverlaps(r, size, bin) ==
    LET id    == r.bin[bin]
        block == r.node[id]
        rest  == block.size - size
        taken == UnlinkHead([r EXCEPT !.free = @ - block.size,
                                      !.node[id].size = size,
                                      !.node[id].used = TRUE], id, bin)
    IN  IF rest = 0 THEN taken
        ELSE LET inserted == InsertNode(taken, rest, block.offset)
             IN  IF inserted.failed THEN inserted
                 ELSE Chain(inserted, NextFreeNode(taken), id, inserted.node[id].next)

(* sliceTopBinNode(): the front of the block at the head of the class is   *)
(* used, the rest becomes a free block of its own.                         *)
Slice(r, size, bin) ==
    LET id    == r.bin[bin]
        block == r.node[id]
        rest  == block.size - size
        taken == UnlinkHead([r EXCEPT !.free = @ - block.size,
                                      !.node[id].size = size,
                                      !.node[id].used = TRUE], id, bin)
    IN  IF rest = 0 THEN taken
        ELSE LET inserted == InsertNode(taken, rest, block.offset + size)
             IN  IF inserted.failed THEN inserted
                 ELSE Chain(inserted, NextFreeNode(taken), id, inserted.node[id].next)

(* allocate(size) on an object that has room for a node. *)
AllocateFrom(r, size) ==
    LET bin == SearchBin(r, size)
    IN  IF bin = None THEN [ram |-> r, id |-> None]
        ELSE [ram |-> Slice(r, size, bin), id |-> r.bin[bin]]

(* Mutation: the node table does not grow. *)
AllocateNoGrowth(r, size) ==
    IF size > r.free THEN [ram |-> r, id |-> None] ELSE AllocateFrom(r, size)

(* allocate(size) *)
AllocateResult(r, size) ==
    IF size > r.free THEN [ram |-> r, id |-> None]
    ELSE AllocateFrom(IF RemainingAllocs(r) = 0 THEN GrowNodes(r) ELSE r, size)

-----------------------------------------------------------------------------
(* free()                                                                  *)

(* A neighbour that free() merges with. *)
IsFree(r, id) == IF id = None THEN FALSE ELSE ~r.node[id].used

(* The previous block is free: it is taken over. *)
MergePrev(r, id) ==
    LET prev == r.node[id].prev
    IN  IF r.node[prev].next # id THEN [r EXCEPT !.failed = TRUE]
        ELSE RemoveNode(r, prev)

(* The next block is free: it is taken over. *)
MergeNext(r, id) ==
    LET next == r.node[id].next
    IN  IF r.node[next].prev # id THEN [r EXCEPT !.failed = TRUE]
        ELSE RemoveNode(r, next)

(* free(): the block and its free neighbours become one free block. *)
FreeResult(r, id) ==
    LET block   == r.node[id]
        byPrev  == IsFree(r, block.prev)
        byNext  == IsFree(r, block.next)
        prev    == IF byPrev THEN r.node[block.prev].prev ELSE block.prev
        next    == IF byNext THEN r.node[block.next].next ELSE block.next
        offset  == IF byPrev THEN r.node[block.prev].offset ELSE block.offset
        size    == block.size + (IF byPrev THEN r.node[block.prev].size ELSE 0)
                              + (IF byNext THEN r.node[block.next].size ELSE 0)
        left    == IF byPrev THEN MergePrev(r, id) ELSE r
        both    == IF byNext THEN MergeNext(left, id) ELSE left
        pushed  == PushFreeNode(both, id)
        merged  == InsertNode(pushed, size, offset)
    IN  IF ~block.used \/ merged.failed THEN [r EXCEPT !.failed = TRUE]
        ELSE Chain(merged, NextFreeNode(pushed), prev, next)

-----------------------------------------------------------------------------
(* Queries.                                                                *)

(* max_alloc(): the smallest size of the highest class that has a block. *)
MaxAlloc(r) ==
    IF r.free = 0 THEN 0
    ELSE ToUint(Max({b \in r.leaf : TopBin(b) = Max(r.top)}))

(* allocatable() *)
Allocatable(r, size) == size <= MaxAlloc(r)

-----------------------------------------------------------------------------
(* Behaviour.                                                              *)

(* defragmentReset() *)
ResetBins(r) ==
    [r EXCEPT !.free = 0, !.top = {}, !.leaf = {}, !.bin = [b \in Bins |-> None]]

(* clear() of an object whose node table may grow to n nodes. *)
ClearResult(r, n) ==
    InsertNode(ReserveNodes([ResetBins(r) EXCEPT !.ptr = 0], n), r.capacity, 0)

NoNodes ==
    [node |-> [i \in {} |-> Unused], freeNodes |-> [i \in {} |-> 0], ptr |-> 0,
     bin |-> [b \in Bins |-> None], leaf |-> {}, top |-> {}, free |-> 0,
     capacity |-> Capacity, failed |-> FALSE]

Init ==
    /\ ram = ClearResult(NoNodes, AllocCapacity + 1)
    /\ live = {}

(* The table does not grow beyond the bound of the model. *)
WithinBound == RemainingAllocs(ram) = 0 => 2 * (Nodes(ram) - 1) + 1 <= MaxNodes

Allocate(size) ==
    LET result == AllocateResult(ram, size)
        block  == [id |-> result.id, offset |-> result.ram.node[result.id].offset,
                   size |-> size]
    IN  /\ ~ram.failed
        /\ WithinBound
        /\ ram' = result.ram
        /\ live' = IF result.id = None THEN live ELSE live \cup {block}

Free(block) ==
    /\ ~ram.failed
    /\ ram' = FreeResult(ram, block.id)
    /\ live' = live \ {block}

(* reserve_allocations(n) by a client. *)
Reserve(n) ==
    /\ ~ram.failed
    /\ ram' = ReserveNodes(ram, n + 1)
    /\ UNCHANGED live

Next ==
    \/ \E size \in Requests : Allocate(size)
    \/ \E block \in live : Free(block)
    \/ \E n \in 1 .. MaxNodes - 1 : Reserve(n)

Spec == Init /\ [][Next]_vars

-----------------------------------------------------------------------------
(* Properties.                                                             *)

Ids == DOMAIN ram.node

(* Nodes that stand for a block: those that are not on the stack. *)
OnStack == {ram.freeNodes[i] : i \in ram.ptr .. Nodes(ram) - 1}

Blocks == Ids \ OnStack

FreeBlocks == {i \in Blocks : ~ram.node[i].used}

SumOf(S, f(_)) == FoldSet(LAMBDA x, sum : sum + f(x), 0, S)

TypeOK ==
    /\ ram.node \in [Ids -> NodeRecord]
    /\ Ids = 0 .. Nodes(ram) - 1 /\ Nodes(ram) <= MaxNodes
    /\ ram.freeNodes \in [Ids -> Ids]
    /\ ram.ptr \in 0 .. Nodes(ram)
    /\ ram.bin \in [Bins -> Ids \cup {None}]
    /\ ram.leaf \subseteq Bins
    /\ ram.top \subseteq {TopBin(b) : b \in Bins}
    /\ ram.free \in 0 .. ram.capacity
    /\ ram.capacity \in Nat
    /\ ram.failed \in BOOLEAN
    /\ live \subseteq [id : Ids, offset : 0 .. Capacity, size : Requests]

(* None of the CTH_CRITICAL checks of the class ever fires: the node stack *)
(* neither underflows nor overflows, no live block is found free, and the  *)
(* neighbour chain is symmetric wherever free() relies on it.              *)
NoCriticalFails == ~ram.failed

(* The node stack hands every id out once: its entries are distinct, and   *)
(* the blocks are exactly the live allocations and the filed free blocks.  *)
StackPartition ==
    /\ Cardinality(OnStack) = RemainingAllocs(ram)
    /\ {block.id : block \in live} = {i \in Blocks : ram.node[i].used}

(* The neighbour chain tiles the storage from 0 to the capacity without    *)
(* gap or overlap, and free blocks are coalesced: two never meet.          *)
ChainTilesStorage ==
    /\ Cardinality({i \in Blocks : ram.node[i].prev = None}) = 1
    /\ Cardinality({i \in Blocks : ram.node[i].next = None}) = 1
    /\ SumOf(Blocks, LAMBDA i : ram.node[i].size) = ram.capacity
    /\ \A i \in Blocks :
         LET prev == ram.node[i].prev
             next == ram.node[i].next
         IN  /\ IF prev = None THEN ram.node[i].offset = 0
                ELSE prev \in Blocks /\ ram.node[prev].next = i
             /\ IF next = None THEN ram.node[i].offset + ram.node[i].size = ram.capacity
                ELSE /\ next \in Blocks
                     /\ ram.node[next].prev = i
                     /\ ram.node[next].offset = ram.node[i].offset + ram.node[i].size
                     /\ ram.node[i].used \/ ram.node[next].used

(* The bins file exactly the free blocks, each under its own class, the    *)
(* lists are doubly linked, and both bitmaps agree with the lists.         *)
BinsFileFreeBlocks ==
    /\ \A b \in Bins :
         /\ b \in ram.leaf <=> ram.bin[b] # None
         /\ ram.bin[b] # None =>
              /\ ram.bin[b] \in FreeBlocks
              /\ FloorToFloat(ram.node[ram.bin[b]].size) = b
              /\ ram.node[ram.bin[b]].binPrev = None
    /\ ram.top = {TopBin(b) : b \in ram.leaf}
    /\ \A i \in FreeBlocks :
         LET prev == ram.node[i].binPrev
             next == ram.node[i].binNext
             bin  == FloorToFloat(ram.node[i].size)
         IN  /\ IF prev = None THEN ram.bin[bin] = i
                ELSE prev \in FreeBlocks /\ ram.node[prev].binNext = i
             /\ next # None =>
                  /\ next \in FreeBlocks
                  /\ ram.node[next].binPrev = i
                  /\ FloorToFloat(ram.node[next].size) = bin

(* A live allocation keeps its node, offset and size until it is freed,    *)
(* and no two share an id or an element, whatever else is allocated, freed *)
(* or merged around them and however often the node table grows.           *)
LiveIntact ==
    \A a \in live :
        /\ ram.node[a.id].used
        /\ ram.node[a.id].offset = a.offset
        /\ ram.node[a.id].size = a.size
        /\ \A b \in live \ {a} :
             /\ a.id # b.id
             /\ a.offset + a.size <= b.offset \/ b.offset + b.size <= a.offset

(* remaining() is what the free blocks hold and what no client holds. *)
StorageAccounted ==
    /\ ram.free = SumOf(FreeBlocks, LAMBDA i : ram.node[i].size)
    /\ ram.free = ram.capacity - SumOf(live, LAMBDA a : a.size)

(* The four representations of the same storage agree: the node stack, the *)
(* chain of neighbours, the bins with their bitmaps, and the counters.     *)
WellFormed ==
    TypeOK /\ StackPartition /\ ChainTilesStorage /\ BinsFileFreeBlocks /\ StorageAccounted

(* The bit arithmetic of the size classes agrees with its definition for   *)
(* the size of every block: free blocks are filed under the largest class  *)
(* they fill, requests looked up from the smallest one whose blocks all    *)
(* hold them, across the change from exact to rounded sizes and the        *)
(* carries at powers of two.                                               *)
ClassesExact ==
    \A i \in Blocks :
        LET size == ram.node[i].size
        IN  /\ FloorToFloat(size) = LargestClassBelow(size)
            /\ CeilToFloat(size) = SmallestClassAbove(size)

(* Seen by its clients, the class is the abstract allocator: node table,   *)
(* chain, bins and stack together find a block where the gaps between the  *)
(* live blocks have a good fit, and nowhere else.                          *)
Blocked == INSTANCE BlockAllocator

ImplementsBlockAllocator == Blocked!BlockSpec

(* allocatable() predicts allocate() for every size from 1 on, and both    *)
(* refuse exactly the requests for which the gaps between the live blocks  *)
(* have no good fit: no free block is out of reach of the bins and none is *)
(* left split.                                                             *)
AllocatableExact ==
    /\ \A n \in 1 .. ram.capacity :
         Allocatable(ram, n) <=> AllocateResult(ram, n).id # None
    /\ \A n \in Requests \ {0} :
         AllocateResult(ram, n).id = None <=> Blocked!GoodFit(n) = {}
=============================================================================
