---------------------------- MODULE MiniramDefrag ----------------------------
(***************************************************************************)
(* clear(), defragment() and resize() of cth::dt::basic_miniram beside     *)
(* allocate() and free().  Clients follow the report of a defragmentation: *)
(* they move the data as told and continue with the new offsets.           *)
(***************************************************************************)
EXTENDS Miniram, Sequences

CONSTANTS
    Operations,     \* the operations of this module that are called
    NewCapacities,  \* capacities passed to resize()
    MaxMaintenance, \* bound on the number of their calls
    NoReport        \* there has been no defragmentation

ASSUME MiniramDefragAssumption ==
    /\ Operations \subseteq {"clear", "defragment", "resize"}
    /\ NewCapacities \subseteq Nat
    /\ \A c \in NewCapacities : CeilToFloat(c) < NumLeafBins
    /\ MaxMaintenance \in Nat
    /\ NoReport \notin [before : SUBSET [id : Nat, offset : Nat, size : Nat],
                        capacity : Nat, moves : Seq([src : Nat, dst : Nat, size : Nat])]

VARIABLES
    report,         \* ghost: the last report, with what it is about
    maintained      \* ghost: calls of clear(), defragment() and resize()

defragVars == <<vars, report, maintained>>

-----------------------------------------------------------------------------
(* compactUsedNodes()                                                      *)

UsedNodes(r) == {i \in DOMAIN r.node : r.node[i].used}

(* S in increasing order. *)
Ascending(S, Less(_, _)) ==
    [k \in 1 .. Cardinality(S) |->
        CHOOSE x \in S : Cardinality({y \in S : Less(y, x)}) = k - 1]

(* The used nodes by offset.  std::ranges::sort leaves open in which order *)
(* blocks of the same offset come: empty ones beside another.              *)
SortedNodes(r, ascending) ==
    Ascending(UsedNodes(r),
              LAMBDA i, j :
                 \/ r.node[i].offset < r.node[j].offset
                 \/ r.node[i].offset = r.node[j].offset
                    /\ IF ascending THEN i < j ELSE i > j)

(* The sum of the sizes of the first k nodes of order. *)
SizeBefore(r, order, k) ==
    LET sum[i \in 0 .. Len(order)] ==
            IF i = 0 THEN 0 ELSE sum[i - 1] + r.node[order[i]].size
    IN  sum[k]

(* The nodes pushed together from offset 0 and chained to each other. *)
Compacted(r, order) ==
    LET n == Len(order)
        Placed(k) == [r.node[order[k]] EXCEPT
                        !.offset = SizeBefore(r, order, k - 1),
                        !.prev = IF k = 1 THEN None ELSE order[k - 1],
                        !.next = IF k = n THEN None ELSE order[k + 1]]
    IN  [i \in DOMAIN r.node |->
           IF \E k \in 1 .. n : order[k] = i
           THEN Placed(CHOOSE k \in 1 .. n : order[k] = i) ELSE r.node[i]]

Move(src, dst, size) == [src |-> src, dst |-> dst, size |-> size]

(* Mutation: a block after the first moved one extends its move,          *)
(* contiguous or not.                                                      *)
NextMoveMerged(r, order, moves, k) ==
    LET src  == r.node[order[k]].offset
        dst  == SizeBefore(r, order, k - 1)
        size == r.node[order[k]].size
    IN  IF src = dst THEN moves
        ELSE IF moves # <<>>
        THEN [moves EXCEPT ![Len(moves)].size = @ + size]
        ELSE Append(moves, Move(src, dst, size))

(* The move of the k-th block, if it moves: a block that was contiguous    *)
(* with the one before extends the last move.                              *)
NextMove(r, order, moves, k) ==
    LET src  == r.node[order[k]].offset
        dst  == SizeBefore(r, order, k - 1)
        size == r.node[order[k]].size
        contiguous == k > 1 /\ src = r.node[order[k - 1]].offset + r.node[order[k - 1]].size
    IN  IF src = dst THEN moves
        ELSE IF contiguous /\ moves # <<>>
        THEN [moves EXCEPT ![Len(moves)].size = @ + size]
        ELSE Append(moves, Move(src, dst, size))

Moves(r, order) ==
    LET moves[k \in 0 .. Len(order)] ==
            IF k = 0 THEN <<>> ELSE NextMove(r, order, moves[k - 1], k)
    IN  moves[Len(order)]

-----------------------------------------------------------------------------
(* defragment(new_size)                                                    *)

(* A new free block behind the node last. *)
AppendFree(r, size, offset, last) ==
    LET inserted == InsertNode(r, size, offset)
    IN  IF inserted.failed THEN inserted
        ELSE Chain(inserted, NextFreeNode(r), last, None)

(* reconstructFreeSpace(): the free space becomes a block of a size that   *)
(* is exactly a class, and the remainder a second one.                     *)
FreeBehind(r, offset, last) ==
    LET total == r.capacity - offset
        main  == ToUint(FloorToFloat(total))
        first == AppendFree(r, main, offset, last)
    IN  IF total = main \/ first.failed THEN first
        ELSE AppendFree(first, total - main, offset + main, NextFreeNode(r))

(* The ids of nodes that are not in use, in the array from its start; the  *)
(* stack pointer is left behind the last one.                              *)
CollectFreeNodes(r) ==
    LET unused == Ascending(DOMAIN r.node \ UsedNodes(r), <)
    IN  [r EXCEPT !.ptr = Len(unused),
                  !.freeNodes = [i \in DOMAIN r.node |->
                      IF i < Len(unused) THEN unused[i + 1] ELSE @[i]]]

DefragmentResult(r, capacity, ascending) ==
    LET order     == SortedNodes(r, ascending)
        n         == Len(order)
        collected == CollectFreeNodes(r)
        compacted == [ResetBins(collected) EXCEPT
                        !.capacity = capacity,
                        !.node = Compacted(r, order)]
        occupied  == SizeBefore(r, order, n)
    IN  IF capacity > occupied
        THEN FreeBehind(compacted, occupied, IF n = 0 THEN None ELSE order[n])
        ELSE compacted

(* to_disjunct_copies(): a move onto itself is cut into pieces as long as  *)
(* the distance it moves.                                                  *)
Pieces(m) ==
    LET chunk  == m.src - m.dst
        number == IF m.size <= chunk THEN 1 ELSE (m.size + chunk - 1) \div chunk
    IN  [i \in 1 .. number |->
           Move(m.src + (i - 1) * chunk, m.dst + (i - 1) * chunk,
                IF i < number THEN chunk ELSE m.size - (i - 1) * chunk)]

DisjunctCopies(moves) ==
    LET copies[k \in 0 .. Len(moves)] ==
            IF k = 0 THEN <<>> ELSE copies[k - 1] \o Pieces(moves[k])
    IN  copies[Len(moves)]

-----------------------------------------------------------------------------

DefragInit == Init /\ report = NoReport /\ maintained = 0

Maintain(operation) ==
    /\ operation \in Operations
    /\ ~ram.failed
    /\ maintained < MaxMaintenance
    /\ maintained' = maintained + 1

(* clear(): _maxAllocs was exchanged for 0 by the constructor, the node    *)
(* table and the array of free ids keep their contents.                    *)
Clear ==
    /\ Maintain("clear")
    /\ ram' = ClearResult(ram, 1)
    /\ live' = {}
    /\ UNCHANGED report

(* defragment(), resize(): the clients follow the report. *)
Compact(capacity) ==
    \E ascending \in BOOLEAN :
        /\ ram' = DefragmentResult(ram, capacity, ascending)
        /\ IF ram'.failed THEN UNCHANGED <<live, report>>
           ELSE LET order == SortedNodes(ram, ascending)
                    Updated(id) == SizeBefore(ram, order,
                        CHOOSE k \in 0 .. Len(order) - 1 : order[k + 1] = id)
                IN  /\ live' = {[a EXCEPT !.offset = Updated(a.id)] : a \in live}
                    /\ report' = [before |-> live, capacity |-> ram.capacity,
                                  moves |-> Moves(ram, order)]

Defragment ==
    /\ Maintain("defragment")
    /\ Compact(ram.capacity)

Resize(capacity) ==
    /\ Maintain("resize")
    /\ Compact(capacity)

Use == Next /\ UNCHANGED <<report, maintained>>

DefragNext ==
    \/ Use
    \/ Clear
    \/ Defragment
    \/ \E capacity \in NewCapacities : Resize(capacity)

DefragSpec == DefragInit /\ [][DefragNext]_defragVars

(* Until the first call of clear(), defragment() or resize(). *)
OnceSpec == DefragInit /\ [][maintained = 0 /\ DefragNext]_defragVars

-----------------------------------------------------------------------------
(* Properties.                                                             *)

(* Memory as the offsets of the blocks see it: every cell of a live block  *)
(* holds the block's id and the place within it.                           *)
Holds(memory, blocks) ==
    \A a \in blocks : \A k \in 0 .. a.size - 1 :
        memory[a.offset + k] = <<a.id, k>>

Contents(blocks, capacity) ==
    [c \in 0 .. capacity - 1 |->
        LET here == {b \in blocks : c \in b.offset .. b.offset + b.size - 1}
        IN  IF here = {} THEN <<>>
            ELSE LET a == CHOOSE b \in here : TRUE IN <<a.id, c - a.offset>>]

(* One memmove: the source is read before the destination is written. *)
Moved(memory, m) ==
    [c \in DOMAIN memory |->
        IF c \in m.dst .. m.dst + m.size - 1 THEN memory[c - m.dst + m.src]
        ELSE memory[c]]

Carried(memory, moves) ==
    LET after[k \in 0 .. Len(moves)] ==
            IF k = 0 THEN memory ELSE Moved(after[k - 1], moves[k])
    IN  after[Len(moves)]

MemoryBefore == Contents(report.before, report.capacity)

JustCompacted == report # NoReport /\ ~ram.failed

(* Doing the reported moves one after the other brings the data of every   *)
(* live allocation to its new offset, although they overlap each other and *)
(* are merged over contiguous blocks.                                      *)
MovesCarryData == JustCompacted => Holds(Carried(MemoryBefore, report.moves), live)

(* So do the copies of to_disjunct_copies(), none of which overlaps itself. *)
CopiesCarryData ==
    JustCompacted =>
        LET copies == DisjunctCopies(report.moves)
        IN  /\ Holds(Carried(MemoryBefore, copies), live)
            /\ \A i \in DOMAIN copies :
                  copies[i].dst + copies[i].size <= copies[i].src

(* Compaction leaves the live allocations side by side from offset 0 on,   *)
(* in their old order and with their ids and sizes.                        *)
LeftCompacted ==
    JustCompacted =>
        /\ UNION {a.offset .. a.offset + a.size - 1 : a \in live}
             = 0 .. SumOf(report.before, LAMBDA a : a.size) - 1
        /\ \A a, b \in report.before : \A c, d \in live :
             a.id = c.id /\ b.id = d.id =>
                 /\ a.size = c.size
                 /\ a.offset < b.offset => c.offset < d.offset

(* After clear() the storage is one block again, as large as it was first. *)
ClearedIsWhole ==
    maintained > 0 /\ report = NoReport /\ ~ram.failed /\ live = {} =>
        /\ ram.free = ram.capacity
        /\ MaxAlloc(ram) = ToUint(FloorToFloat(ram.capacity))

(* Together: what clear(), defragment() and resize() leave and report.     *)
StorageRearranged == MovesCarryData /\ CopiesCarryData /\ LeftCompacted /\ ClearedIsWhole
=============================================================================
