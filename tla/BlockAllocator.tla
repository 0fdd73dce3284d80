--------------------------- MODULE BlockAllocator ---------------------------
(***************************************************************************)
(* What the offset allocator promises its clients, without node table,     *)
(* neighbour chain, bins or node stack: blocks that do not overlap, taken  *)
(* from the start of a largest gap between them: a "good fit", a gap of    *)
(* the lowest class that surely holds the request.  Empty blocks take no   *)
(* cell, but they split the gap they lie in.                               *)
(***************************************************************************)
EXTENDS MiniramBins, Integers

CONSTANTS
    Capacity,       \* elements
    Requests        \* sizes that may be asked for

VARIABLES live      \* blocks [id, offset, size] that clients hold

Cells(block) == block.offset .. block.offset + block.size - 1

Taken == UNION {Cells(block) : block \in live}

Cuts == {block.offset : block \in {b \in live : b.size = 0}}

(* The largest intervals without a taken cell or a cut. *)
Gaps ==
    LET taken   == Taken
        cuts    == Cuts
        starts  == {c \in 0 .. Capacity - 1 :
                      c \notin taken /\ (c = 0 \/ c - 1 \in taken \/ c \in cuts)}
        End(c)  == Min({e \in {Capacity} \cup taken \cup cuts : e > c})
    IN  {[offset |-> c, size |-> End(c) - c] : c \in starts}

Suitable(n) == {gap \in Gaps : FloorToFloat(gap.size) >= CeilToFloat(n)}

GoodFit(n) ==
    LET suitable == Suitable(n)
        least    == Min({FloorToFloat(gap.size) : gap \in suitable})
    IN  {gap \in suitable : FloorToFloat(gap.size) = least}

BlockInit == live = {}

Grant(block) ==
    /\ \A other \in live : other.id # block.id
    /\ live' = live \cup {block}

Serve(n) ==
    \E block \in live' \ live :
        /\ Grant(block)
        /\ block.size = n
        /\ \E gap \in GoodFit(n) : block.offset = gap.offset

(* An empty block may lie anywhere but inside another one. *)
ServeEmpty ==
    \E block \in live' \ live :
        /\ Grant(block)
        /\ block.size = 0
        /\ block.offset \in 0 .. Capacity
        /\ \A other \in live :
             block.offset <= other.offset \/ block.offset >= other.offset + other.size

GiveBack(block) == live' = live \ {block}

BlockNext ==
    \/ \E n \in Requests \ {0} : Serve(n)
    \/ 0 \in Requests /\ ServeEmpty
    \/ \E block \in live : GiveBack(block)

BlockSpec == BlockInit /\ [][BlockNext]_live
=============================================================================
