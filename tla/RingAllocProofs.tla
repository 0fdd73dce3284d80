-------------------------- MODULE RingAllocProofs ---------------------------
(***************************************************************************)
(* Proofs about RingAlloc: the inductive invariant, that live allocations  *)
(* never overlap, that no free is lost, that max_alloc() is exact, and     *)
(* that the ring allocator implements the region allocator, for every      *)
(* number of threads, every buffer size and every set of request sizes.    *)
(***************************************************************************)
EXTENDS RingAlloc, TLAPS

-----------------------------------------------------------------------------
(* Arithmetic of positions.                                                *)

(* Euclidean division: a position is a number of full turns and a byte. *)
LEMMA Turns ==
    ASSUME NEW p \in Nat
    PROVE  /\ p \div Size \in Int
           /\ p = Size * (p \div Size) + (p % Size)
           /\ p % Size \in 0 .. Size - 1
BY RingAllocAssumption

(* The byte of a position is determined by any such decomposition. *)
LEMMA TurnsUnique ==
    ASSUME NEW q \in Int, NEW r \in 0 .. Size - 1
    PROVE  (Size * q + r) % Size = r
BY RingAllocAssumption

(* The rest of the current turn takes a position to the start of the next. *)
LEMMA NextTurn ==
    ASSUME NEW p \in Nat
    PROVE  (p + (Size - (p % Size))) % Size = 0
<1> DEFINE q == p \div Size
<1>1. q \in Int /\ p = Size * q + (p % Size) /\ p % Size \in 0 .. Size - 1
  BY Turns
<1>2. p + (Size - (p % Size)) = Size * q + Size
  BY <1>1, RingAllocAssumption
<1>3. Size * q + Size = Size * (q + 1) + 0
  BY <1>1, RingAllocAssumption
<1>4. (Size * (q + 1) + 0) % Size = 0
  BY <1>1, TurnsUnique, RingAllocAssumption
<1> QED BY <1>2, <1>3, <1>4

(* Small non-negative differences do not wrap around a word. *)
LEMMA MinusExact ==
    ASSUME NEW a \in Nat, NEW b \in Nat, b <= a, a - b < Word
    PROVE  Minus(a, b) = a - b
BY RingAllocAssumption DEF Minus

(* What a request consumes covers it, and at most one rest of the buffer. *)
LEMMA TotalSizeBounds ==
    ASSUME NEW h \in Nat, NEW n \in Nat
    PROVE  /\ TotalSize(h, n) \in Nat
           /\ n <= TotalSize(h, n)
           /\ TotalSize(h, n) <= n + Size
BY Turns, RingAllocAssumption DEF TotalSize, Wraps

(* A request is placed inside the buffer, at the byte of its first position. *)
LEMMA Placement ==
    ASSUME NEW h \in Nat, NEW n \in Nat, n <= Size
    PROVE  /\ Begin(h, n) \in 0 .. Size - 1
           /\ Begin(h, n) + n <= Size
           /\ Begin(h, n) = (h + TotalSize(h, n) - n) % Size
<1>1. h % Size \in 0 .. Size - 1
  BY Turns
<1>2. CASE Wraps(h, n)
  <2>1. h + TotalSize(h, n) - n = h + (Size - (h % Size))
    BY <1>1, <1>2, RingAllocAssumption DEF TotalSize
  <2>2. (h + (Size - (h % Size))) % Size = 0
    BY NextTurn
  <2> QED BY <1>2, <2>1, <2>2, RingAllocAssumption DEF Begin
<1>3. CASE ~Wraps(h, n)
  <2>1. h + TotalSize(h, n) - n = h
    BY <1>3 DEF TotalSize
  <2>2. Begin(h, n) = h % Size /\ (h % Size) + n <= Size
    BY <1>1, <1>3, RingAllocAssumption DEF Begin, Wraps
  <2> QED BY <1>1, <2>1, <2>2
<1> QED BY <1>2, <1>3

(* Two contiguous pieces that follow one another within one buffer length *)
(* of positions occupy different bytes.                                   *)
LEMMA WindowDisjoint ==
    ASSUME NEW p \in Nat, NEW m \in Nat, NEW q \in Nat, NEW n \in Nat,
           p + m <= q, q + n <= p + Size,
           (p % Size) + m <= Size
    PROVE  \/ (p % Size) + m <= q % Size
           \/ (q % Size) + n <= p % Size
<1> DEFINE i == p \div Size
           j == q \div Size
           x == p % Size
           y == q % Size
<1>1. i \in Int /\ p = Size * i + x /\ x \in 0 .. Size - 1
  BY Turns
<1>2. j \in Int /\ q = Size * j + y /\ y \in 0 .. Size - 1
  BY Turns
<1>3. PICK d \in Int : d = j - i
  BY <1>1, <1>2
<1>4. Size * j = Size * i + Size * d
  BY <1>1, <1>2, <1>3, RingAllocAssumption
<1> HIDE DEF i, j, x, y
<1>5. CASE d = 0
  <2>1. Size * d = 0
    BY <1>5, RingAllocAssumption
  <2>2. Size * i \in Int /\ Size * j \in Int
    BY <1>1, <1>2, RingAllocAssumption
  <2>3. x + m <= y
    BY <1>1, <1>2, <1>4, <2>1, <2>2
  <2> QED BY <2>3 DEF x, y
<1>6. CASE d = 1
  <2>1. Size * d = Size
    BY <1>6, RingAllocAssumption
  <2>2. Size * i \in Int /\ Size * j \in Int
    BY <1>1, <1>2, RingAllocAssumption
  <2>3. y + n <= x
    BY <1>1, <1>2, <1>4, <2>1, <2>2, RingAllocAssumption
  <2> QED BY <2>3 DEF x, y
<1>7. CASE d >= 2
  <2>1. Size * d >= 2 * Size
    BY <1>3, <1>7, RingAllocAssumption
  <2>2. Size * i \in Int /\ Size * j \in Int /\ Size * d \in Int
    BY <1>1, <1>2, <1>3, RingAllocAssumption
  <2> QED BY <1>1, <1>2, <1>4, <2>1, <2>2, RingAllocAssumption
<1>8. CASE d <= -1
  <2>1. Size * d <= -Size
    BY <1>3, <1>8, RingAllocAssumption
  <2>2. Size * i \in Int /\ Size * j \in Int /\ Size * d \in Int
    BY <1>1, <1>2, <1>3, RingAllocAssumption
  <2> QED BY <1>1, <1>2, <1>4, <2>1, <2>2, RingAllocAssumption
<1> QED BY <1>3, <1>5, <1>6, <1>7, <1>8

-----------------------------------------------------------------------------
(* The inductive invariant.                                                *)

USE RingAllocAssumption

LEMMA InitInd == Init => IndInv
BY DEF Init, IndInv, TypeOK, WindowBounded, ThreadInv, HeldInv, OrderedInv,
       ReleasedInv, Allocation

(* The fields of an allocation handed out. *)
LEMMA HeldType ==
    ASSUME TypeOK, NEW a \in held
    PROVE  /\ a \in Allocation
           /\ a.begin \in 0 .. Size - 1
           /\ a.size \in Sizes /\ a.size \in Nat
           /\ a.token \in Nat
<1>1. a \in Allocation
  BY DEF TypeOK
<1>2. a.size \in Sizes /\ a.begin \in 0 .. Size - 1 /\ a.token \in Nat
  BY <1>1 DEF Allocation
<1>3. \A n \in Sizes : n \in Nat
  OBVIOUS
<1> QED BY <1>1, <1>2, <1>3

(* A request that passed the space check fits without wrapping around a   *)
(* word, provided the copy of _head is the current one.                   *)
LEMMA FitsExact ==
    ASSUME NEW n \in Sizes, head \in Nat, tail \in Nat, tail <= head,
           head - tail <= Size
    PROVE  /\ Minus(head + TotalSize(head, n), tail)
                = head + TotalSize(head, n) - tail
           /\ Fits(head, tail, n) <=> head + TotalSize(head, n) - tail <= Size
<1>1. n \in Nat /\ n <= 2 * Size
  OBVIOUS
<1>2. TotalSize(head, n) \in Nat /\ TotalSize(head, n) <= n + Size
  BY <1>1, TotalSizeBounds
<1>3. head + TotalSize(head, n) - tail < Word
  BY <1>1, <1>2
<1>4. Minus(head + TotalSize(head, n), tail) = head + TotalSize(head, n) - tail
  BY <1>2, <1>3, MinusExact
<1> QED BY <1>4 DEF Fits

LEMMA AllocCallInd ==
    ASSUME IndInv, NEW t \in Threads, NEW n \in Sizes, AllocCall(t, n)
    PROVE  IndInv'
<1> USE DEF IndInv, AllocCall
<1>1. TypeOK'
  BY DEF TypeOK
<1>2. WindowBounded'
  BY DEF WindowBounded
<1>3. ThreadInv'
  BY DEF TypeOK, ThreadInv
<1>4. HeldInv' /\ OrderedInv'
  BY DEF HeldInv, OrderedInv
<1>5. ReleasedInv'
  BY DEF TypeOK, ReleasedInv
<1> QED BY <1>1, <1>2, <1>3, <1>4, <1>5

LEMMA AllocLoadTailInd ==
    ASSUME IndInv, NEW t \in Threads, AllocLoadTail(t)
    PROVE  IndInv'
<1> USE DEF IndInv, AllocLoadTail, Return
<1>1. TypeOK'
  BY DEF TypeOK
<1>2. WindowBounded'
  BY DEF WindowBounded
<1>3. ThreadInv'
  <2> SUFFICES ASSUME NEW u \in Threads PROVE ThreadInv!(u)'
    BY DEF ThreadInv
  <2>1. CASE u = t /\ Fits(seen[t], tail, arg[t])
    <3>1. seen[t] = head => head + TotalSize(head, arg[t]) - tail <= Size
      BY <2>1, FitsExact DEF TypeOK, WindowBounded, ThreadInv
    <3> QED BY <2>1, <3>1 DEF TypeOK, ThreadInv
  <2>2. CASE ~(u = t /\ Fits(seen[t], tail, arg[t]))
    BY <2>2 DEF TypeOK, ThreadInv
  <2> QED BY <2>1, <2>2
<1>4. HeldInv' /\ OrderedInv'
  BY DEF HeldInv, OrderedInv
<1>5. ReleasedInv'
  BY DEF TypeOK, ReleasedInv
<1> QED BY <1>1, <1>2, <1>3, <1>4, <1>5

LEMMA AllocCommitInd ==
    ASSUME IndInv, NEW t \in Threads, AllocCommit(t)
    PROVE  IndInv'
<1> USE DEF IndInv, AllocCommit, Return
<1> DEFINE n == arg[t]
           total == TotalSize(head, n)
           new == [begin |-> Begin(head, n), size |-> n, token |-> head']
<1>1. /\ head \in Nat /\ tail \in Nat /\ released \in Nat
      /\ n \in Sizes /\ n \in Nat
      /\ head + total - tail <= Size
  BY DEF TypeOK, ThreadInv
<1>2. total \in Nat /\ n <= total
  BY <1>1, TotalSizeBounds
<1>3. /\ tail <= released /\ released <= head
      /\ head' = head + total /\ head' \in Nat
  BY <1>1, <1>2 DEF WindowBounded
<1>4. n <= Size
  BY <1>1, <1>2, <1>3
<1>5. /\ Begin(head, n) \in 0 .. Size - 1
      /\ Begin(head, n) + n <= Size
      /\ Begin(head, n) = (head + total - n) % Size
  BY <1>1, <1>4, Placement
<1>6. held' = held \cup {new} /\ new \in Allocation
  BY <1>1, <1>3, <1>5 DEF Allocation
<1>7. /\ new.token = head' /\ new.size = n /\ new.begin = Begin(head, n)
      /\ released <= new.token - new.size
      /\ head <= new.token - new.size
  BY <1>1, <1>2, <1>3
<1> HIDE DEF new, total
<1>8. TypeOK'
  BY <1>3, <1>6 DEF TypeOK
<1>9. WindowBounded'
  BY <1>1, <1>2, <1>3 DEF WindowBounded
<1>10. ThreadInv'
  <2> SUFFICES ASSUME NEW u \in Threads PROVE ThreadInv!(u)'
    BY DEF ThreadInv
  <2>1. CASE u = t
    BY <2>1 DEF TypeOK
  <2>2. CASE u # t
    <3>1. /\ pc'[u] = pc[u] /\ seen'[u] = seen[u] /\ arg'[u] = arg[u]
          /\ seen[u] \in Nat
      BY <2>2 DEF TypeOK
    <3>2. pc[u] \in {"loadTail", "casHead"} =>
             arg[u] \in Sizes /\ seen[u] <= head
      BY DEF ThreadInv
    <3>3. CASE total = 0
      <4>1. head' = head
        BY <1>1, <1>3, <3>3
      <4> QED BY <3>1, <4>1 DEF ThreadInv
    <3>4. CASE total # 0
      <4>1. head < head'
        BY <1>1, <1>2, <1>3, <3>4
      <4>2. pc[u] \in {"loadTail", "casHead"} => seen[u] < head'
        BY <1>1, <1>3, <3>1, <3>2, <4>1
      <4> QED BY <1>3, <3>1, <3>2, <4>2 DEF ThreadInv
    <3> QED BY <3>3, <3>4
  <2> QED BY <2>1, <2>2
<1>11. HeldInv'
  <2> SUFFICES ASSUME NEW a \in held' PROVE HeldInv!(a)'
    BY DEF HeldInv
  <2>1. CASE a \in held
    <3>1. a.token \in Nat /\ a.token <= head
      BY <2>1 DEF TypeOK, Allocation, HeldInv
    <3>2. a.token <= head'
      BY <1>1, <1>2, <1>3, <3>1
    <3> QED BY <2>1, <3>2 DEF HeldInv
  <2>2. CASE a = new
    BY <1>1, <1>2, <1>3, <1>5, <1>7, <2>2
  <2> QED BY <1>6, <2>1, <2>2
<1>12. OrderedInv'
  <2> SUFFICES ASSUME NEW a \in held', NEW b \in held', a # b
               PROVE  \/ a.token <= b.token - b.size
                      \/ b.token <= a.token - a.size
    BY DEF OrderedInv
  <2>1. CASE a \in held /\ b \in held
    BY <2>1 DEF OrderedInv
  <2>2. \A c \in held : c.token <= new.token - new.size
    <3> TAKE c \in held
    <3>1. c.token \in Nat /\ c.token <= head
      BY DEF TypeOK, Allocation, HeldInv
    <3> QED BY <1>1, <1>3, <1>7, <3>1
  <2> QED BY <1>6, <2>1, <2>2
<1>13. ReleasedInv'
  BY DEF TypeOK, ReleasedInv
<1> QED BY <1>8, <1>9, <1>10, <1>11, <1>12, <1>13

LEMMA AllocRetryInd ==
    ASSUME IndInv, NEW t \in Threads, AllocRetry(t)
    PROVE  IndInv'
<1> USE DEF IndInv, AllocRetry
<1>1. TypeOK'
  BY DEF TypeOK
<1>2. WindowBounded'
  BY DEF WindowBounded
<1>3. ThreadInv'
  BY DEF TypeOK, ThreadInv
<1>4. HeldInv' /\ OrderedInv'
  BY DEF HeldInv, OrderedInv
<1>5. ReleasedInv'
  BY DEF TypeOK, ReleasedInv
<1> QED BY <1>1, <1>2, <1>3, <1>4, <1>5

LEMMA FreeCallInd ==
    ASSUME IndInv, NEW t \in Threads, NEW a \in held, FreeCall(t, a)
    PROVE  IndInv'
<1> USE DEF IndInv, FreeCall
<1>1. /\ a.token \in Nat /\ a.size \in Nat /\ a.token <= head
      /\ head \in Nat /\ tail \in Nat /\ released \in Nat
      /\ released' \in Nat /\ released <= released' /\ a.token <= released'
      /\ released' = a.token \/ released' = released
  BY HeldType DEF TypeOK, HeldInv
<1>2. TypeOK'
  BY <1>1 DEF TypeOK
<1>3. WindowBounded'
  BY <1>1 DEF WindowBounded
<1>4. ThreadInv'
  <2> SUFFICES ASSUME NEW u \in Threads PROVE ThreadInv!(u)'
    BY DEF ThreadInv
  <2>1. CASE u = t
    BY <1>1, <2>1 DEF TypeOK
  <2>2. CASE u # t
    <3>1. /\ pc'[u] = pc[u] /\ seen'[u] = seen[u] /\ arg'[u] = arg[u]
          /\ arg[u] \in Nat
      BY <2>2 DEF TypeOK
    <3>2. pc[u] = "casTail" => seen[u] <= tail /\ arg[u] <= released'
      BY <1>1, <3>1 DEF ThreadInv
    <3> QED BY <3>1, <3>2 DEF ThreadInv
  <2> QED BY <2>1, <2>2
<1>5. HeldInv'
  <2> SUFFICES ASSUME NEW b \in held' PROVE HeldInv!(b)'
    BY DEF HeldInv
  <2>1. b \in held /\ b # a /\ b.token \in Nat /\ b.size \in Nat
    BY HeldType
  <2>2. b.token <= released' \/ released' <= b.token - b.size
    <3>1. b.token <= released \/ released <= b.token - b.size
      BY <2>1 DEF HeldInv
    <3>2. b.token <= a.token - a.size \/ a.token <= b.token - b.size
      BY <2>1 DEF OrderedInv
    <3> QED BY <1>1, <2>1, <3>1, <3>2
  <2> QED BY <2>1, <2>2 DEF HeldInv
<1>6. OrderedInv'
  BY DEF OrderedInv
<1>7. ReleasedInv'
  <2>1. CASE released' = a.token
    BY <2>1 DEF TypeOK, ReleasedInv
  <2>2. CASE released' = released
    BY <2>2 DEF TypeOK, ReleasedInv
  <2> QED BY <1>1, <2>1, <2>2
<1> QED BY <1>2, <1>3, <1>4, <1>5, <1>6, <1>7

LEMMA FreeSupersededInd ==
    ASSUME IndInv, NEW t \in Threads, FreeSuperseded(t)
    PROVE  IndInv'
<1> USE DEF IndInv, FreeSuperseded, Return
<1>1. TypeOK'
  BY DEF TypeOK
<1>2. WindowBounded'
  BY DEF WindowBounded
<1>3. ThreadInv'
  BY DEF TypeOK, ThreadInv
<1>4. HeldInv' /\ OrderedInv'
  BY DEF HeldInv, OrderedInv
<1>5. ReleasedInv'
  <2>1. arg[t] = released => tail = released
    BY DEF TypeOK, WindowBounded, ThreadInv
  <2> QED BY <2>1 DEF TypeOK, ReleasedInv
<1> QED BY <1>1, <1>2, <1>3, <1>4, <1>5

LEMMA FreeCommitInd ==
    ASSUME IndInv, NEW t \in Threads, FreeCommit(t)
    PROVE  IndInv'
<1> USE DEF IndInv, FreeCommit, Return
<1>1. /\ head \in Nat /\ tail \in Nat /\ released \in Nat
      /\ tail' \in Nat /\ tail' = arg[t] /\ tail < tail' /\ tail' <= released
      /\ released <= head /\ head - tail <= Size
  BY DEF TypeOK, WindowBounded, ThreadInv
<1>2. TypeOK'
  BY <1>1 DEF TypeOK
<1>3. WindowBounded'
  BY <1>1 DEF WindowBounded
<1>4. ThreadInv'
  <2> SUFFICES ASSUME NEW u \in Threads PROVE ThreadInv!(u)'
    BY DEF ThreadInv
  <2>1. CASE u = t
    BY <2>1 DEF TypeOK
  <2>2. CASE u # t
    <3>1. /\ pc'[u] = pc[u] /\ seen'[u] = seen[u] /\ arg'[u] = arg[u]
          /\ seen[u] \in Nat /\ arg[u] \in Nat
      BY <2>2 DEF TypeOK
    <3>2. pc[u] = "casHead" /\ seen[u] = head =>
             head + TotalSize(head, arg[u]) - tail' <= Size
      <4> SUFFICES ASSUME pc[u] = "casHead", seen[u] = head
                   PROVE  head + TotalSize(head, arg[u]) - tail' <= Size
        OBVIOUS
      <4>1. TotalSize(head, arg[u]) \in Nat
        BY <1>1, <3>1, TotalSizeBounds
      <4>2. head + TotalSize(head, arg[u]) - tail <= Size
        BY DEF ThreadInv
      <4> QED BY <1>1, <4>1, <4>2
    <3>3. pc[u] = "casTail" => seen[u] <= tail'
      BY <1>1, <3>1 DEF ThreadInv
    <3> QED BY <3>1, <3>2, <3>3 DEF ThreadInv
  <2> QED BY <2>1, <2>2
<1>5. HeldInv' /\ OrderedInv'
  BY DEF HeldInv, OrderedInv
<1>6. ReleasedInv'
  BY <1>1 DEF TypeOK, ReleasedInv
<1> QED BY <1>2, <1>3, <1>4, <1>5, <1>6

LEMMA FreeRetryInd ==
    ASSUME IndInv, NEW t \in Threads, FreeRetry(t)
    PROVE  IndInv'
<1> USE DEF IndInv, FreeRetry
<1>1. TypeOK'
  BY DEF TypeOK
<1>2. WindowBounded'
  BY DEF WindowBounded
<1>3. ThreadInv'
  BY DEF TypeOK, ThreadInv
<1>4. HeldInv' /\ OrderedInv'
  BY DEF HeldInv, OrderedInv
<1>5. ReleasedInv'
  BY DEF TypeOK, ReleasedInv
<1> QED BY <1>1, <1>2, <1>3, <1>4, <1>5

LEMMA NextInd == IndInv /\ [Next]_vars => IndInv'
<1> SUFFICES ASSUME IndInv, [Next]_vars PROVE IndInv'
  OBVIOUS
<1>1. CASE UNCHANGED vars
  BY <1>1 DEF vars, IndInv, TypeOK, WindowBounded, ThreadInv, HeldInv,
              OrderedInv, ReleasedInv
<1>2. ASSUME NEW t \in Threads, NEW n \in Sizes, AllocCall(t, n) PROVE IndInv'
  BY <1>2, AllocCallInd
<1>3. ASSUME NEW t \in Threads, AllocLoadTail(t) PROVE IndInv'
  BY <1>3, AllocLoadTailInd
<1>4. ASSUME NEW t \in Threads, AllocCommit(t) PROVE IndInv'
  BY <1>4, AllocCommitInd
<1>5. ASSUME NEW t \in Threads, AllocRetry(t) PROVE IndInv'
  BY <1>5, AllocRetryInd
<1>6. ASSUME NEW t \in Threads, NEW a \in held, FreeCall(t, a) PROVE IndInv'
  BY <1>6, FreeCallInd
<1>7. ASSUME NEW t \in Threads, FreeSuperseded(t) PROVE IndInv'
  BY <1>7, FreeSupersededInd
<1>8. ASSUME NEW t \in Threads, FreeCommit(t) PROVE IndInv'
  BY <1>8, FreeCommitInd
<1>9. ASSUME NEW t \in Threads, FreeRetry(t) PROVE IndInv'
  BY <1>9, FreeRetryInd
<1> QED BY <1>1, <1>2, <1>3, <1>4, <1>5, <1>6, <1>7, <1>8, <1>9 DEF Next

(* The invariant that every safety result rests on: at every moment the   *)
(* positions, the copies the threads hold and the allocations handed out  *)
(* are as IndInv says.                                                    *)
THEOREM Invariance == Spec => []IndInv
BY InitInd, NextInd, PTL DEF Spec

-----------------------------------------------------------------------------
(* What follows from the invariant.                                        *)

(* Every variable keeps its type. *)
THEOREM TypeCorrect == Spec => []TypeOK
BY Invariance, PTL DEF IndInv

(* Bytes are freed only when given up, and the buffer is never overcommitted. *)
THEOREM WindowCorrect == Spec => []WindowBounded
BY Invariance, PTL DEF IndInv

(* Two live allocations, the first one earlier, occupy different bytes: they *)
(* lie within one buffer length of positions.                              *)
LEMMA OrderedDisjoint ==
    ASSUME IndInv, NEW a \in Live, NEW b \in Live,
           a.token <= b.token - b.size
    PROVE  \/ a.begin + a.size <= b.begin
           \/ b.begin + b.size <= a.begin
<1> DEFINE p == a.token - a.size
           q == b.token - b.size
<1>1. /\ head \in Nat /\ tail \in Nat /\ released \in Nat
      /\ tail <= released /\ released <= head /\ head - tail <= Size
  BY DEF IndInv, TypeOK, WindowBounded
<1>2. /\ a \in held /\ b \in held
      /\ a.token > released /\ b.token > released
  BY DEF Live
<1>3. /\ a.token \in Nat /\ a.size \in Nat /\ b.token \in Nat /\ b.size \in Nat
      /\ a.begin \in Nat /\ b.begin \in Nat
  BY <1>2, HeldType DEF IndInv
<1>4. /\ b.token <= head
      /\ a.begin + a.size <= Size
      /\ a.begin = p % Size
      /\ b.begin = q % Size
      /\ a.token <= released \/ released <= p
      /\ b.token <= released \/ released <= q
  BY <1>2 DEF IndInv, HeldInv
<1>5. /\ p \in Int /\ q \in Int
      /\ p + a.size = a.token /\ q + b.size = b.token
      /\ a.token <= q
  BY <1>3
<1> HIDE DEF p, q
<1>6. released <= p /\ released <= q
  BY <1>1, <1>2, <1>3, <1>4
<1>7. /\ p \in Nat /\ q \in Nat /\ p + a.size <= q
       /\ q + b.size <= p + Size
  BY <1>1, <1>3, <1>4, <1>5, <1>6
<1>8. \/ (p % Size) + a.size <= q % Size
      \/ (q % Size) + b.size <= p % Size
  BY <1>3, <1>4, <1>7, WindowDisjoint
<1> QED BY <1>4, <1>8

LEMMA IndNoOverlap == IndInv => NoOverlap
<1> SUFFICES ASSUME IndInv, NEW a \in Live
             PROVE  /\ a.begin + a.size <= Size
                    /\ \A b \in Live \ {a} : Abstract!Disjoint(a, b)
  BY DEF NoOverlap
<1>1. a.begin + a.size <= Size
  BY DEF IndInv, HeldInv, Live
<1>2. ASSUME NEW b \in Live \ {a}
      PROVE  Abstract!Disjoint(a, b)
  <2>1. a.token <= b.token - b.size \/ b.token <= a.token - a.size
    BY DEF IndInv, OrderedInv, Live
  <2>2. \/ a.begin + a.size <= b.begin
        \/ b.begin + b.size <= a.begin
    BY <2>1, OrderedDisjoint
  <2> QED BY <2>2 DEF Abstract!Disjoint
<1> QED BY <1>1, <1>2

(* Allocations in use never share a byte, whatever the interleaving. *)
THEOREM NoOverlapCorrect == Spec => []NoOverlap
BY Invariance, IndNoOverlap, PTL

(* No cumulative free is lost to a race. *)
THEOREM FreeNotLostCorrect == Spec => []FreeNotLost
<1>1. IndInv => FreeNotLost
  BY DEF IndInv, ReleasedInv, FreeNotLost
<1> QED BY <1>1, Invariance, PTL

(* max_alloc() is the largest size that fits: by cases on whether the tail *)
(* is in the same turn of the buffer as the head or in the one before.     *)
LEMMA IndMaxAllocExact == IndInv => MaxAllocExact
<1> SUFFICES ASSUME IndInv, NEW n \in 0 .. Size + 1
             PROVE  Fits(head, tail, n) <=> n <= MaxAlloc(head, tail)
  BY DEF MaxAllocExact
<1> DEFINE x == head % Size
           y == tail % Size
           used == head - tail
           total == TotalSize(head, n)
<1>1. /\ head \in Nat /\ tail \in Nat /\ tail <= head /\ used <= Size
      /\ used \in Nat
  BY DEF IndInv, TypeOK, WindowBounded
<1>2. x \in 0 .. Size - 1 /\ y \in 0 .. Size - 1
  BY <1>1, Turns
<1>3. used = x - y \/ used = Size + x - y
  <2>1. PICK i \in Int : head = Size * i + x
    BY <1>1, Turns
  <2>2. PICK j \in Int : tail = Size * j + y
    BY <1>1, Turns
  <2>3. PICK d \in Int : d = i - j
    OBVIOUS
  <2>4. Size * i = Size * j + Size * d
    BY <2>3
  <2>5. Size * i \in Int /\ Size * j \in Int /\ Size * d \in Int
    OBVIOUS
  <2> HIDE DEF x, y
  <2>6. used = Size * d + x - y
    BY <1>1, <1>2, <2>1, <2>2, <2>4, <2>5
  <2>7. d <= -1 => Size * d <= -Size
    OBVIOUS
  <2>8. d >= 2 => Size * d >= 2 * Size
    OBVIOUS
  <2>9. d = 0 \/ d = 1
    BY <1>1, <1>2, <2>5, <2>6, <2>7, <2>8
  <2>10. (d = 0 => Size * d = 0) /\ (d = 1 => Size * d = Size)
    OBVIOUS
  <2> QED BY <1>2, <2>5, <2>6, <2>9, <2>10
<1>4. n \in Nat /\ total \in Nat /\ n <= total /\ total <= n + Size
  BY <1>1, TotalSizeBounds
<1>5. total = IF x + n > Size THEN n + (Size - x) ELSE n
  BY DEF TotalSize, Wraps
<1>6. Fits(head, tail, n) <=> used + total <= Size
  <2>1. Minus(head + total, tail) = head + total - tail
    BY <1>1, <1>4, MinusExact
  <2> QED BY <1>1, <1>4, <2>1 DEF Fits
<1>7. MaxAlloc(head, tail) = IF used >= Size THEN 0
                             ELSE IF x < y THEN y - x
                             ELSE IF Size - x >= y THEN Size - x ELSE y
  <2>1. Minus(head, tail) = used
    BY <1>1, MinusExact
  <2> QED BY <2>1 DEF MaxAlloc
<1> HIDE DEF x, y, used, total
<1> QED BY <1>1, <1>2, <1>3, <1>4, <1>5, <1>6, <1>7

(* max_alloc() is exact at every reachable position of head and tail. *)
THEOREM MaxAllocCorrect == Spec => []MaxAllocExact
BY Invariance, IndMaxAllocExact, PTL

-----------------------------------------------------------------------------
(* The ring allocator implements the region allocator.                     *)

LEMMA CommitRefines ==
    ASSUME IndInv, IndInv', NoOverlap', NEW t \in Threads, AllocCommit(t)
    PROVE  Abstract!Next \/ Live' = Live
<1> DEFINE new == [begin |-> Begin(head, arg[t]), size |-> arg[t],
                   token |-> head']
<1>1. /\ held' = held \cup {new} /\ released' = released
      /\ new.token = head'
  BY DEF AllocCommit
<1> HIDE DEF new
<1>2. CASE new.token > released /\ new \notin held
  <2>1. Live' = Live \cup {new} /\ new \in Live' /\ new \notin Live
    BY <1>1, <1>2 DEF Live
  <2>2. TypeOK' /\ HeldInv' /\ new \in held'
    BY <1>1 DEF IndInv
  <2>3. /\ new.begin \in 0 .. Size - 1 /\ new.size \in Nat /\ new.token \in Nat
        /\ new \in Allocation
    <3>1. new \in Allocation
      BY <2>2 DEF TypeOK
    <3>2. new.begin \in 0 .. Size - 1 /\ new.size \in Sizes /\ new.token \in Nat
      BY <3>1 DEF Allocation
    <3>3. \A n \in Sizes : n \in Nat
      OBVIOUS
    <3> QED BY <3>1, <3>2, <3>3
  <2>4. new \in Abstract!Region
    BY <2>3 DEF Allocation, Abstract!Region
  <2>5. new.begin + new.size <= Size
    BY <2>2 DEF HeldInv
  <2>6. ASSUME NEW s \in Live
        PROVE  Abstract!Disjoint(new, s) /\ s.token <= new.token
    <3>1. s \in Live' \ {new}
      BY <2>1
    <3>2. Abstract!Disjoint(new, s)
      BY <2>1, <2>2, <3>1 DEF NoOverlap, Abstract!Disjoint
    <3>3. s.token <= head'
      BY <2>2, <3>1 DEF HeldInv, Live
    <3> QED BY <1>1, <3>2, <3>3
  <2> QED BY <2>1, <2>4, <2>5, <2>6 DEF Abstract!Next, Abstract!Allocate
<1>3. CASE ~(new.token > released /\ new \notin held)
  BY <1>1, <1>3 DEF Live
<1> QED BY <1>2, <1>3

LEMMA FreeCallRefines ==
    ASSUME IndInv, NEW t \in Threads, NEW a \in held, FreeCall(t, a)
    PROVE  Abstract!Next \/ Live' = Live
<1>1. /\ held' = held \ {a}
      /\ released' = IF a.token > released THEN a.token ELSE released
      /\ released \in Nat
  BY DEF FreeCall, IndInv, TypeOK
<1>2. \A b \in held : b.token \in Nat
  BY HeldType DEF IndInv
<1>3. CASE a.token > released
  <2>1. a \in Live
    BY <1>3 DEF Live
  <2>2. Live' = {s \in Live : s.token > a.token}
    BY <1>1, <1>2, <1>3 DEF Live
  <2> QED BY <2>1, <2>2 DEF Abstract!Next, Abstract!Release
<1>4. CASE ~(a.token > released)
  BY <1>1, <1>4 DEF Live
<1> QED BY <1>3, <1>4

LEMMA NextRefines ==
    IndInv /\ IndInv' /\ NoOverlap' /\ [Next]_vars => [Abstract!Next]_Live
<1> SUFFICES ASSUME IndInv, IndInv', NoOverlap', [Next]_vars
             PROVE  Abstract!Next \/ Live' = Live
  OBVIOUS
<1>1. CASE held' = held /\ released' = released
  BY <1>1 DEF Live
<1>2. ASSUME NEW t \in Threads, AllocCommit(t)
      PROVE  Abstract!Next \/ Live' = Live
  BY <1>2, CommitRefines
<1>3. ASSUME NEW t \in Threads, NEW a \in held, FreeCall(t, a)
      PROVE  Abstract!Next \/ Live' = Live
  BY <1>3, FreeCallRefines
<1> QED BY <1>1, <1>2, <1>3
        DEF Next, vars, AllocCall, AllocLoadTail, AllocRetry, FreeSuperseded,
            FreeCommit, FreeRetry, Return

(* Every behaviour of the ring allocator, seen through the allocations in  *)
(* use, is a behaviour of the region allocator.                            *)
THEOREM Refinement == Spec => ImplementsRegions
<1>1. Init => Abstract!Init
  BY DEF Init, Abstract!Init, Live
<1> QED BY <1>1, NextRefines, Invariance, NoOverlapCorrect, PTL
        DEF Spec, ImplementsRegions, Abstract!Spec
=============================================================================
