----------------------------- MODULE PolyVector ------------------------------
(***************************************************************************)
(* cth::dt::poly_vector and raw_poly_vector (cth/incl/cth/data/            *)
(* poly_vector.hpp): who owns which buffer of the heap, and what is in it. *)
(* A buffer begins with the sizes of its arrays, and a vector is its       *)
(* pointer to one.                                                         *)
(***************************************************************************)
EXTENDS Naturals

CONSTANTS
    Vectors,    \* poly_vector objects
    Contents,   \* what the arrays may hold, their sizes included
    MaxBuffers, \* bound: allocations
    NULL

ASSUME PolyVectorAssumption ==
    /\ MaxBuffers \in Nat /\ NULL \notin 0 .. MaxBuffers
    /\ Contents # {}

VARIABLES
    begin,      \* per vector its buffer, NULL once it was moved from, 0 before it exists
    heap,       \* the buffers allocated and not freed
    written,    \* per buffer its contents
    allocated,  \* how many buffers have been allocated
    dropped     \* buffers that a copy assignment stopped pointing to

polyVars == <<begin, heap, written, allocated, dropped>>

Buffers == 1 .. MaxBuffers

PolyInit ==
    /\ begin = [v \in Vectors |-> 0]
    /\ heap = {}
    /\ written \in {[b \in Buffers |-> c] : c \in {CHOOSE c \in Contents : TRUE}}
    /\ allocated = 0
    /\ dropped = {}

(* realloc() takes a new buffer and overwrites the pointer to the old one. *)
Realloc(v, content) ==
    /\ allocated < MaxBuffers
    /\ allocated' = allocated + 1
    /\ heap' = heap \cup {allocated + 1}
    /\ begin' = [begin EXCEPT ![v] = allocated + 1]
    /\ written' = [written EXCEPT ![allocated + 1] = content]

(* poly_vector(sizes), the caller filling it. *)
Construct(v, content) ==
    /\ begin[v] = 0
    /\ Realloc(v, content)
    /\ UNCHANGED dropped

(* The sizes of a vector that was moved from cannot be read. *)
Readable(v) == begin[v] \in Buffers

CopyConstruct(v, other) ==
    /\ begin[v] = 0 /\ Readable(other)
    /\ Realloc(v, written[begin[other]])
    /\ UNCHANGED dropped

(* operator=(const&): realloc() does not free what v had. *)
CopyAssign(v, other) ==
    /\ begin[v] # 0 /\ Readable(other) /\ v # other
    /\ Realloc(v, written[begin[other]])
    /\ dropped' = dropped \cup ({begin[v]} \cap Buffers)

MoveConstruct(v, other) ==
    /\ begin[v] = 0 /\ begin[other] # 0
    /\ begin' = [begin EXCEPT ![v] = begin[other], ![other] = NULL]
    /\ UNCHANGED <<heap, written, allocated, dropped>>

(* Mutation: the source keeps its pointer. *)
MoveAssignShared(v, other) ==
    /\ begin[v] # 0 /\ begin[other] # 0
    /\ heap' = heap \ {begin[v]}
    /\ begin' = [begin EXCEPT ![v] = begin[other]]
    /\ UNCHANGED <<written, allocated, dropped>>

(* operator=(&&) frees and takes over; v = std::move(v) frees its own.     *)
MoveAssign(v, other) ==
    /\ begin[v] # 0 /\ begin[other] # 0
    /\ heap' = heap \ {begin[v]}
    /\ begin' = [begin EXCEPT ![v] = begin[other], ![other] = NULL]
    /\ UNCHANGED <<written, allocated, dropped>>

Write(v, content) ==
    /\ Readable(v)
    /\ written' = [written EXCEPT ![begin[v]] = content]
    /\ UNCHANGED <<begin, heap, allocated, dropped>>

(* raw_poly_vector::swap() *)
SwapBuffers(v, other) ==
    /\ begin[v] # 0 /\ begin[other] # 0
    /\ begin' = [begin EXCEPT ![v] = begin[other], ![other] = begin[v]]
    /\ UNCHANGED <<heap, written, allocated, dropped>>

Destruct(v) ==
    /\ begin[v] # 0
    /\ heap' = heap \ {begin[v]}
    /\ begin' = [begin EXCEPT ![v] = 0]
    /\ UNCHANGED <<written, allocated, dropped>>

PolyNext ==
    \/ \E v \in Vectors, content \in Contents : Construct(v, content) \/ Write(v, content)
    \/ \E v, other \in Vectors :
         \/ CopyConstruct(v, other) \/ CopyAssign(v, other)
         \/ MoveConstruct(v, other) \/ MoveAssign(v, other)
         \/ SwapBuffers(v, other)
    \/ \E v \in Vectors : Destruct(v)

PolySpec == PolyInit /\ [][PolyNext]_polyVars

-----------------------------------------------------------------------------

PolyTypeOK ==
    /\ begin \in [Vectors -> Buffers \cup {0, NULL}]
    /\ heap \in SUBSET Buffers
    /\ written \in [Buffers -> Contents]
    /\ allocated \in 0 .. MaxBuffers
    /\ dropped \in SUBSET Buffers

(* A vector points to a buffer that is still allocated and that no other   *)
(* vector points to, so nothing is freed twice, used after it was freed or *)
(* written through two vectors; and the buffers nobody can free any more   *)
(* are those that copy assignments dropped.                                *)
BuffersOwned ==
    /\ \A v \in Vectors : Readable(v) => begin[v] \in heap \ dropped
    /\ \A v, w \in Vectors : Readable(v) /\ begin[v] = begin[w] => v = w
    /\ heap = dropped \cup {begin[v] : v \in {w \in Vectors : Readable(w)}}
=============================================================================
