------------------------------ MODULE Regions -------------------------------
(***************************************************************************)
(* What a cumulative-free allocator promises, without saying how: it hands *)
(* out contiguous regions of a buffer, a region handed out is disjoint     *)
(* from every region still in use, and releasing a region releases every   *)
(* region handed out before it.  cth::dt::ring_alloc (RingAlloc) is shown   *)
(* to implement it.                                                        *)
(***************************************************************************)
EXTENDS Naturals

CONSTANT Size        \* bytes in the buffer

VARIABLE regions     \* regions in use: [begin, size, token]

Region == [begin : 0 .. Size, size : Nat, token : Nat]

(* Two regions share no byte of the buffer. *)
Disjoint(r, s) == \/ r.begin + r.size <= s.begin
                  \/ s.begin + s.size <= r.begin
                  \/ r.size = 0
                  \/ s.size = 0

-----------------------------------------------------------------------------

Init == regions = {}

(* A region is handed out: it lies inside the buffer, touches no region in *)
(* use, and its token is not older than any of theirs.                     *)
Allocate == \E r \in regions' :
    /\ r \in Region
    /\ r.begin + r.size <= Size
    /\ \A s \in regions : Disjoint(r, s) /\ s.token <= r.token
    /\ regions' = regions \cup {r}

(* A region is released, and with it every region up to its token. *)
Release == \E r \in regions :
    regions' = {s \in regions : s.token > r.token}

Next == Allocate \/ Release

Spec == Init /\ [][Next]_regions
=============================================================================
