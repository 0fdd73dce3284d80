----------------------------- MODULE MCMiniram ------------------------------
(***************************************************************************)
(* Node ids are mere names to allocate() and free(): the states TLC keeps  *)
(* apart (VIEW) are those that no renaming of the ids makes equal.  Name   *)
(* is injective, so that nothing else is lost.  Left out is only what both *)
(* write again before they read it: array entries below the stack pointer, *)
(* nodes on the stack, and the list links of a block in use.               *)
(***************************************************************************)
EXTENDS Miniram

(* Blocks are named by their rank in the storage. *)
Key(i) ==
    LET n == ram.node[i]
    IN  ((n.offset * 16 + n.size) * 2 + (IF n.used THEN 1 ELSE 0)) * 16 + i

Names ==
    [i \in Ids |->
        IF i \in Blocks THEN Cardinality({j \in Blocks : Key(j) < Key(i)})
        ELSE 100 + Min({p \in ram.ptr .. Nodes(ram) - 1 : ram.freeNodes[p] = i})]

View ==
    LET names == Names
        Name(i) == IF i = None THEN None ELSE names[i]
        Renamed(i) ==
            LET n == ram.node[i]
            IN  <<names[i], n.offset, n.size, n.used, Name(n.prev), Name(n.next),
                  IF n.used THEN None ELSE Name(n.binPrev),
                  IF n.used THEN None ELSE Name(n.binNext)>>
    IN  <<Nodes(ram), ram.ptr, ram.leaf, ram.top, ram.free, ram.failed,
          {Renamed(i) : i \in Blocks},
          [p \in ram.ptr .. Nodes(ram) - 1 |-> names[ram.freeNodes[p]]],
          [b \in Bins |-> Name(ram.bin[b])],
          {<<names[a.id], a.offset, a.size>> : a \in live}>>
=============================================================================
