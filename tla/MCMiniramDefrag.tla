-------------------------- MODULE MCMiniramDefrag ---------------------------
(***************************************************************************)
(* Until the first call of clear(), defragment() or resize() ids are mere  *)
(* names, as in MCMiniram (OnceView).  Afterwards the entries of the array *)
(* below the stack pointer come back to use, and every state counts.       *)
(***************************************************************************)
EXTENDS MiniramDefrag, MCMiniram

OnceView ==
    <<View, maintained,
      IF report = NoReport THEN report
      ELSE LET names == Names
           IN  <<report.moves,
                 {<<names[a.id], a.offset, a.size>> : a \in report.before}>>>>

FullView == <<ram, live, report, maintained>>
=============================================================================
