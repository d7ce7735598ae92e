--------------------------- MODULE MCResponseCache --------------------------
(***************************************************************************)
(* TLC instances of ResponseCache: two threads of one process and one of   *)
(* another, over a shared Redis.                                           *)
(***************************************************************************)
EXTENDS ResponseCache, TLC

CONSTANTS p1, p2, t1, t2, t3

MCProcOf == (t1 :> p1) @@ (t2 :> p1) @@ (t3 :> p2)
MCSymmetry == Permutations({t1, t2})
=============================================================================
