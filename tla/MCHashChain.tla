---------------------------- MODULE MCHashChain -----------------------------
(***************************************************************************)
(* TLC instances of HashChain: three threads in two processes, one of      *)
(* which was configured with a remote ledger.                              *)
(***************************************************************************)
EXTENDS HashChain, TLC

CONSTANTS w1, w2, w3, local, fabric, e1, e2

MCWriters == {w1, w2, w3}
MCLedgers == {local, fabric}
MCLedgerOf == w1 :> local @@ w2 :> fabric @@ w3 :> fabric
MCRemoteLedgers == {fabric}
MCEvents == {e1, e2}

\* The two threads of the one process are alike, and so are the events.
MCSymmetry == Permutations({w2, w3}) \cup Permutations(MCEvents)
=============================================================================
