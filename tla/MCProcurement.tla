--------------------------- MODULE MCProcurement ----------------------------
(***************************************************************************)
(* TLC instances of Procurement: one run, with or without a bidding round  *)
(* on record before it.                                                    *)
(***************************************************************************)
EXTENDS Procurement

CONSTANT r1

MCRuns == {r1}
=============================================================================
