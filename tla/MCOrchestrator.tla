--------------------------- MODULE MCOrchestrator ---------------------------
(***************************************************************************)
(* TLC instances of Orchestrator and, in it, of Energy.                    *)
(***************************************************************************)
EXTENDS Orchestrator, TLC

CONSTANTS mill, t1, t2

MCFacilities == <<mill>>
MCAgentOrder == <<"logistics", "energy", "orchestrator">>
MCThreads    == {t1, t2}
MCSymmetry   == Permutations(MCThreads)
=============================================================================
