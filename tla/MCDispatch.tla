----------------------------- MODULE MCDispatch -----------------------------
(***************************************************************************)
(* TLC instances of Dispatch: a heavy and a light order, a large truck and *)
(* a cheap small one, two runs.                                            *)
(***************************************************************************)
EXTENDS Dispatch, TLC

CONSTANTS heavy, light, large, small

MCTons == (heavy :> 20) @@ (light :> 5)
MCCapacity == (large :> 30) @@ (small :> 10)
MCCostPerKm == (large :> 300) @@ (small :> 250)
=============================================================================
