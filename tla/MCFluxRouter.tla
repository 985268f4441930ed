----------------------------- MODULE MCFluxRouter -----------------------------
(* An instance of FluxRouter for TLC: a pool with a hook, and two without, *)
(* which make a route of two hops.                                         *)
EXTENDS FluxRouter

CONSTANTS h, p, q

ThreePools == <<h, p, q>>
=============================================================================
