----------------------------- MODULE MCFluxIndexer -----------------------------
(* An instance of FluxIndexer for TLC: a pool with a hook and one without. *)
EXTENDS FluxIndexer

CONSTANTS h, p

TwoPools == <<h, p>>
=============================================================================
