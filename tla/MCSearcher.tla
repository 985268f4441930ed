------------------------------ MODULE MCSearcher ------------------------------
(* Pools of a thousand units, after a swap for A in its USDC pool; the     *)
(* keeper holds some of each token.                                        *)
EXTENDS Searcher

MCBand == [lMin |-> 50000, lMax |-> 100000, maxMint |-> 2000, breaker |-> 250]
MCBalanced == [pair |-> [s \in Sides |-> 1000], pool |-> [s \in Sides |-> 1000],
               quote |-> [s \in Sides |-> 1000], supply |-> [s \in Sides |-> 2000]]
MCMarkets == {AfterLegBuy(MCBalanced, "A", 120, 25)}
MCWallet == [t \in Tokens |-> 200]
=============================================================================
