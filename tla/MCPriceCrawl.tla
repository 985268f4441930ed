----------------------------- MODULE MCPriceCrawl -----------------------------
(***************************************************************************)
(* Instances of PriceCrawl for TLC: the tables an admin fills and the      *)
(* reserves traders bring a venue to.                                      *)
(***************************************************************************)
EXTENDS PriceCrawl

CONSTANTS p, q, r

(* A pool in two neighbouring slots of three, three pools, and one alone.  *)
ThreeSlots == {<<p, p, q>>, <<r, p, q>>, <<p, p, p>>}
TwoSlots == {<<p, q>>, <<q, p>>}

Cheap == [base |-> 200, quote |-> 200]
Dear == [base |-> 200, quote |-> 600]
Dead == [base |-> 10, quote |-> 200]

LiveReserves == {Cheap, Dear}
AllReserves == LiveReserves \cup {Dead}
=============================================================================
