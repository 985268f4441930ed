------------------------------ MODULE QuoteCheck ------------------------------
(***************************************************************************)
(* What the quotes of the flux router service should be: the best there    *)
(* is, and real.                                                           *)
(***************************************************************************)
EXTENDS FluxQuote, MedianCheck

CONSTANTS Token,        \* a token with pools against SOL and USDC
          FluxDepths,   \* reserves of the FluxBeam pools
          Swaps         \* amounts to swap there

ASSUME QuoteCheckAssumption ==
    /\ FluxDepths \subseteq Nat /\ Swaps \subseteq Nat
    /\ Wsol # Usdc /\ Token \notin {Wsol, Usdc}

FluxCalcs == [of : {"flux"}, solToken : [{1, 2} -> FluxDepths \X FluxDepths],
              solUsdc : FluxDepths, usdcToken : FluxDepths, amount : Swaps]

FluxPool(a, b, ra, rb) ==
    [mintA |-> a, mintB |-> b, reserveA |-> ra, reserveB |-> rb, thook |-> FALSE,
     fees |-> <<[num |-> 25, den |-> 1000], [num |-> 5, den |-> 1000], [num |-> 0, den |-> 0]>>]

FluxMints == {Wsol, Usdc, Token}

Index(c) ==
    [pools |-> <<FluxPool(Wsol, Token, c.solToken[1][1], c.solToken[1][2]),
                 FluxPool(Token, Wsol, c.solToken[2][1], c.solToken[2][2]),
                 FluxPool(Wsol, Usdc, c.solUsdc, 300),
                 FluxPool(Usdc, Token, 300, c.usdcToken)>>,
     transferFee |-> [m \in FluxMints |-> 0], hooked |-> {}]

(* Every route of one or two pools through a hub, not only the best pool   *)
(* of each hop.                                                            *)
Paths(index, in, out, amount) ==
    {QuoteLeg(index, i, in, out, amount) : i \in LivePools(index, in, out)}
    \cup UNION {{QuoteLeg(index, j, hub, out, QuoteLeg(index, i, in, hub, amount)) :
                    i \in LivePools(index, in, hub), j \in LivePools(index, hub, out)} :
               hub \in {Wsol, Usdc} \ {in, out}}

OutOf(route) == IF route.some THEN route.amountOut ELSE 0

(* Taking the best pool hop by hop loses nothing: no other choice of pools *)
(* gives more, although fees are rounded up and outputs down at each hop.  *)
GreedyRouteIsBest ==
    calc.of = "flux" =>
        \A in, out \in FluxMints :
            in # out =>
                \E best \in {OutOf(QuoteRoute(Index(calc), in, out, calc.amount))} :
                    \A got \in Paths(Index(calc), in, out, calc.amount) : got <= best

Landed(index, hops, amount) ==
    LET built == BuildSwaps(index, hops, amount, 300)
    IN  IF built.some
        THEN LandSwaps(index, built.ixs, [m \in FluxMints |-> IF m = Wsol THEN amount ELSE 0])
        ELSE [ok |-> FALSE]

Real(arb, index, amount) ==
    IF ~arb.some \/ arb.profit <= 0 THEN TRUE
    ELSE \E after \in {Landed(index, arb.hops, amount)} :
             after.ok /\ after.wallet[Wsol] = amount + arb.profit

(* The hops of a quote are each priced on reserves the others have not     *)
(* touched, and one pool may serve both.  A profitable SOL arbitrage is    *)
(* nevertheless real: built with the service's slippage for a wallet that  *)
(* has its input and nothing else, and landing on the reserves it was      *)
(* quoted on, it lands, and earns what it said.                            *)
ArbIsReal ==
    calc.of = "flux" => Real(QuoteSolArb(Index(calc), calc.amount), Index(calc), calc.amount)
=============================================================================
