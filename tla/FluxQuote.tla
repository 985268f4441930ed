------------------------------ MODULE FluxQuote ------------------------------
(***************************************************************************)
(* The quotes of the flux router service (flux-router.js): a hop through a *)
(* FluxBeam pool, the best pool of a hop, the best route of one or two     *)
(* hops, the SOL arbitrage, and the amounts of the transaction that is     *)
(* built from a quote.                                                     *)
(*                                                                         *)
(* index is what the quotes read: its pools in order, what a mint's own    *)
(* transfer fee withholds (in bps), the mints with a transfer hook.  A     *)
(* pool has two mints, their reserves, its fees as fractions, and whether  *)
(* it is marked as one of a hook's (thook).                                *)
(***************************************************************************)
EXTENDS Integers, Sequences, FiniteSets

CONSTANTS Wsol, Usdc

Hubs == <<Wsol, Usdc>>

NoQuote == [some |-> FALSE]

FeeCeil(amount, fee) ==
    IF fee.num = 0 \/ fee.den = 0 THEN 0 ELSE (amount * fee.num + fee.den - 1) \div fee.den

NetAfterTransferFee(amount, bps) ==
    IF bps = 0 \/ amount <= 0 THEN amount ELSE amount - FeeCeil(amount, [num |-> bps, den |-> 10000])

(* Mutant: the price of the pool before the swap. *)
SwapOutFlat(in, rIn, rOut, pool) ==
    IF in <= 0 \/ rIn <= 0 \/ rOut <= 0 THEN 0 ELSE (in * rOut) \div rIn

(* The trade, owner and host fees one after the other, then the curve. *)
SwapOut(in, rIn, rOut, pool) ==
    LET less[i \in 0..3] ==
            IF i = 0 THEN in ELSE less[i - 1] - FeeCeil(less[i - 1], pool.fees[i])
        x == less[3]
    IN  IF in <= 0 \/ rIn <= 0 \/ rOut <= 0 \/ x <= 0 THEN 0
        ELSE (x * rOut) \div (rIn + x)

ReserveIn(pool, mint) == IF pool.mintA = mint THEN pool.reserveA ELSE pool.reserveB
ReserveOut(pool, mint) == IF pool.mintA = mint THEN pool.reserveB ELSE pool.reserveA

(* The pools of a pair that have both reserves, by their place. *)
LivePools(index, in, out) ==
    {i \in DOMAIN index.pools :
        /\ {index.pools[i].mintA, index.pools[i].mintB} = {in, out}
        /\ index.pools[i].reserveA > 0 /\ index.pools[i].reserveB > 0}

QuoteLeg(index, i, in, out, amount) ==
    LET pool == index.pools[i]
        net  == NetAfterTransferFee(amount, index.transferFee[in])
    IN  IF net <= 0 THEN 0
        ELSE NetAfterTransferFee(SwapOut(net, ReserveIn(pool, in), ReserveOut(pool, in), pool),
                                 index.transferFee[out])

Hop(i, in, out, amount, got) ==
    [pool |-> i, in |-> in, out |-> out, amountIn |-> amount, amountOut |-> got]

(* Mutant: the deepest pool, as pickPool has it. *)
QuoteDeepestLeg(index, in, out, amount) ==
    LET live == LivePools(index, in, out)
        depth(i) == index.pools[i].reserveA + index.pools[i].reserveB
        best == CHOOSE i \in live : \A j \in live : depth(j) <= depth(i)
        got == QuoteLeg(index, best, in, out, amount)
    IN  IF live = {} \/ got <= 0 THEN NoQuote
        ELSE [some |-> TRUE, amountOut |-> got, hops |-> <<Hop(best, in, out, amount, got)>>]

(* The pool that gives most, the first of them in the index. *)
BestLeg(got, in, out, amount) ==
    LET paying == {i \in DOMAIN got : got[i] > 0}
        best == CHOOSE i \in paying :
                    \A j \in paying : got[j] < got[i] \/ (got[j] = got[i] /\ i <= j)
    IN  IF paying = {} THEN NoQuote
        ELSE [some |-> TRUE, amountOut |-> got[best],
              hops |-> <<Hop(best, in, out, amount, got[best])>>]

QuoteBestLeg(index, in, out, amount) ==
    BestLeg([i \in LivePools(index, in, out) |-> QuoteLeg(index, i, in, out, amount)],
            in, out, amount)

(* Each hop takes the best pool for what the one before gives. *)
Joined(leg1, leg2) ==
    IF ~leg2.some THEN NoQuote
    ELSE [some |-> TRUE, amountOut |-> leg2.amountOut, hops |-> leg1.hops \o leg2.hops]

Onward(index, leg1, mid, out) ==
    IF ~leg1.some THEN NoQuote
    ELSE Joined(leg1, QuoteBestLeg(index, mid, out, leg1.amountOut))

QuoteTwoLegs(index, in, mid, out, amount) ==
    Onward(index, QuoteBestLeg(index, in, mid, amount), mid, out)

QuoteViaHub(index, in, out, amount, hub) ==
    IF hub \in {in, out} THEN NoQuote ELSE QuoteTwoLegs(index, in, hub, out, amount)

UsesHookPool(index, route) ==
    \E i \in DOMAIN route.hops : index.pools[route.hops[i].pool].thook

(* Direct or by way of a hub, whichever gives most; on a tie a route with  *)
(* a hook's pool comes first, then the order of the candidates.            *)
BestRoute(index, routes) ==
    LET found == {i \in DOMAIN routes : routes[i].some}
        hooked(i) == UsesHookPool(index, routes[i])
        ahead(i, j) ==
            \/ routes[i].amountOut > routes[j].amountOut
            \/ /\ routes[i].amountOut = routes[j].amountOut
               /\ \/ hooked(i) /\ ~hooked(j)
                  \/ hooked(i) = hooked(j) /\ i <= j
    IN  IF found = {} THEN NoQuote
        ELSE routes[CHOOSE i \in found : \A j \in found : ahead(i, j)]

QuoteRoute(index, in, out, amount) ==
    IF amount <= 0 \/ in = out THEN NoQuote
    ELSE BestRoute(index, <<QuoteBestLeg(index, in, out, amount),
                            QuoteViaHub(index, in, out, amount, Hubs[1]),
                            QuoteViaHub(index, in, out, amount, Hubs[2])>>)

(* No swap of a receipt, whose hook gets no accounts, and none of a mint   *)
(* that withholds a fee of its own.                                        *)
MintBlocked(index, mint) == mint \in index.hooked \/ index.transferFee[mint] > 0

AssertRoutable(index, hops) ==
    \A i \in DOMAIN hops :
        ~MintBlocked(index, hops[i].in) /\ ~MintBlocked(index, hops[i].out)

LegNeedsHook(index, hop) ==
    index.pools[hop.pool].thook \/ hop.in \in index.hooked \/ hop.out \in index.hooked

(* The tokens that have a pool with SOL. *)
SolBridgeMints(index) ==
    UNION {{index.pools[i].mintA, index.pools[i].mintB} \ {Wsol} :
               i \in {j \in DOMAIN index.pools :
                          Wsol \in {index.pools[j].mintA, index.pools[j].mintB}}}

(* SOL to a token and back, by the token that leaves most; a loss is an    *)
(* answer too.  Which of several equal ones is its own affair.             *)
BestRound(round, amount) ==
    LET back == {m \in DOMAIN round : round[m].some}
        best == CHOOSE m \in back : \A n \in back : round[n].amountOut <= round[m].amountOut
    IN  IF back = {} THEN NoQuote
        ELSE [some |-> TRUE, via |-> best, hops |-> round[best].hops,
              amountOut |-> round[best].amountOut,
              profit |-> round[best].amountOut - amount]

QuoteSolArb(index, amount) ==
    IF amount <= 0 THEN NoQuote
    ELSE BestRound([m \in {x \in SolBridgeMints(index) : ~MintBlocked(index, x)} |->
                       QuoteTwoLegs(index, Wsol, m, Wsol, amount)], amount)

(* The hops quoted anew on refreshed reserves, each for what the one       *)
(* before gives; a hop that gives nothing ends the request.                *)
RequoteHops(index, hops, amount) ==
    LET into[i \in 1..(Len(hops) + 1)] ==
            IF i = 1 THEN amount
            ELSE QuoteLeg(index, hops[i - 1].pool, hops[i - 1].in, hops[i - 1].out, into[i - 1])
    IN  [i \in DOMAIN hops |-> [hops[i] EXCEPT !.amountIn = into[i], !.amountOut = into[i + 1]]]

DriedUp(hops) == \E i \in DOMAIN hops : hops[i].amountOut <= 0

(* Mutant: the allowance is given to the input of the next hop too. *)
SwapIxsLoose(index, hops, slip) ==
    [i \in DOMAIN hops |->
        [pool |-> hops[i].pool, in |-> hops[i].in, out |-> hops[i].out,
         amountIn |-> (hops[i].amountIn * (10000 + slip)) \div 10000,
         minOut |-> hops[i].amountOut - (hops[i].amountOut * slip) \div 10000]]

(* The swaps of the transaction: exact inputs, outputs within slip bps. *)
SwapIxs(index, hops, slip) ==
    [i \in DOMAIN hops |->
        [pool |-> hops[i].pool, in |-> hops[i].in, out |-> hops[i].out,
         amountIn |-> hops[i].amountIn,
         minOut |-> hops[i].amountOut - (hops[i].amountOut * slip) \div 10000]]

(* buildTxFromHops, from an index whose pools it has refreshed. *)
BuildSwaps(index, hops, amount, slip) ==
    LET fresh == RequoteHops(index, hops, amount)
    IN  IF ~AssertRoutable(index, hops) \/ DriedUp(fresh)
            \/ \E i \in DOMAIN fresh : LegNeedsHook(index, fresh[i])
        THEN NoQuote
        ELSE [some |-> TRUE, ixs |-> SwapIxs(index, fresh, slip)]

-----------------------------------------------------------------------------
(* The FluxBeam program, with the fees the quotes expect of it: the        *)
(* product of the reserves does not fall, but for the fees.                *)
ProgramOut(in, rIn, rOut, fees) ==
    LET less[i \in 0..3] == IF i = 0 THEN in ELSE less[i - 1] - FeeCeil(less[i - 1], fees[i])
        held == rIn + less[3]
    IN  rOut - (rIn * rOut + held - 1) \div held

(* A wallet and the pools after a swap, ok unless one has failed. *)
Swapped(s, ix) ==
    LET pool == s.pools[ix.pool]
        got  == ProgramOut(ix.amountIn, ReserveIn(pool, ix.in), ReserveOut(pool, ix.in),
                           pool.fees)
        moved == IF pool.mintA = ix.in
                 THEN [pool EXCEPT !.reserveA = @ + ix.amountIn, !.reserveB = @ - got]
                 ELSE [pool EXCEPT !.reserveB = @ + ix.amountIn, !.reserveA = @ - got]
        paid == [s.wallet EXCEPT ![ix.in] = @ - ix.amountIn, ![ix.out] = @ + got]
    IN  IF ~s.ok \/ s.wallet[ix.in] < ix.amountIn \/ got < ix.minOut \/ got = 0
        THEN [s EXCEPT !.ok = FALSE]
        ELSE [s EXCEPT !.pools[ix.pool] = moved, !.wallet = paid]

LandSwaps(index, ixs, wallet) ==
    LET after[i \in 0..Len(ixs)] ==
            IF i = 0 THEN [ok |-> TRUE, pools |-> index.pools, wallet |-> wallet]
            ELSE Swapped(after[i - 1], ixs[i])
    IN  after[Len(ixs)]
=============================================================================
