------------------------------ MODULE Searcher ------------------------------
(***************************************************************************)
(* The searcher loop of the SDK (loop.ts), run live by a keeper against    *)
(* one market.  A tick reads the reserves and hunts four surfaces in turn; *)
(* on each it builds a bundle (executor.ts, crossvenue.ts), simulates it,  *)
(* halves its size while the simulation reverts, and sends the first size  *)
(* that does not.  The interval starts a tick whether or not the one       *)
(* before has ended.  Between the reads, the simulation and the landing    *)
(* the market moves: traders, cranks, the underlying, the keeper's own     *)
(* bundles.                                                                *)
(*                                                                         *)
(* A bundle is one transaction: three instructions, or none, take effect.  *)
(* The pools are exact; Jupiter delivers its threshold or one unit more.   *)
(* The keeper's SOL (fees, tips) is left out.                              *)
(***************************************************************************)
EXTENDS SdkMarket, Sequences

CONSTANTS
    Fee,            \* trade fee of the pools in bps
    MinProfit,      \* minProfitUsdcAtoms
    Floor,          \* smallest size in USDC ($0.10)
    MaxTries,       \* sizes tried on a surface
    Starts,         \* sizes the search for the best input may come out with
    Quotes,         \* Jupiter's thresholds, per hundred units in
    Extras,         \* what Jupiter delivers beyond its threshold
    Band,           \* lMin, lMax, maxMint and breaker of the config
    Markets,        \* the reserves the run may begin with
    Basis0, Ratio0, \* and the bases of the last crank
    Wallet0,        \* what the keeper holds
    Underlying,     \* prices of the underlying
    TradeSizes,     \* what other traders swap
    Ticks,          \* the ticks of the loop
    MaxEvents       \* bound on bundles sent and steps of the others

Tokens == {"usdc", "A", "B"}

ASSUME SearcherAssumption ==
    /\ Fee \in Nat /\ MinProfit \in Nat /\ Floor \in Nat /\ MaxTries \in Nat
    /\ Starts \subseteq Nat /\ Quotes \subseteq Nat /\ Extras \subseteq Nat
    /\ TradeSizes \subseteq Nat
    /\ Band \in [lMin : Nat, lMax : Nat, maxMint : Nat, breaker : Nat]
    /\ Markets \subseteq Triangle
    /\ Basis0 \in Nat \ {0} /\ Ratio0 \in Nat \ {0}
    /\ Wallet0 \in [Tokens -> Nat]
    /\ Underlying \subseteq Nat \ {0}
    /\ MaxEvents \in Nat

VARIABLES
    market,     \* the reserves now
    basis,      \* config.oracle_price_last
    ratio,      \* config.last_ratio
    price,      \* the crawl's aggregate: what a crank reads
    wallet,     \* token -> what the keeper holds
    hunt,       \* tick -> where it is
    sent,       \* bundles the cluster may still execute
    events      \* bundles sent and steps of the others so far

chain == <<market, basis, ratio, price, wallet>>
vars == <<market, basis, ratio, price, wallet, hunt, sent, events>>

-----------------------------------------------------------------------------
(* Instructions.  The state of a transaction in execution: ok while no     *)
(* instruction has failed. *)

Swap(give, get, in, min) == [op |-> "swap", give |-> give, get |-> get, in |-> in, min |-> min]
Jupiter(give, get, in, min, extra) ==
    [op |-> "jupiter", give |-> give, get |-> get, in |-> in, min |-> min, extra |-> extra]
(* What Jupiter guarantees for an amount in; q: that per hundred units. *)
JupiterThreshold(amt, q) == (amt * q) \div 100

CrankIx == [op |-> "crank"]
NoIx == [op |-> "none"]

(* The reserves a swap goes from and to. *)
ReserveOf(m, token, other) ==
    IF token = "usdc" THEN m.quote[other]
    ELSE IF other = "usdc" THEN m.pool[token] ELSE m.pair[token]

Shifted(m, token, other, by) ==
    IF token = "usdc" THEN [m EXCEPT !.quote[other] = @ + by]
    ELSE IF other = "usdc" THEN [m EXCEPT !.pool[token] = @ + by]
    ELSE [m EXCEPT !.pair[token] = @ + by]

Traded(w, ix, out) == [w EXCEPT ![ix.give] = @ - ix.in, ![ix.get] = @ + out]

(* CP-Swap's swap_base_input: the output may not be below the minimum, the *)
(* token program wants the input to be there.                              *)
DoSwap(ix, s) ==
    LET out == AmountOut(ix.in, ReserveOf(s.market, ix.give, ix.get),
                         ReserveOf(s.market, ix.get, ix.give), Fee)
    IN  IF ix.in > 0 /\ s.wallet[ix.give] >= ix.in /\ out >= ix.min
        THEN [s EXCEPT !.market = Shifted(Shifted(s.market, ix.give, ix.get, ix.in),
                                          ix.get, ix.give, -out),
                       !.wallet = Traded(s.wallet, ix, out)]
        ELSE [s EXCEPT !.ok = FALSE]

DoJupiter(ix, s) ==
    IF s.wallet[ix.give] >= ix.in
    THEN [s EXCEPT !.wallet = Traded(s.wallet, ix, ix.min + ix.extra)]
    ELSE [s EXCEPT !.ok = FALSE]

(* The program's own crank (see Rebalance), for a pair priced by a crawl.  *)
DoCrank(s) ==
    LET m == s.market
        has == HasPlan(s.basis, price, m.pair, m.pool, m.supply, 0,
                       Band.lMin, Band.lMax, Band.maxMint, Band.breaker)
        plan == Plan(s.basis, price, m.pair, m.pool, m.supply, 0,
                     Band.lMin, Band.lMax, Band.maxMint, Band.breaker)
    IN  IF ~HasMarket(m.pool, m.quote) THEN s
        ELSE [s EXCEPT !.market = IF has THEN AfterCrank(m, plan) ELSE m,
                       !.basis = PartialAdvance(@, price, CrankAbsorbBps),
                       !.ratio = PartialAdvance(@, MarketRatio(m.pool, m.quote),
                                                CrankAbsorbBps)]

Execute(ix, s) ==
    IF ~s.ok \/ ix.op = "none" THEN s
    ELSE IF ix.op = "swap" THEN DoSwap(ix, s)
    ELSE IF ix.op = "jupiter" THEN DoJupiter(ix, s)
    ELSE DoCrank(s)

Now == [ok |-> TRUE, market |-> market, basis |-> basis, ratio |-> ratio, wallet |-> wallet]

Outcome(bundle) == Execute(bundle.third, Execute(bundle.second, Execute(bundle.first, Now)))

-----------------------------------------------------------------------------
(* The bundles.  A builder that finds nothing to do (noop) gives NoBundle. *)

Surfaces == <<"capture", "venueA", "venueB", "crankarb", "triangle">>

(* One transaction, which the keeper signs: all of it or nothing.          *)
Bundle(first, second, third) == [built |-> TRUE, first |-> first, second |-> second,
                                 third |-> third]
NoBundle == [built |-> FALSE, first |-> NoIx, second |-> NoIx, third |-> NoIx]

(* buildTriangleArbIxs: the amounts of the two later hops are computed on  *)
(* the reserves the tick read in the beginning, for every size.            *)
TriangleBundle(seen, side, amt) ==
    LET hops == CycleHops(seen, side, amt, Fee)
    IN  Bundle(Swap("usdc", side, amt, 0),
               Swap(side, Other(side), hops.first, 0),
               Swap(Other(side), "usdc", hops.second, amt + MinProfit))

(* Mutant: the budget is what the sale gives now, not what it guarantees. *)
BuyBudgetUnguarded(sellMin) == sellMin - MinProfit

(* What the sale guarantees, one part in a thousand less, keeps MinProfit. *)
SellMin(sellMin) == (sellMin * 999) \div 1000
BuyBudget(sellMin) == SellMin(sellMin) - MinProfit

(* Mutant: the usual slippage is allowed. *)
LeastBackSlipped(sold) == (sold * 995) \div 1000

(* The tokens sold are all bought back. *)
LeastBack(sold) == sold

(* The config's fields and the price as they are read when asked for; no   *)
(* price, no plan.                                                         *)
ConfigRead == [lastRatio |-> ratio, oracleLast |-> basis, band |-> Band]
AggregateRead == price

(* The crank they promise on reserves that may have been read before.      *)
OraclePlan(r) == SdkPlan(ConfigRead.oracleLast, AggregateRead, r, 0, ConfigRead.band)

(* The crank the SDK's older plan expects, of the ratio alone.             *)
RatioCrank == SimulateCrank(market, ConfigRead.lastRatio, 0, ConfigRead.band, FALSE)

(* buildCrankCaptureBundle: sell the loser of the coming crank, crank, buy *)
(* all of it back for less.  Everything is read anew.                      *)
CaptureBundle(sold) ==
    LET plan == OraclePlan(market)
        side == plan.side
        sellMin == AmountOut(sold, market.pool[side], market.quote[side], Fee)
    IN  IF ~plan.some THEN NoBundle
        ELSE IF plan.tripped \/ plan.pool <= 0 \/ sellMin <= MinProfit
                \/ BuyBudget(sellMin) <= 0
        THEN NoBundle
        ELSE Bundle(Swap(side, "usdc", sold, SellMin(sellMin)),
                    CrankIx,
                    Swap("usdc", side, BuyBudget(sellMin), LeastBack(sold)))

(* Mutant: the guard asks for the input alone. *)
VenueGuardInput(amt) == amt

VenueGuard(amt) == amt + MinProfit

(* buildCrossVenueArb: Jupiter buys the leg, the pool takes what Jupiter   *)
(* guarantees.  q: Jupiter's threshold; extra: what it delivers beyond it. *)
VenueBundle(leg, amt, q, extra) ==
    LET least == JupiterThreshold(amt, q)
    IN  Bundle(Jupiter("usdc", leg, amt, least, extra),
               Swap(leg, "usdc", least, VenueGuard(amt)),
               NoIx)

(* buildCrankArbBundle: the SDK plans the crank from the A/B ratio; the    *)
(* loser is bought after it and sold to Jupiter, which guards the profit.  *)
CrankArbBundle(amt, q, extra) ==
    LET sim  == RatioCrank
        side == sim.plan.side
        post == AfterCrank(market, sim.plan)
        expected == AmountOut(amt, post.quote[side], post.pool[side], Fee)
        leastLoser == (expected * 995) \div 1000
        leastUsdc  == JupiterThreshold(leastLoser, q)
    IN  IF sim.noop # "none" THEN NoBundle
        ELSE IF amt <= 0 \/ leastLoser <= 0 \/ leastUsdc < VenueGuard(amt) THEN NoBundle
        ELSE Bundle(CrankIx,
                    Swap("usdc", side, amt, leastLoser),
                    Jupiter(side, "usdc", leastLoser, leastUsdc, extra))

-----------------------------------------------------------------------------
(* The hunt of a tick.  at: where it waits; surface: its place in          *)
(* Surfaces; size, tries: of searchAndSend. *)

Waiting == [at |-> "waiting", surface |-> 1, seen |-> Nothing, side |-> "A",
            size |-> 0, floor |-> 0, tries |-> 0, bundle |-> NoBundle]

SurfaceOf(h) == Surfaces[h.surface]

Done == [Waiting EXCEPT !.at = "done"]

(* Nothing to do here, or done: the next surface, or the end of the tick. *)
Leaving(h) == IF h.surface = Len(Surfaces) THEN Done
              ELSE [Waiting EXCEPT !.at = "gate", !.surface = h.surface + 1, !.seen = h.seen]

(* A failed read or answer ends the surface it is in; the two legs of the  *)
(* cross-venue surface are one, and the triangle's ends the whole tick.    *)
Failing(h) == IF SurfaceOf(h) = "venueA" THEN Leaving([h EXCEPT !.surface = @ + 1])
              ELSE Leaving(h)

Sizing(h, side, start, floor) ==
    [h EXCEPT !.at = "size", !.side = side, !.size = start, !.floor = floor]

(* Mutant: the tries are not counted: the size alone ends the search. *)
HalvedUncounted(h) == [h EXCEPT !.at = "size", !.size = @ \div 2, !.bundle = NoBundle]

Halved(h) == [h EXCEPT !.at = "size", !.size = @ \div 2, !.tries = @ + 1,
                       !.bundle = NoBundle]

Event == events < MaxEvents /\ events' = events + 1

Hunt(t, h) == hunt' = [hunt EXCEPT ![t] = h]

Init == /\ market \in Markets
        /\ basis = Basis0 /\ ratio = Ratio0
        /\ price \in Underlying
        /\ wallet = Wallet0
        /\ hunt = [t \in Ticks |-> Waiting]
        /\ sent = {}
        /\ events = 0

(* setInterval starts a tick, whatever the others do; it reads the         *)
(* triangle, or skips a market it cannot read.                             *)
Begin(t) == /\ hunt[t].at = "waiting"
            /\ Hunt(t, [hunt[t] EXCEPT !.at = "gate", !.seen = market])
            /\ UNCHANGED <<chain, sent, events>>

Unreadable(t) == /\ hunt[t].at = "waiting"
                 /\ Hunt(t, Done)
                 /\ UNCHANGED <<chain, sent, events>>

(* The gates.  The capture's plan mixes the reserves read in the beginning *)
(* with the config and the price read now.                                 *)
GateCapture(t) ==
    LET h == hunt[t]
        plan == OraclePlan(h.seen)
    IN  /\ h.at = "gate" /\ SurfaceOf(h) = "capture"
        /\ plan.some
        /\ plan.pool > 0
        /\ Hunt(t, Sizing(h, plan.side, h.seen.pool[plan.side] \div 40,
                          h.seen.pool[plan.side] \div 4000))
        /\ UNCHANGED <<chain, sent, events>>

(* A leg is rich against Jupiter, or cheap after the crank: the size is    *)
(* the best one at Jupiter's price, whatever that is.                      *)
GateVenue(t) ==
    LET h == hunt[t]
    IN  /\ h.at = "gate" /\ SurfaceOf(h) \in {"venueA", "venueB", "crankarb"}
        /\ SurfaceOf(h) = "crankarb" =>
               RatioCrank.noop = "none"
        /\ \E start \in Starts :
               Hunt(t, Sizing(h, IF SurfaceOf(h) = "venueB" THEN "B" ELSE "A", start, Floor))
        /\ UNCHANGED <<chain, sent, events>>

GateTriangle(t) ==
    LET h == hunt[t]
    IN  /\ h.at = "gate" /\ SurfaceOf(h) = "triangle"
        /\ \E side \in Sides, start \in Starts :
               /\ CycleHops(h.seen, side, start, Fee).last >= start + MinProfit
               /\ Hunt(t, Sizing(h, side, start, Floor))
        /\ UNCHANGED <<chain, sent, events>>

(* No gap, a read that fails, no route at Jupiter. *)
Skip(t) == /\ hunt[t].at = "gate"
           /\ \/ Hunt(t, Leaving(hunt[t]))
              \/ Hunt(t, Failing(hunt[t]))
           /\ UNCHANGED <<chain, sent, events>>

Built(h, q, extra) ==
    CASE SurfaceOf(h) = "capture" -> CaptureBundle(h.size)
      [] SurfaceOf(h) \in {"venueA", "venueB"} -> VenueBundle(h.side, h.size, q, extra)
      [] SurfaceOf(h) = "crankarb" -> CrankArbBundle(h.size, q, extra)
      [] OTHER -> TriangleBundle(h.seen, h.side, h.size)

(* searchAndSend: the size is built and simulated, or halved. *)
Build(t) ==
    LET h == hunt[t]
    IN  /\ h.at = "size"
        /\ h.tries < MaxTries /\ h.size >= h.floor
        /\ \E q \in Quotes, extra \in Extras :
               LET b == Built(h, q, extra)
               IN  Hunt(t, IF b.built THEN [h EXCEPT !.at = "sim", !.bundle = b]
                           ELSE Halved(h))
        /\ UNCHANGED <<chain, sent, events>>

BuildFails(t) ==
    /\ hunt[t].at = "size"
    /\ hunt[t].tries < MaxTries /\ hunt[t].size >= hunt[t].floor
    /\ Hunt(t, Halved(hunt[t]))
    /\ UNCHANGED <<chain, sent, events>>

NoSize(t) ==
    /\ hunt[t].at = "size"
    /\ hunt[t].tries = MaxTries \/ hunt[t].size < hunt[t].floor
    /\ Hunt(t, Leaving(hunt[t]))
    /\ UNCHANGED <<chain, sent, events>>

(* A bundle is of one tick and surface: the cluster never takes two such   *)
(* bundles for one.                                                        *)
Tagged(t, h) == [tick |-> t, surface |-> SurfaceOf(h), bundle |-> h.bundle]

(* Jupiter's own swap may exceed its slippage in the simulation. *)
SimulatedOk(t) ==
    /\ hunt[t].at = "sim"
    /\ Outcome(hunt[t].bundle).ok
    /\ sent' = sent \cup {Tagged(t, hunt[t])}
    /\ Hunt(t, Leaving(hunt[t]))
    /\ Event
    /\ UNCHANGED chain

SimulatedReverts(t) ==
    /\ hunt[t].at = "sim"
    /\ \/ ~Outcome(hunt[t].bundle).ok
       \/ SurfaceOf(hunt[t]) \in {"venueA", "venueB", "crankarb"}
    /\ Hunt(t, Halved(hunt[t]))
    /\ UNCHANGED <<chain, sent, events>>

(* simulateTransaction or sendRawTransaction throws. *)
SimulationFails(t) ==
    /\ hunt[t].at = "sim"
    /\ Hunt(t, Failing(hunt[t]))
    /\ UNCHANGED <<chain, sent, events>>

TickStep(t) == \/ Skip(t) \/ GateCapture(t) \/ GateVenue(t) \/ GateTriangle(t)
               \/ BuildFails(t) \/ NoSize(t) \/ Build(t)
               \/ SimulationFails(t) \/ SimulatedOk(t) \/ SimulatedReverts(t)

-----------------------------------------------------------------------------
(* The chain. *)

Apply(s) == /\ market' = s.market /\ basis' = s.basis /\ ratio' = s.ratio
            /\ wallet' = s.wallet
            /\ price' = price

Land(b) == /\ Outcome(b.bundle).ok
           /\ Apply(Outcome(b.bundle))
           /\ sent' = sent \ {b}
           /\ UNCHANGED <<hunt, events>>

(* It fails on the chain, or its blockhash expires. *)
Expire(b) == /\ sent' = sent \ {b}
             /\ UNCHANGED <<chain, hunt, events>>

Trade == /\ Event
         /\ \E give, get \in Tokens, dx \in TradeSizes :
                LET out == AmountOut(dx, ReserveOf(market, give, get),
                                     ReserveOf(market, get, give), Fee)
                IN  /\ give # get
                    /\ market' = Shifted(Shifted(market, give, get, dx), get, give, -out)
         /\ UNCHANGED <<basis, ratio, price, wallet, hunt, sent>>

OracleMoves == /\ Event
               /\ price' \in Underlying \ {price}
               /\ UNCHANGED <<market, basis, ratio, wallet, hunt, sent>>

Crank == /\ Event
         /\ Apply(DoCrank(Now))
         /\ UNCHANGED <<hunt, sent>>

Next == \/ \E t \in Ticks : Begin(t) \/ Unreadable(t) \/ TickStep(t)
        \/ \E b \in sent : Land(b) \/ Expire(b)
        \/ Trade \/ OracleMoves \/ Crank

Spec == Init /\ [][Next]_vars

-----------------------------------------------------------------------------
TypeOK ==
    /\ market \in Triangle
    /\ basis \in Nat \ {0} /\ ratio \in Nat \ {0} /\ price \in Underlying
    /\ wallet \in [Tokens -> Nat]
    /\ \A t \in Ticks :
           /\ hunt[t].surface \in 1..Len(Surfaces)
           /\ hunt[t].side \in Sides /\ hunt[t].size \in Nat
           /\ hunt[t].tries \in 0..MaxTries
    /\ events \in 0..MaxEvents

(* Whatever the market does between the read, the simulation and the       *)
(* landing, also when ticks overlap and hunt the same gap twice: what the  *)
(* keeper holds changes only by a bundle, and each brings MinProfit.       *)
LandedPays ==
    [][wallet' # wallet => wallet'["usdc"] >= wallet["usdc"] + MinProfit]_vars

(* The bundles that hold the leg only in between (capture, cross venue,    *)
(* crank arb) never take of the keeper's own tokens, even when the crank   *)
(* mints another side or amount than the SDK planned.                      *)
VenueBundlesKeepInventory ==
    [][\A b \in sent \ sent' :
           wallet' # wallet /\ b.surface # "triangle" =>
               \A s \in Sides : wallet'[s] >= wallet[s]]_vars

(* The SDK's port of the plan is exact: from the state it reads, the       *)
(* capture plans the very mint that a crank would make, and plans none     *)
(* exactly where a crank makes none, save where the program's integers     *)
(* overflow and the SDK's do not.                                          *)
CrankIsPredicted ==
    LET sdk == SdkPlan(basis, price, market, 0, Band)
        program == Plan(basis, price, market.pair, market.pool, market.supply, 0,
                        Band.lMin, Band.lMax, Band.maxMint, Band.breaker)
        has == HasPlan(basis, price, market.pair, market.pool, market.supply, 0,
                       Band.lMin, Band.lMax, Band.maxMint, Band.breaker)
    IN  /\ has => /\ sdk.some
                  /\ sdk.side = program.side
                  /\ sdk.pair = program.pair /\ sdk.pool = program.pool
        /\ sdk.some /\ HasReturn(basis, price) /\ sdk.pair <= U64Max /\ sdk.pool <= U64Max
               => has

(* What is left of a tick: the surfaces, and on one the sizes to try, each *)
(* built and then simulated.                                               *)
Left(h) ==
    LET surface == 2 * MaxTries + 3
    IN  CASE h.at = "waiting" -> (Len(Surfaces) + 1) * surface
          [] h.at = "gate" -> (Len(Surfaces) - h.surface + 1) * surface
          [] h.at = "size" -> (Len(Surfaces) - h.surface) * surface
                                  + 2 * (MaxTries - h.tries) + 2
          [] h.at = "sim"  -> (Len(Surfaces) - h.surface) * surface
                                  + 2 * (MaxTries - h.tries) + 1
          [] OTHER -> 0

(* Every answer and every failure brings a tick nearer to its end, on a    *)
(* thin pool too, whose smallest size is zero and is never undercut: ticks *)
(* overlap, but none hunts for ever.                                       *)
TicksAdvance ==
    [][\A t \in Ticks : hunt'[t] # hunt[t] => Left(hunt'[t]) < Left(hunt[t])]_vars
=============================================================================
