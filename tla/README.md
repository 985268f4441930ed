# Verification of the leverage engine and the programs around it

TLA+ models of this repository, model-checked with TLC and proved in part with
TLAPS. The system is a leverage protocol on Solana: a pair of synthetic tokens A
(long) and B (inverse) trades in three constant-product pools, A/USDC, B/USDC and
A/B. A crank mints the side that lost into its two pools, so that it becomes cheaper;
depositors provide the pools' liquidity through the protocol and hold receipts; every
transfer of a receipt fires the crank through a Token-2022 transfer hook. Around the
on-chain program stand a site that builds and sends transactions, scripts with which
an operator launches and repairs pairs, a routing service that indexes pools, and an
SDK with which arbitrageurs keep the three pools together.

Sources below are relative to `src/`; `lib.rs` without a directory is
`pinocchio-programs/leverage-engine/src/lib.rs`, the deployed program.

## 1. Inventory

| component | state it keeps | operations | hard behaviour | what makes it correct |
|---|---|---|---|---|
| **leverage-math** `crates/leverage-math/src/lib.rs` | none (pure, `no_std`) | returns in bps, loser, leverage band, mint size, two-pool plan, partial advance, median | truncation toward zero, saturation at 64 and 128 bits, zeroes, thresholds | caps hold; a crank hands arbitrage no new gap; the median is exact |
| **crank** `lib.rs` `run_rebalance` | config: `last_ratio_wad`, `oracle_price_last`, `paused`, `oracle_kind` | rebalance (cranker or hook), set_paused, set_oracle_kind | anybody may call it at any moment, between any two trades; it moves the price it reads | mints only the loser, within the cap, nothing past the breaker; the breaker releases; no overshoot |
| **ledger** `lib.rs` deposit, withdraw, seed_pair, buy_burn | config `total_receipt`; token accounts of the authority PDA; receipt, synthetic and LP supplies | as named, and what CP-Swap and the token programs do in the CPIs | two legs, fungible receipts, outside burns, trades in between, rounding against or for the pool, fees through a pass-through account | receipts are backed and redeemable, USDC conserved, LP undiluted, fees kept |
| **price crawl** `lib.rs` 609-1055, `price_crawl.rs`, `lut_cpi.rs` | `price_crawl` account: cursor, samples, aggregate, boxed vaults; lookup table | init, advance_crawl, the hook's sampling, set_crawl_entry, migration, table creation and extension | two writers (crank and hook), a table that is replaced under it, venues that die | the aggregate is the median of what is stored, a venue votes in its own slots, nothing stale stays |
| **hook dispatch** `lib.rs` `hook_execute`, `hook.rs` | ExtraAccountMetaList | account lists per price source, soft no-op for short lists | a wrong list fails every receipt transfer; page and scripts write it from reads of their own | set-up repairs what was there; a migration fails no transfer on its way |
| **registration** `lib.rs` 60-443, `config.rs` | config: size, pools, price source | init_config, register_triangle, growth of legacy configs | scripts that read a config while its launch is under way | lists name the pools the config names |
| **names** `metadata_cpi.rs`, `metaplex_cpi.rs`, `backfill.js`, `patch-metadata.js` | metadata of three mints per pair | create once, change later | several tools at once, each from what it read | the site lists a pair as its tokens are called in the end |
| **transaction builders** `site/txbuild.js` | none | size deposits, withdrawals and launches from accounts read earlier | reserves that moved since they were read | what is built on fresh accounts lands |
| **launch flow** `site/public/launchflow.js`, `finish-launch.js`, `init-hook-metas.js` | a batch of signed transactions and their status | send, poll, sign anew on expiry, resume | lost or late confirmations, a retry of what landed | each step lands in order, or the launch says which did not |
| **site server** `site/server.js` | registry, its refresh, polls, series of samples and their file | refresh, poll, save, and the page's requests | overlapping polls, failed answers, crashes while saving, configs that grow | pairs are listed as they are; no history is lost |
| **web page** `site/public/app.js` | wallet, pair shown, balance, operation under way, lookups | connect, open, deposit, withdraw, FluxBeam pool, launch | answers that come late, out of order, or for another pair | the balance comes to be that of the pair shown; the page does not stay busy |
| **flux router service** `flux-router-service/*.js` | pool index, reserves, scan marks | full scan, targeted refresh, hook scan, quoting | overlapping refreshes, partial RPC failures | quotes use reserves of one slot, read after the request; routes are the best; arbitrage is real |
| **searcher SDK** `sdk/searchergap/src` | loop state | scan gaps, size, simulate and send bundles | overlapping ticks, reserves that move between reads, simulation and landing | what lands pays; inventory stays; every tick ends |
| **Anchor programs** `programs/` | as the Pinocchio program | an earlier engine and a demonstration hook | as above | as above; not modelled |
| megatxn serialisation, harness, tests, hand-off bundle | - | byte layout, test drivers, a design prototype | - | not modelled |

How they interact. A user's deposit is one transaction of two `deposit` instructions
built by `txbuild.js` at the request of the page. A receipt transfer makes Token-2022
call `hook_execute` with the accounts of the pair's list; it first samples the boxed
venue (`crawl_sample_reserves`) when the price source is the crawl, and then runs
`run_rebalance` with leverage 0. The reading is the crawl's aggregate, a PumpSwap
pool's price, or the ratio of the two anchor pools. Searchers and traders move the
pools between any two of these, and a searcher's bundle may hold a crank itself. The
launch page and the operator's scripts write configs, lists, tables and names with
transactions of their own; the server reads configs and names to list the pairs. The
off-chain parts share nothing but the chain, and page and server their requests.

## 2. Modules

| module | models | extends |
|---|---|---|
| `LeverageMath` | the crate's functions as operators; widths are constants | Integers, FiniteSets |
| `LeverageProofs` | lemmas about them, about division and about medians | LeverageMath, TLAPS |
| `Rebalance`, `RebalanceProofs` | the crank with its price sources, and the market around it | LeverageMath; LeverageProofs |
| `ReceiptVault` | what the engine promises to holders of receipts, abstractly | Naturals |
| `Ledger`, `LedgerProofs` | the token movements of deposit, withdraw, seed_pair, crank, buy_burn; an implementation of `ReceiptVault` | Integers; TLAPS |
| `PriceCrawl`, `MCPriceCrawl`, `PriceCrawlProofs` | the price_crawl account, its table and its venues | LeverageMath, Sequences; LeverageProofs, MedianCheck |
| `HookList` | configs, account lists, the hook's reading of them, launch steps, the operator's scripts | Naturals, Sequences |
| `PairNames` | the tools that name a pair's tokens, on top of the former | HookList |
| `SiteServer` | registry, polls, samples and their file, on top of the former | PairNames |
| `SitePage`, `MCSite`, `SiteProofs` | one user's page over server and chain: the composition of the four | SiteServer; TLAPS |
| `StepwiseLaunch` | what a launch promises to whoever pays for it, abstractly | Naturals |
| `Launch`, `MCLaunch`, `LaunchProofs` | the launch page's two batches over an RPC service and a chain; an implementation of `StepwiseLaunch` | Integers, FiniteSets; TLAPS |
| `FluxIndexer`, `MCFluxIndexer` | the router service's pool index: scans, refreshes, cache file, restarts | Naturals, Sequences, FiniteSets |
| `FluxRouter`, `MCFluxRouter`, `FluxProofs` | a swap request served from the index while its handlers go on | FluxIndexer; QuoteCheck, LeverageProofs |
| `FluxQuote` | the router's quotes, routes, SOL arbitrage and the swaps it builds | Integers, Sequences, FiniteSets |
| `SdkMarket` | the SDK's view of a market: swaps, cycles, its port of the crank's plan | LeverageMath |
| `SdkGaps` | the SDK's search for sizes and the gaps it reports | SdkMarket |
| `Searcher`, `MCSearcher`, `SearcherProofs` | the searcher loop against a market that moves | SdkMarket; LeverageProofs |
| `MedianCheck`, `QuoteCheck` | what the median, the routes and the arbitrage should be: reference definitions and inputs | LeverageMath; FluxQuote |
| `MathCheck` | what the SDK's gaps should be; picks arguments of all these calculations | SdkGaps, QuoteCheck |

In the modules of the engine a step is one instruction. Solana runs a transaction
atomically and rolls a failed one back, so an instruction that returns an error is the
absence of a step, and there are no half-done instructions to interleave; the
interleavings are those of instructions of different callers. An instruction that
succeeds without effect (a paused crank, a thin venue) is a stuttering step. In the
off-chain modules a step runs from one `await` to the next, for Node and browsers run a
callback, and the promise jobs it queues, to the end before another one.

### LeverageMath
Functions that return `Option` are a predicate for "Some" and an operator for the
value (`HasReturn`/`ReturnBps`, `HasPlan`/`Plan`, `HasMarket`/`MarketRatio`).
Division of signed values truncates toward zero as in Rust (`Truncated`), and
saturation is written out (`SaturatingMul`). `U64Max`, `I64Max`, `I128Max` and the
fixed-point scale `Wad` are constants, scaled down for TLC, whose integers have 32
bits. The intermediate saturations that cannot bite with 64-bit inputs are left
out. `MedianWad` is stated by rank, not by sorting, which is what makes it a
pure definition; `MedianCheck` compares it with a sorted median.

### Rebalance
State: the config fields the crank uses, the reserves of the triangle, the supplies,
and what the external source reads. `Crank(user)` is `run_rebalance` as a whole:
`Runs` are its early returns, `CrankPlan` the plan on the reserves read at its
start, `MintLoser` the two `MintTo` calls, `AdvanceBases` the final store. The
trades, price moves, pauses and source switches are `Surroundings`, bounded by
`MaxEvents`; cranks are unbounded. `lastRatio` starts as the pools' ratio:
launches create symmetric pools and pass a ratio of one.

### ReceiptVault and Ledger
`Ledger` has one variable per token account or supply. CP-Swap appears as the engine
uses it: deposits round up, withdrawals round down, swaps pay out the rounded-down
share. `Crank` here mints any amounts: `Rebalance` says which, and what holds of the
ledger for any amount holds for those. `ClientLp`, `ClientMaxSynth` and
`ClientBurn` are the sizing of `txbuild.js`. Receipts of all holders are one
number, the public's USDC one purse: the code never looks at who holds.
Two things the code does not prevent are part of the model: a holder burns receipts
outside the engine, and the fee vault is the account deposits pass through
(`SharedFeeVault`).

`ReceiptVault` is what a holder may rely on and nothing of how it is done: a receipt is
issued for a unit of one of two funds and given back for one, at any time; receipts may
be thrown away; what is put aside as a fee is spent on its purpose only; and no step,
whoever takes it, lowers the worth of a unit (`KeepsWorth`). The refinement
(`Vault == INSTANCE ReceiptVault WITH ...` in `Ledger`, the property `VaultPromise`)
takes the protocol's LP of a leg for its units, all LP for the fund's, the product of
the pool's reserves for the backing, and the history of fees for what is owed. Deposits
map to `Issue`, withdrawals to `Redeem`, outside burns to `Forfeit`, buy_burn to `Spend`;
trades, cranks and the public's LP to `Earn`.

### PriceCrawl
`AdvanceCrawl(pool)` is advance_crawl called with a pool and its vaults, valid
exactly when `VenueAccepted`; `HookSample` is what a receipt transfer does before the
crank. Both store a sample, recompute the median and advance the cursor (`Store`).
`advance_crawl` then boxes the same pool's vaults if the next slot names the same
pool, and empties the box otherwise (`SeedBox`); the hook leaves the box alone. A
vault pair stands for its pool. The sample's slot number is stored by the code and
never read, so it is left out; `source` is a history variable. Venues other than
CP-Swap layouts of the pair's own mints are refused by `advance_crawl`
(`lib.rs:870-878`); PumpSwap pools of foreign mints are accepted there and refused
by the hook (`lib.rs:745`): `Foreign` says which these are. Child tables are not used
by the code. The admin may replace the table at any time (`InitLookupTable`).

### HookList and PairNames
A pair has a config (its size, legacy or grown, its price source, and whether its pools
exist or are the placeholders of a launch), a crawl account, a table, a list and three
names. A list is its eleven fixed accounts, which only differ in the pools they are of,
and a tail. `Written` is what `init_extra_account_metas` and `patch_hook_metas` make of
embeds and their count, `Resolved` what Token-2022 looks up for a meta that points into
another account's data, `HookExecute` what the hook and `run_rebalance` then do:
"cranked", "nothing" or "error". The launch page is five steps
(`Launch` says how they land). `InitConfig` is what the program stores of the data the
page sends: no price source, whatever the page has found, because the two lay the data
out differently (observations); the page's list goes with what it has found all the same
(`LaunchHookList`). So no config ever has the PumpSwap source, and what the hook does for one
is left out here (`Rebalance` has the crank with it); `finish-launch.js`, `init-hook-metas.js`,
`setup-price-crawl-mainnet.mjs` and `migrate-hook-crawl-one.mjs` are sequences of reads
and transactions (`ReadEmbeds`, `ReadKind`, `LandList`, ...) that may be at work beside
the page and fail at any of them (`ScriptDies`). One script at a time is at work on a
pair; its advance is of the pair's own anchor pool, taken not to be thin. The scripts end
at a transaction that fails; only one that passes its simulation and then fails on
the chain would let `migrate-hook-crawl-one` go on, and is left out. `PairNames` has `backfill.js`, the site's
backfill-metadata and `patch-metadata.js` in the same way: a tool reads the names, builds
all its transactions, and sends them one by one, each valid only if the token has, or has
not, a name by then.

### SiteServer and SitePage
`SiteServer` is the state of `server.js` that outlives a request: `REGISTRY` with the
refresh at work (two account scans answered in any order, then metadata that may be
unreadable), the timers that start polls, the polls at work, `SERIES` and `series.json`,
which is written in place and may be cut off. Samples are a version of the pair's worth
(`value`); of a series the last sample is kept. `SitePage` is the state of `app.js`: the
wallet, the pair shown, the balance and the requests for it (nothing in an answer says
what it was asked for), the operation that keeps the page busy with the transactions it
has still to sign, what was sent and has neither landed nor been lost, the launch form's
underlying with its timer and requests. A FluxBeam pool for receipts needs a lookup
table in two transactions and passes the pool the hook accounts listed when it was built.
`left` bounds what comes from outside: faults, crashes, edits, trades and clicks are
counted down. A run starts in a scene, which says what exists and what may happen.

### FluxIndexer and FluxRouter
Amounts become versions: a swap raises the chain's version of its pool, which moves
both vaults at once, and `reserve[p]` has the version each vault was read at, or 0. A
job is a call of `refreshReserves` under way: the list it was given, and what its
chunks returned so far (`ReadChunk`, each an RPC call); `Write` is its end, where all it
read is stored at once, also over what a later refresh stored. Only the full refresh
reads the live array, so that pools merged meanwhile are appended to its list. The scan
(`StartScan`, `MergePage`, `FinishScan`) ends at a page the RPC refuses and counts as full.
`Restart` starts from the cache file, which may have been cut off while it was written.
The swap request (`FluxRouter`) has the states of `ensureFresh`, called by the server and
again by `buildSwapTx`, of the pick, and of the last refresh; "built" is set where the
last requote succeeds. If the blockhash is then not to be had, there is simply no
answer. An error in the server's own `ensureFresh` is caught nowhere and ends the
process (`RequestFails`). Which route is best is a matter of amounts and of `FluxQuote`,
so here a pick is any route of one or two live pools that passes the fixed list of
hooked mints. Left out: what scans of mints find (decimals, fees, hooks; only shown) and
the snapshot.

### FluxQuote, SdkMarket, SdkGaps
Pure functions of an index or of reserves. `FluxQuote` has fees rounded up one after the
other, transfer fees on both sides of a hop, the best pool of a hop, the best route with
its tie rules, the SOL arbitrage, and the swaps of a transaction with their least
outputs; `ProgramOut` is the FluxBeam program as the quotes expect it (external).
`SdkMarket` has CP-Swap's output, the cycle, the plan of a crank as `leverage-math.ts`
ports it, and what the SDK expects of a crank. `SdkGaps` has the ternary search and the
triangle, external and peg gaps.

### Searcher
A tick is where it waits: at the gate of a surface, at a size, at a simulation. `Begin`
reads the reserves every surface of the tick is sized on; the gates of crank surfaces
read config and price anew; `Build` makes the bundle for one size, on the reserves its
builder reads; `SimulatedOk` sends it, `SimulatedReverts` halves the size. A bundle is
three instructions and lands as one transaction on whatever the market has become
(`Land`), or never (`Expire`). Traders, cranks and the underlying move between any two
steps, and the interval starts a tick whether or not the one before has ended. What
Jupiter quotes is one of `Quotes`, what it delivers is its threshold or more.

### Launch
The steps of `launchflow.js` are numbered, the first `LutSteps` are the first batch. A
signed copy is a step with the last valid height of its blockhash: signing the same
instructions over the same blockhash gives the same bytes. `at` is where `landBatch`
awaits; at most the first undone step has a signature out, so `sig` is one variable.
`Send` covers the call that fails after the copy has arrived, `PollElse` the status that
is not there yet, `Probes` the look that fails and finds nothing, `HeightsSeen` an RPC
node that is behind. A copy that failed on the chain stays failed: sending the same
bytes again has no effect until the blockhash expires. `ErrorOf` is what the
programs report, a custom code in every case, so that `errIsBenignDone`, which looks
for "already in use" in the error's JSON, never fires. Progress texts, SOL estimates and
what the instructions contain are left out but for what they build on (`Needs`) and
whether they repeat (`Repeatable`). The ephemeral keys live in the page only: a closed
page is a page that takes no more steps, while the chain goes on.

`StepwiseLaunch` knows nothing of blockhashes, copies, polls and batches: a step is begun
only when all steps before it are on the chain, the launch is called finished only when it
is whole, and after it was given up nothing new is begun. In the refinement (`Stepwise ==
INSTANCE StepwiseLaunch WITH ...` in `Launch`, the property `BuildsStepwise`) a step is begun
when its first copy is sent and built when one has landed; signing anew, polls, probes and
the blocks that pass are stutters.

## 3. Runs

| run | question | properties | expected |
|---|---|---|---|
| `math` | do the functions agree with their reference definitions, at zeroes and on both sides of the thresholds? | `MedianIsExact`, `CrankOpensNoGap`, `SearchNearBest`, `GreedyRouteIsBest`, `ArbIsReal` | pass |
| `rebalance` | whatever traders, the price source and the admin do between cranks, does a crank mint only the loser, within the cap, nothing past the breaker, and never push a basis past its reading? Is a tripped breaker left, and does the basis catch up with a price that rests? | `MintIsCapped`, `BreakerStopsMint`, `BasesNeverOvershoot`, `LoserCheapens`, `BreakerReleases`, `OracleBasisSettles` | pass |
| `cold_start` | does a pair whose price never moved stay as it was? | `NoMoveNoMint` | violated |
| `ledger` | do receipts stay backed and redeemable, USDC conserved, LP undiluted, does a freshly sized deposit land, and is all this the abstract vault? | `ReceiptsBacked`, `ExitOpen`, `PoolNeverEmptied`, `QuoteConserved`, `FreshDepositLands`, `LpNeverDiluted`, `VaultPromise` | pass |
| `crawl` | is the aggregate the median of samples of the right venues, and does the rotation leave no slot and no stale sample behind? | `AggregateIsMedian`, `SampleOfItsSlot`, `SlotFollowsTable`, `AggregateFollows` | pass |
| `crawl_bricks` | once seeded, does the hook's sampling succeed? | `SeededHookWorks` | violated |
| `flux_index` | whatever fails, overlaps or restarts, are a pool's two reserves of one slot, and does the index come to have every pool with its present reserves? | `ReservesOfOneSlot`, `FullScanIsFull`, `IndexCatchesUp` | pass |
| `flux_router` | is a swap transaction built on reserves read after it was asked for, whatever older refreshes write meanwhile? | `BuiltOnFreshReserves` | pass |
| `launch` | are steps built one at a time, in order and as the abstract launch has it, is nothing signed anew while a copy of it may land, is a finished launch complete, does the page come to an end? | `FinishedMeansLanded`, `OneValidCopy`, `BuildsStepwise`, `LaunchEnds` | pass |
| `searcher` | does what lands pay on whatever market it lands, does inventory stay, is the foreseen crank the program's, does every tick end? | `CrankIsPredicted`, `LandedPays`, `VenueBundlesKeepInventory`, `TicksAdvance` | pass |
| `site` | beside each other, does setup-price-crawl leave pairs that crank, does migrate-hook-crawl-one fail no transfer on its way, is no history lost, and do page and server come to show and list what is there? | `SetupRepairs`, `MigrateKeepsTransfers`, `HistoryKept`, `ListedAndCharted`, `ReceiptSettles`, `PageComesToRest` | pass |
| `hook_pump` | do the receipts of a pair transfer once setup-price-crawl has gone through on it, whatever source its page took? | `SetUpPairTransfers` | violated |

The three violations are disagreements between the code and what its comments, docs
or tests say; PROJECT.json quotes both sides ("findings"). `hook_pump`: a page that has found
a PumpSwap pool writes a list of fourteen accounts with the pool and its vaults, while its
config has no source and the pair cranks on its own ratio. setup-price-crawl then takes a
list of that length for the crawl's and does not replace it, switches the source to the
crawl, and from then on the hook is handed the PumpSwap pool for the price_crawl account:
every transfer fails.

Liveness is checked under `FairSpec` and `FairIndexSpec` (see Fairness below). Each
passing property has in PROJECT.json ("mutants") a change of a modelled definition that
breaks it in the same run.

### Observations
What was met on the way and has no run of its own.

Engine:
- `store_sample_and_advance` writes the aggregate at every sample, while
  `price_crawl.rs:5` and NO-ORACLES.md:58 say "on wrap".
- A venue with less than `MIN_BASE_RESERVE` base tokens returns success without
  moving the cursor (`lib.rs:853`), so one that stays thin stops the rotation for good:
  `AggregateFollows` is stated for listed venues that are alive.
- `partial_ratio_advance` absorbs nothing of a gap of one to three units, so
  `OracleBasisSettles` says "within three", of a price in units of 10^-9.
- In a pair of one slot the box is kept at every advance, the next slot being the same.
  When the admin then replaces the table, advance_crawl refuses the new pool, for the
  box names the old one, and the hook goes on sampling the old one. A box kept
  from an old table can in the same way make advance_crawl refuse a pool of the new one.
  `SlotFollowsTable` leaves both out.
- A pool in two neighbouring slots of the table: advance_crawl leaves its vaults in the
  box, and the hook, which never empties it, samples it into the slots after those, too,
  whose votes are then its own until the crank comes round; `price_crawl.rs:3-4` says that the
  pool at the cursor is the one for the slot and that the hook reads it. `SampleOfItsSlot`
  says that this is the only way for a pool to get another's vote, and leaves such pools
  out: without that disjunct TLC finds it violated with the table of two equal neighbours.
- The dust return of a deposit sends the whole balance of the pass-through account to the
  depositor (`lib.rs:1559`): were that account the fee vault (`SharedFeeVault`), the fees
  would go back with it. `harness/tests/pinocchio-fanout.ts:191` sets it up so. With a
  fee vault of its own the fees stay (`FeesStay`, `ImplementsVault`).
- A deposit that names the fee account is sized by the client on the whole USDC
  (`txbuild.js:489`), of which the program first takes the fee: it need not land. The
  site builds deposits without it, which is what `FreshDepositLands` is about.
- A crank that follows the pools' own ratio moves that ratio by its mint, so the gap
  between basis and ratio may be wider after it than before.
- The admin may repeat `register_triangle` (`lib.rs:226`) with other pools, while receipts
  are backed by LP of the first ones. The clients register once.

Launch and set-up:
- `launchflow.js:317`: a copy that lands after the last poll and before the expiry is
  noticed is signed anew without another look. The second copy fails with a custom
  code, which does not count as done; where `stepAlreadyDone` cannot look the step up
  (metadata, config, pools, hand-over), the page sends it for
  the rest of its rounds and gives up on a step that landed, although the comment
  (`launchflow.js:302`) says "until every tx in the batch lands". What holds, and is
  proved, is that no second copy could land with the first (`OneValidCopy`), that a step
  taken for done is done, and that the order is kept. The seed succeeds a second time:
  it is minted twice.
- The page's data for `init_config` and the program's reading of it differ. Behind the
  lamports the page puts pool, kind and price of a PumpSwap source at 58, 90 and 91 of 107
  bytes (`launchflow.js:214-217`); the program reads `fee_bps` at 58 and `buyburn_pool` at 60,
  and a source only from 124 and 125 bytes on (`lib.rs:167-183`). It stores no source, a fee
  made of the pool's first two bytes and, as the pool that `buy_burn` is bound to
  (`lib.rs:346`), bytes that are no pool. The fee takes effect only in deposits that pass a
  fee account, which the site's do not. `app.js:600` says that the on-chain PumpSwap oracle
  is wired where the lookup found a pool; no launch wires it.
- `finish-launch.js --scan` takes any config without a hook list (`txbuild.js:339-346`),
  also one whose page has not yet created the pools, when the config names placeholders:
  it then writes a list of placeholder pools, and transfers fail until
  setup-price-crawl replaces it (`SetupRepairs`). `setup-price-crawl` may, as early, extend
  the table with a placeholder as its first pool, which no advance can ever read; it
  then never goes through.
- `setup-price-crawl` patches the list before it seeds the account, so transfers fail in
  between; `migrate-hook-crawl-one` advances first (`MigrateKeepsTransfers`).
- `patch-metadata` on a pair without names builds updates of which the first fails. Two
  tools that name a pair at once may leave names of both. `backfill.js` and the server
  make up different labels where a pair has none, and a label that a request passes to
  the server's backfill is written to the shared
  registry.
- The launch form may send a launch with the information of another underlying, when that
  lookup answers late.

Site:
- At boot the first refresh starts a poller (`server.js:287`), and what follows that refresh
  starts a second one (`1159`). `ListedAndCharted` holds all the same.
- `migrateSeriesKeys` (`server.js:502-509`) may give a pair the history of its namesake,
  when the other's label could not be read at that moment. `seriesFor`
  (`server.js:542-548`) can return 61 points where its comment says at most 60.
- The page's `/pair/<symbol>` takes the first pair of that symbol, while the server refuses
  ambiguous symbols.
- A withdrawal may be sized on the balance of the pair shown before (`app.js:624`), until
  the next answer; a late answer to a route opens again a pair the user has left.
- FluxBeam pools are made for two receipts written into `fluxbeam.js:43` and looked up at
  `416`; with WSOL as the other side the server finds no SOL price
  (`server.js:1034-1037`). A FluxBeam transfer that was built on a list of accounts
  replaced since fails.

Router and searcher:
- A route over WSOL never creates the WSOL account (`flux-router.js:379`), and closing it
  afterwards unwraps everything it held. The least output of the first hop guards nothing:
  the second hop spends a fixed amount.
- The searcher's simulations are paid by the config account (`loop.ts:98`), so those of
  triangle bundles always revert. In bundles of the triangle intermediate hops have fixed
  inputs and no least output (`executor.ts:172-173`, `188-189`), so they may draw on the
  wallet's synthetics, while `sdk/searchergap/README.md:163-164` and `174` speak of no
  inventory: `LandedPays` holds, and is proved, of all bundles, `VenueBundlesKeepInventory`
  of the others.

### Bounds
- `math`: readings `{0, 1, 2, 5, 8}` of four venues, so zeroes and halves with
  remainders; triangles of depths 40, 90 and 230, ratios that
  moved from 1000 to 900 or 1150, a fee of 25 bps, a cap of 9%; FluxBeam pools of 60, 200
  and 350, two of them of one pair, swaps of 3 and 40: on both sides of where rounding eats the gain.
- `rebalance`: scale 1000, reserves of 100, supplies of 300 within a width of 1000; a
  cap of 4% and a breaker of 50%, on either side of which the prices lie (40000 and 130000
  against a basis of 41000, so that the breaker trips, is left, and the gap walked to its
  end within 32-bit products); all three sources; one surrounding event between
  arbitrarily many cranks. `cold_start` has a basis of zero and two events.
- `ledger`: reserves of 3, a purse of 5, a width of 10, deposits of 1 and 4 USDC with a
  25% fee: a few units are enough for every rounding to go both ways; the state
  space is finite because the USDC and the widths are.
- `crawl`: three slots, which a table fills with a pool in two neighbouring ones and another,
  with three pools, or with one alone; CP-Swap venues and a PumpSwap one, every tag, reserves
  that are cheap, dear or dead, one replacement of the table, the account in its legacy
  size at first. Three slots are what it takes for the hook to leave the two a pool is
  listed in. `crawl_bricks` has two slots, which are enough for the box to be emptied.
- `flux_index`: a hooked seed pool and another one, the two kinds the code treats
  differently; chunks of one pool's two vaults and pages of one pool, so that lists
  need several calls; one failure or omission and one restart anywhere, one swap of each
  pool.
- `flux_router`: a hooked pool and two others, which make a route of two hops; chunks and
  pages hold all of them, for what interleaves here is the request with refreshes, and
  pages only say when pools are known; one pool trades, the other stands for a hop whose
  reserves stay; one failure, no restart but the one a failed request causes.
- `launch`: lookup table, mints (can be looked up), seed (can be repeated), pools,
  hand-over of minting (which the programs would execute before the seed): one of each
  kind of step; a validity of two blocks, a node one block behind, six rounds and five
  blocks: enough for two expiries, and for every step to need a second round.
- `searcher`: pools of 1000 after a swap of 120, so that there is a gap; prices of the
  underlying on either side of the crank's thresholds; two ticks, so that they overlap;
  two sizes per hunt, two events between any two steps.
- `site`: two pairs of one symbol, one there from the start, one wallet, two underlyings, two
  polls and two requests of a kind at work at once. Everything allowed at once would not
  be finished in days and most of it does not interact, so a run begins in one of twelve
  scenes, each allowing what should meet: two runs of scripts with each other, with launches and price sources of both kinds, and failing anywhere; a launch with the server;
  labels with failed reads; renames, alone and with a launch; a crash while saving; the
  first launch of an empty registry; trades; a legacy config that grows; three clicks with a failure,
  with a crash and restart, and of several pairs. Some 350 thousand states.
- `hook_pump`: one pair launched by its page, with every source, and one run of setup-price-crawl.

### Fairness
`WF(Crank(0))`: every receipt transfer fires the hook with leverage 0, and anyone may
call `rebalance`; the properties are about pairs that people use. `WF` of `AdvanceCrawl`:
advance_crawl is permissionless and the repository's scripts call it in a loop.
`FluxIndexer`: the timers go off, and every call of the RPC is answered or
fails, for each origin of refreshes (`IndexFairness`). `Launch`: the page's calls are
answered or fail, the wallet answers, and nothing is assumed of the chain. `SiteServer`:
a stopped process is started again, its timers go on, requests are answered or fail.
`SitePage`: the user signs or refuses, answers come, what was sent lands or is lost, the
form's timer fires. `Searcher` needs none: `TicksAdvance` is an action property, a measure
(`Left`) that every step of a tick lowers. Nowhere is fairness assumed of failures,
restarts, trades, renames, scripts or the admin; they are bounded.

## 4. Proofs

All theorems hold for every value of the constants that satisfies the named
assumptions, which are about constants only and are evaluated by TLC on each run.

`LedgerProofs`, for every width, fee, reserve, amount and slippage under `LedgerAssumption`:

| theorem | property |
|---|---|
| `TypeCorrect` | `TypeOK` |
| `Backed` | `ReceiptsBacked` |
| `AlwaysAnExit` | `ExitOpen` |
| `PoolsStayOpen` | `PoolNeverEmptied` |
| `Conserved` | `QuoteConserved` (and `SynthConserved`) |
| `FreshDepositsLand` | `FreshDepositLands` |
| `FeesStay` | `FeesInVault` |
| `NoDilution` | `LpNeverDiluted` |
| `ImplementsVault` | `VaultPromise`, when the fee vault is an account of its own |
| `StayersKeep` | `StayersLoseNothing`: whose LP stays can redeem it for no less of either token after others joined or left |
| `RoundTripsLose` | `NoFreeRoundTrip`: LP redeemed at once returns no more than it cost, of either token |
| `LpUnitKept` | `LpKeepsItsUnit`: the LP supply never exceeds the geometric mean of the reserves |

`ReceiptsBacked` is not inductive alone: that a withdrawal leaves
something in the pool needs the creator's LP (`PoolNeverEmptied`), which needs
positive reserves (`ReservesPositive`); that the synthetic a withdrawal burns was
minted needs `SynthConserved`; that buy_burn finds its fees needs `FeesInVault`; that the
authority's account is empty between instructions is part of `QuoteConserved`. `IInv` is
their conjunction; there is one lemma per action (`DepositKeepsIInv`, ...), resting on
lemmas about integer division. `ExitOpen` and `FreshDepositLands` follow
from `IInv` alone. `LpNeverDiluted` says that no step lowers the product of a pool's
reserves over the square of its LP supply, and follows from `IInv` and each step; a
crank raises it, for it pays synthetics in without LP. `ImplementsVault` has one
step-simulation lemma per action: each is a step of `ReceiptVault` under the refinement
mapping, or leaves it unchanged; `KeepsWorth` of the vault comes from `NoDilution`.
The last three, which no run checks, say the same for a single LP token: deposits round
up and withdrawals round down, so each fraction of a pool is worth at least what it was
(`DivByCross` compares two rounded fractions by their cross products); of the product over
the square of the supply, which never falls, the first value is one.

`RebalanceProofs`, under `WidthAssumption` and `RebalanceAssumption`:

| theorem | property |
|---|---|
| `TypeCorrect` | `TypeOK` |
| `MintsAreCapped` | `MintIsCapped` |
| `BreakerWorks` | `BreakerStopsMint` |
| `NoOvershoot` | `BasesNeverOvershoot` |
| `OnlyLoserCheapens` | `LoserCheapens` |
| `BasesConverge` | `GapsClose`: a crank that finds a basis four units or more from what it follows brings it strictly nearer, by at least a sixth of the gap unless the 128-bit product saturates |
| `BreakerNotRetripped` | `BreakerStaysReleased`: with an external price no crank trips the breaker for the next one |

Here `TypeOK` is inductive by itself, and the others are properties of single steps that
follow from it. What they rest on are the lemmas of `LeverageProofs` for all arguments:
a partial advance lies between the old basis and its target, also where the 128-bit
product saturates (`AdvanceIsBetween`); a planned mint is at most the cap's share of its
pool (`PlannedMintCapped`); the sign of the plan's move is that of the change of price
(`MoveOfReturn`). `BasesConverge` wants only that the 128-bit type holds the denominator
of a basis point; four units are where the share of a gap that a crank absorbs
rounds to one or more (`AdvanceCloses`). `BreakerNotRetripped` says that a basis nearer to
its reading sees a smaller move (`NearerSeesLess`). The two are the safety behind
`OracleBasisSettles` and `BreakerReleases`.

`PriceCrawlProofs`, under `CrawlAssumption`:

| theorem | property |
|---|---|
| `MedianStored` | `AggregateIsMedian` |
| `SlotsOwnSample` | `SampleOfItsSlot`, for all tables |
| `OneVenueHookWorks` | `SeededHookWorks`, for one slot and no foreign PumpSwap pool |
| `CrawlTypeCorrect` | `TypeOK` |
| `MinorityCannotMove` | `AggregateOfMajority`: the aggregate lies where more than half of the samples do |
| `MedianExact` | `MedianIsExact`, for any readings of any number of venues |
| `StaleOnlyShrinks` | `SamplesFreshen`: while table and venues rest no sample goes stale, and the cursor leaves a slot only with a fresh one |
| `CrankGoesThrough` | `ReadyTakesSample`: in the states called `Ready` advance_crawl takes the pool the cursor asks for |
| `ReadyStays` | `SamplingKeepsReady`, when no table lists a pool twice: nobody who samples leads out of these states |
| `FreshIsFollowed` | `FreshIsMedian`: with no stale sample the aggregate is the median of what the venues say |

`SlotInv` strengthens `SampleOfItsSlot`: until the table is replaced, what is boxed are the
vaults of a pool in two neighbouring slots (`BoxNeighbours`), since advance_crawl keeps the box only
when the next slot is the same pool's; the tables only grow, so neighbours stay neighbours
(`ExtensionKeepsNeighbours`). `OneVenueHookWorks` says that what `crawl_bricks`
refutes holds in such a pair, of which no run speaks. The fields' types are the
inductive `FieldsOK`, to which the type of the aggregate is added last: it is a number because a
median by rank exists for any samples. That calls for an induction over the samples, which the
provers cannot be given; `LeverageProofs` goes around it with the least and the largest of a
finite set of numbers (`NatHasLeast`, `FiniteHasLargest`), from which `RankExists` takes the value of a
rank. That a sorting of the samples exists at all, with which `MedianCheck` defines the
textbook median, needs no induction either: each sample takes the place after those that
come before it (`SortingExists`), and in any sorting the value of a rank stands at that rank
(`RankedOfSorted`). `MinorityCannotMove`
is what a median is there for, and holds whichever of the two writers stored the samples:
two halves of the samples reach to either side of the median (`MedianHalves`), and a
majority has a member in each (`MedianOfMajority`). The last four are the safety behind
`SlotFollowsTable` and `AggregateFollows`: as long as the admin and the traders do nothing,
advance_crawl can be called, each call freshens the slot at the cursor and takes it to
the next one, a round of the cursor freshens all, and the aggregate then follows. That an
advance leaves the box fit for the next one is what takes the work, and why a table that
lists a pool twice is left out (`BoxOfOneSlot` is for the pairs of one slot).

`FluxProofs`, under `IndexAssumption`, for any number of pools, pages and refreshes:

| theorem | property |
|---|---|
| `TypeCorrect` | `TypeOK` |
| `OneSlot` | `ReservesOfOneSlot`, when `RESERVE_CHUNK` is even |
| `RouterTypeCorrect` | `RouterTypeOK` |
| `BuiltFresh` | `BuiltOnFreshReserves` |
| `FullScan`, `FullScanServed` | `FullScanIsFull`, of the index alone and while a request is served |
| `QuietIndexHeals` | `IndexHeals`: with every pool found and nothing in the way, no refresh goes stale, no pool falls behind once the stale ones are gone, and one refresh of everything brings every pool up to date |
| `RoutesBest` | `GreedyRouteIsBest`, for any reserves and amount; of any index `AnyIndexRoutesBest` |
| `ArbsReal` | `ArbIsReal`, for any reserves and amount; of any index of the three mints without hooks, and without a fee on SOL, `AnyIndexArbsReal` |

`OneSlot` rests on `SlotInv`: in every job an even number of vaults was read, pool by
pool, and the two of a pool have one version (`Whole`); an odd chunk would break it at
its first pool. `BuiltFresh` rests on `RequestInv`: what the request's own refresh has read
is no older than the request, and the refresh lists every pool of the pick. The types
need that a job's list names pools that are known (`Within`). `FullScan` rests on `ScanInv`: the
pools of the pages merged so far are known, and nothing takes a pool out of the index but a
restart, which also puts the scan back to its first page. The pages of a scan partition
the pools, in the order of `AllPools`.

`QuietIndexHeals` is the safety behind `IndexCatchesUp`. A refresh is `Fit` if what it has
read is still so on the chain and, when it is one of everything, its list is of every pool: one that
began while the scan was not through would wipe the pools merged since (`Written`), and one that
read before a swap would write what was. Only a swap or an
omission makes a fit refresh unfit, and only one of everything that is started before the scan is
through begins so; those there are go on (`GoesOnFrom`) until they have written or failed.

The last two rows are about the quotes. That the greedy choice is the best is not obvious, for each leg takes
the pool that returns most and each hub is tried with its best first leg only: it is right
because a hop returns no less for more (`QuoteLegOK`, through the fees rounded up and
`LessOK`), so the best first leg dominates every other one whatever the second is
(`QuoteTwoLegsOK`). An arbitrage is quoted hop by hop on the reserves in the index, while
the instructions run one after the other: `ProgramAsQuoted` says that the program pays what the
quote of it is, `SamePoolLoses` that there and back through one pool never yields more
than was put in, hence that an arbitrage with a profit uses two pools (`PairIs`), of which
neither swap disturbs the other (`LandTwo`, `TwoHopsLand`).

`LeverageProofs` has one theorem of its own: by `PlanDilutesAlike` what a crank mints into the
loser's two pools is in proportion to their reserves to within one unit, whatever the
band, the cap and the breaker. That is why a crank opens no gap between the two pools;
how few units of rounding are left of it (`CrankOpensNoGap`) stays with TLC.

`LaunchProofs`, under `LaunchAssumption`, for any steps, validity and lag:

| theorem | property |
|---|---|
| `TypeCorrect` | `TypeOK` |
| `FinishedLaunchesLanded` | `FinishedMeansLanded` |
| `StepsLandInOrder` | `LandsInOrder` |
| `ImplementsStepwise` | `BuildsStepwise` |
| `NoTwoValidCopies` | `OneValidCopy` |
| `EveryStepAdvances` | `PageAdvances`: each step of the page lowers `StepsLeft`, which starts at no more than eight times the rounds and eleven |

The order rests on `OrderInv`: what is marked done landed, a copy was sent only with all
before it landed, and the signature out belongs to the first undone step (`SigOfNext`),
or a status would be put to the wrong step's account. `NoTwoValidCopies` rests on
`ValidInv`: the copies of the batch carry the blockhash in use or one that expired, so
a new blockhash, which is fetched only once a height past the old one was seen, is
never out beside a valid one. `ImplementsStepwise` takes each action to a step of the
abstract launch or to a stutter and needs `OrderInv` where the page sends a step (all
before it landed) and where it finishes. `EveryStepAdvances` is the safety behind
`LaunchEnds`: no answer, loss or delay gives the page more than its rounds, and no step of
the chain puts its end off.

`SearcherProofs`, under `SearcherAssumption` and `WidthAssumption`, for any fee, band,
market, quotes and number of ticks:

| theorem | property |
|---|---|
| `TypeCorrect` | `TypeOK` |
| `LandedBundlesPay` | `LandedPays` |
| `VenueBundlesKeep` | `VenueBundlesKeepInventory` |
| `EveryTickAdvances` | `TicksAdvance` |
| `CrankAlwaysPredicted` | `CrankIsPredicted` |

A bundle lands on a market nobody knew when it was built, so what it does must follow from
its shape. `IInv` adds to the types that every bundle simulated or under way has one of
four shapes (`TriangleBundles`, `CaptureBundles`, `VenueBundles`, `CrankArbBundles`), in
which a later leg takes no more than an earlier one guarantees and the last one guarantees
the input and the profit; the first two theorems follow from the shapes and `Land`.
`EveryTickAdvances` compares `Left`, built of what is left of the tick's surfaces
(`Rest`), of the hunt's tries and of its sizes (`Span`), before and after each step.
`CrankAlwaysPredicted` rests on `PlanIsPorted`: for every basis, price and reserves the
plan as the SDK writes it has the program's side and amounts; the program only wants, besides,
a reading that has a return and amounts that fit their width, as the property says.

`SiteProofs`, under `HookListAssumption` and the assumptions of the modules on top of it, for
any number of pairs, scripts, polls and requests:

| theorem | property |
|---|---|
| `PairsRepaired`, `SiteRepaired` | `SetupRepairs`, of `HookList` and of the whole site |
| `PairsUnharmed`, `SiteUnharmed` | `MigrateKeepsTransfers`, likewise |
| `SavesKeepHistory` | `HistoryKept` |
| `OperationsEnd` | `OperationAdvances`, `OperationBounded`: each step of an operation lowers `OpLeft`, which is seven at most, nothing else raises it, and at zero the page is idle |
| `QuietServerHeals` | `ServerHeals`: of a server nothing fails and nothing is changed for, a refresh that read what there is lists every pair, no poll comes late that was not, and a poll begun over a right registry has charted every pair when it saves |
| `LookupsCome` | `LookupComes`: a form that is looking a token up has a timer or a request before it |
| `OldAnswersRunOut` | `MisledRunOut`: while the user stays and nothing lands, no request begins whose answer would be wrong, and when the old ones are through the page takes over right balances only |

`SetupRepairs` is not inductive. `PairsInv` adds what scripts have read: what was read of a pair
before its pools existed leads to a table without them, which no advance ever reads, so
that setup-price-crawl does not go through on it (`PoolsInv`); for each place of
setup-price-crawl it has what that script has achieved by then and nothing done since can have
undone (`SetupInv`): the config is grown and its source is the crawl, the box is of the present
size, the embeds it read are the crawl's, and in the end the box is seeded; and for
migrate-hook-crawl-one that the box is seeded before the list is written (`MigrateInv`).
No other script or launch takes that back, since each either writes the same or finds that there is nothing to do.
`MigrateUnharmed` goes through the steps of migrate-hook-crawl-one: to fill the box changes
nothing for a list that does not read it and helps one that does (`SeedUnharmed`), and the
list it writes cranks with a full box (`CrawlListCranks`). There is one lemma per step of
launch and scripts, which only looks at its own pair (`Alone`, `OthersKept`); renames,
polls and the page leave the four accounts alone. `SavesKeepHistory` needs that a running
server holds every history that a whole file has (`FileHeld`): it read the file when it
started, and it takes away none, whatever polls overlap. The last four are the safety
behind `PageComesToRest`, `ListedAndCharted` and `ReceiptSettles`. `ServerHeals` is about a step, of anyone,
that leaves configs and names as they are and in which no call fails and no label is given; it needs
what a refresh (`RefreshFit`) or a poll (`LatePolls`, `WillChart`) has read to be what it would read now,
and all steps keep that. `OpShape` says at which places an operation
may be, with which transactions to sign, so that each place has a step that goes on or
gives up; a launch that others drive, too, only goes on (`PagesOnward`). A request is
`Misled` if its answer would not be the balance of the wallet and the pair on the screen:
nothing in the answer says so, but all requests begin with what is on the screen
(`AskedFor`), so that only the old ones mislead.

Only model-checked:
- liveness: `BreakerReleases`, `OracleBasisSettles`, `SlotFollowsTable`, `AggregateFollows`,
  `IndexCatchesUp`, `LaunchEnds`, `ReceiptSettles`, `PageComesToRest`, `ListedAndCharted`. It needs
  fairness and ENABLED, which are out of the provers' reach. The part of each that is
  safety is proved, as named above: every step that
  counts lowers a measure or shrinks a set, no other step undoes it, and at the end what is
  promised holds. What TLC adds is that such a step comes;
- `SearchNearBest`: the search by thirds is a recursion, and the three units it may miss
  the best by are a bound for the reserves of the run, not a law;
- `CrankOpensNoGap`: likewise the two units of rounding. What is behind it for all
  reserves is `PlanDilutesAlike`;
- the types of `PairNames`, `SiteServer` and `SitePage` beyond what the invariants above need.

## 5. How it grew, and what could follow

Built in this order: `LeverageMath`, `Rebalance`, `Ledger`, `PriceCrawl`, `FluxIndexer`,
`FluxRouter`, `Launch` with the proofs of all but the first; then `ReceiptVault` as the
abstract specification of `Ledger`, and later `StepwiseLaunch` as that of `Launch`; the pure functions of the SDK and the router; the
searcher loop and its proofs; and `HookList`, `PairNames`, `SiteServer`, `SitePage`, each on
top of the one before, which `MCSite` composes. What could follow:

- `Ledger`, `Rebalance` and `PriceCrawl` as one specification. What crosses between them is
  covered on either side: `Ledger`'s crank mints any amounts and `Rebalance`'s market
  has any supplies, and so has a crank's leverage that deposits' leftovers dilute.

## 6. What is not modelled

- **Account validation** (owners, PDA seeds, signers, the instructions sysvar) is
  modelled by which calls are possible, not check by check.
- **Contents without behaviour**: URIs and symbols of metadata, the byte layout of
  `megatxn`, account lists of transactions but the hook's, compute budgets, tips, the
  keeper's SOL, static files, the feed's formatting, rendering and charts.
- **Unused or superseded code**: the Anchor programs in `programs/`, the hand-off bundle in
  `site/_handoff`, the site's own copies of `flux-indexer.js` and `flux-router.js`, the
  command-line tool `fluxbeam-pools.js`; of the crate, the single-pool `plan_rebalance`,
  `plan_two_pool_rebalance` and the market caps, which the crank does not call.
- **Discovery of markets** by the SDK, a listing of accounts once per scan.
- **CP-Swap's own swap fees** are left out of `Ledger` and `Rebalance`: they only add to the
  reserves. `SdkMarket` has them, for there they decide what pays.
- **Test drivers** in `harness/` and the one-off scripts other than the two named
  in `HookList` are read as documentation of intended use.

The components in PROJECT.json say for each part how far it is modelled.
