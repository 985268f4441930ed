------------------------------- MODULE SitePage -------------------------------
(***************************************************************************)
(* The page (app.js) of one user, and the site as a whole.  The page acts  *)
(* on clicks, on answers of the server to requests it made, and on its     *)
(* timers; answers come in any order, also after the user has moved on.    *)
(* It sends one operation at a time (S.busy).                              *)
(***************************************************************************)
EXTENDS SiteServer

CONSTANTS Wallets,
          Tokens,       \* mints a user may type as the underlying
          Quote,        \* the one that needs no price
          Raydium, PumpSwap,    \* those that have a pool there
          MaxAsks,      \* requests for a receipt balance at once
          MaxOwned,     \* receipts of a pair a wallet may hold
          Scenes        \* where a run starts and what may happen in it

ASSUME SitePageAssumption ==
    /\ MaxAsks \in Nat \ {0} /\ MaxOwned \in Nat
    /\ Raydium \cup PumpSwap \subseteq Tokens /\ {"none", Quote} \cap Tokens = {}
    /\ \A s \in Scenes :
          /\ s.others \subseteq Pairs /\ s.boxes \subseteq {"legacy", "empty", "seeded"}
          /\ s.faults \in Nat /\ s.labels \in Nat

VARIABLES wallet,    \* S.pubkey
          active,    \* S.activePair
          receipt,   \* S.receiptRaw
          asks,      \* /api/tokenbalance requests
          route,     \* the /api/pairs request of a deep link
          op,        \* the operation that keeps the page busy
          sent,      \* transactions that have not landed
          tables,    \* lookup tables of FluxBeam pools: what of them has landed
          owned,     \* receipts the wallets hold
          info,      \* S.sideAInfo
          timer,     \* the lookup that is about to be made
          lookups    \* /api/underlying requests

pageVars == <<wallet, active, receipt, asks, route, op, sent, tables, owned, info, timer, lookups>>
vars == <<pairVars, nameVars, serverVars, pageVars>>

chainAndServer == <<pairVars, nameVars, up, registry, refresh, timers, polls, series, disk, value>>

NoWallet == "none"
NoPair == "none"
NoToken == "none"
NoBalance == MaxOwned + 1
NoAsk == [at |-> "idle", wallet |-> NoWallet, pair |-> NoPair, got |-> NoBalance]
NoOp == [kind |-> "none", at |-> "idle", pair |-> NoPair, wallet |-> NoWallet, amt |-> 0,
         click |-> 0, todo |-> <<>>, hook |-> NoList, quote |-> "none", oracle |-> "none"]

PageInit(connected) ==
    /\ wallet \in connected
    /\ active = NoPair /\ receipt = NoBalance
    /\ asks = [i \in 1..MaxAsks |-> NoAsk]
    /\ route = NoPair
    /\ op = NoOp /\ sent = {} /\ tables = {}
    /\ owned = [w \in Wallets |-> [p \in Pairs |-> IF page[p] = "done" THEN 1 ELSE 0]]
    /\ info = "null" /\ timer = NoToken /\ lookups = {}

-----------------------------------------------------------------------------
(* The balance of the pair's receipts. *)

(* So many new requests; more than MaxAsks at once are left out. *)
Asked(n, w, p) ==
    LET free == {i \in 1..MaxAsks : asks[i].at = "idle"}
        rank(i) == Cardinality({j \in free : j < i})
    IN  IF w = NoWallet \/ p = NoPair THEN asks
        ELSE [i \in 1..MaxAsks |->
                 IF i \in free /\ rank(i) < n
                 THEN [NoAsk EXCEPT !.at = "asked", !.wallet = w, !.pair = p] ELSE asks[i]]

(* Mutant: without the receipts. *)
LoadBalancesWithout(w, p) == asks

LoadBalances(w, p) == Asked(1, w, p)

(* From a timer, while a wallet is connected. *)
PollBalance ==
    /\ wallet # NoWallet /\ active # NoPair
    /\ asks' = LoadBalances(wallet, active)
    /\ UNCHANGED <<chainAndServer, left, wallet, active, receipt, route, op, sent, tables, owned, info,
                   timer, lookups>>

AskRead(i) ==
    /\ up /\ asks[i].at = "asked"
    /\ asks' = [asks EXCEPT ![i].at = "read", ![i].got = owned[asks[i].wallet][asks[i].pair]]
    /\ UNCHANGED <<chainAndServer, left, wallet, active, receipt, route, op, sent, tables, owned, info,
                   timer, lookups>>

(* The page takes an answer for that of the pair it shows. *)
AskAnswer(i) ==
    /\ asks[i].at = "read"
    /\ receipt' = asks[i].got
    /\ asks' = [asks EXCEPT ![i] = NoAsk]
    /\ UNCHANGED <<chainAndServer, left, wallet, active, route, op, sent, tables, owned, info, timer,
                   lookups>>

AskFails(i) ==
    /\ asks[i].at = "asked"
    /\ IF up THEN Spend("faults") ELSE UNCHANGED left
    /\ asks' = [asks EXCEPT ![i] = NoAsk]
    /\ UNCHANGED <<chainAndServer, wallet, active, receipt, route, op, sent, tables, owned, info, timer,
                   lookups>>

AskStep(i) == AskRead(i) \/ AskAnswer(i) \/ AskFails(i)

-----------------------------------------------------------------------------
(* Moving about. *)

Connect(w) ==
    /\ Spend("clicks")
    /\ wallet' = w
    /\ asks' = LoadBalances(w, active)
    /\ UNCHANGED <<chainAndServer, active, receipt, route, op, sent, tables, owned, info, timer, lookups>>

Disconnect ==
    /\ wallet # NoWallet
    /\ Spend("clicks")
    /\ wallet' = NoWallet
    /\ active' = NoPair
    /\ UNCHANGED <<chainAndServer, receipt, asks, route, op, sent, tables, owned, info, timer, lookups>>

(* openPairBy asks for the receipts twice. *)
Opened(p) ==
    /\ active' = p
    /\ receipt' = NoBalance
    /\ asks' = Asked(2, wallet, p)

OpenPair(p) ==
    /\ p \in ListedIn(registry)
    /\ Spend("clicks")
    /\ Opened(p)
    /\ UNCHANGED <<chainAndServer, wallet, route, op, sent, tables, owned, info, timer, lookups>>

GoHome ==
    /\ active # NoPair
    /\ Spend("clicks")
    /\ active' = NoPair
    /\ UNCHANGED <<chainAndServer, wallet, receipt, asks, route, op, sent, tables, owned, info, timer,
                   lookups>>

(* A link, or the back button: the pair is shown at once, and again when   *)
(* the server has answered, wherever the user is by then.                  *)
GoTo(p) ==
    /\ route = NoPair /\ HasConfig(p)
    /\ Spend("clicks")
    /\ active' = p
    /\ receipt' = NoBalance
    /\ route' = p
    /\ UNCHANGED <<chainAndServer, wallet, asks, op, sent, tables, owned, info, timer, lookups>>

RouteAnswer ==
    /\ route # NoPair
    /\ route' = NoPair
    /\ \/ /\ up /\ route \in ListedIn(registry)
          /\ active' = route
          /\ receipt' = NoBalance
          /\ asks' = LoadBalances(wallet, route)
       \/ /\ up /\ route \notin ListedIn(registry)
          /\ asks' = LoadBalances(wallet, active)
          /\ UNCHANGED <<active, receipt>>
       \/ /\ ~up
          /\ UNCHANGED <<active, receipt, asks>>
    /\ UNCHANGED <<chainAndServer, left, wallet, op, sent, tables, owned, info, timer, lookups>>

-----------------------------------------------------------------------------
(* Operations. *)

Idle == op = NoOp /\ wallet # NoWallet
Begins(kind, p, amt) ==
    op' = [NoOp EXCEPT !.kind = kind, !.at = "asked", !.pair = p, !.wallet = wallet, !.amt = amt,
                       !.click = left.clicks]

Deposit ==
    /\ Idle /\ active # NoPair
    /\ Spend("clicks")
    /\ Begins("deposit", active, 1)
    /\ UNCHANGED <<chainAndServer, wallet, active, receipt, asks, route, sent, tables, owned, info, timer,
                   lookups>>

(* A percentage of the balance the page has, whoever's it is by now. *)
Withdraw(pct) ==
    /\ Idle /\ active # NoPair /\ receipt # NoBalance
    /\ (receipt * pct) \div 100 > 0
    /\ Spend("clicks")
    /\ Begins("withdraw", active, (receipt * pct) \div 100)
    /\ UNCHANGED <<chainAndServer, wallet, active, receipt, asks, route, sent, tables, owned, info, timer,
                   lookups>>

(* A FluxBeam pool for the receipts, which needs a sample of their worth, *)
(* against one of two quotes.                                             *)
Flux(quote) ==
    /\ Idle /\ active # NoPair /\ series[active] # NoSeries
    /\ Spend("clicks")
    /\ op' = [NoOp EXCEPT !.kind = "flux", !.at = "asked", !.pair = active, !.wallet = wallet,
                          !.amt = 1, !.click = left.clicks, !.quote = quote]
    /\ UNCHANGED <<chainAndServer, wallet, active, receipt, asks, route, sent, tables, owned, info,
                   timer, lookups>>

(* FluxBeam pools are only made of two receipts; *)
KnownReceipt(p) == p \in Boot

(* and against USDC: the server looks for the price of SOL where none is.  *)
(* It builds for a pair it lists, with its pools.                          *)
CanBuild ==
    /\ op.pair \in ListedIn(registry) /\ registry[op.pair].pools = "triangle"
    /\ op.kind = "flux" => KnownReceipt(op.pair) /\ op.quote = "USDC"

(* A pool takes a lookup table of its own, created and extended first (by  *)
(* twenty addresses at a time, here by all).                               *)
TableTransactions == <<"create", "extend">>

Transactions(kind) == IF kind = "flux" THEN TableTransactions \o <<"pool">> ELSE <<kind>>

(* The transfer to the pool passes the hook the accounts listed by now.    *)
HookAccounts == IF op.kind = "flux" THEN list[op.pair] ELSE NoList

OpBuilt ==
    /\ op.at = "asked" /\ up /\ CanBuild
    /\ op' = [op EXCEPT !.at = "sign", !.todo = Transactions(op.kind), !.hook = HookAccounts]
    /\ UNCHANGED <<chainAndServer, left, wallet, active, receipt, asks, route, sent, tables, owned,
                   info, timer, lookups>>

(* Mutant: the page stays busy. *)
AfterFailureBusy == [op EXCEPT !.at = "failed"]

AfterFailure == NoOp

BuildFails ==
    /\ op.at = "asked"
    /\ IF up /\ CanBuild THEN Spend("faults") ELSE UNCHANGED left
    /\ op' = AfterFailure
    /\ UNCHANGED <<chainAndServer, wallet, active, receipt, asks, route, sent, tables, owned, info, timer,
                   lookups>>

(* The user signs, with the wallet the transaction is for: it is sent, and *)
(* the page does not wait for it to land, but three seconds before the     *)
(* last of a FluxBeam pool.                                                *)
OpSign ==
    /\ op.at = "sign" /\ wallet = op.wallet
    /\ sent' = sent \cup {[click |-> op.click, kind |-> Head(op.todo), wallet |-> op.wallet,
                           pair |-> op.pair, amt |-> op.amt, hook |-> op.hook]}
    /\ LET todo == Tail(op.todo)
       IN  IF todo = <<>>
           THEN op' = NoOp /\ asks' = Asked(2, wallet, active)
           ELSE /\ op' = [op EXCEPT !.todo = todo,
                                    !.at = IF todo = <<"pool">> THEN "wait" ELSE "sign"]
                /\ UNCHANGED asks
    /\ UNCHANGED <<chainAndServer, left, wallet, active, receipt, route, tables, owned, info, timer,
                   lookups>>

OpWaited ==
    /\ op.at = "wait"
    /\ op' = [op EXCEPT !.at = "sign"]
    /\ UNCHANGED <<chainAndServer, left, wallet, active, receipt, asks, route, sent, tables, owned,
                   info, timer, lookups>>

(* The user refuses, or is asked for another wallet's signature. *)
OpRefused ==
    /\ op.at = "sign"
    /\ op' = AfterFailure
    /\ UNCHANGED <<chainAndServer, left, wallet, active, receipt, asks, route, sent, tables, owned, info,
                   timer, lookups>>

(* On the chain.  Receipts are minted and burned without the hook; the     *)
(* pool takes them by a transfer, which needs the table, and which the     *)
(* pair's hook may fail.                                                   *)
Applies(t) ==
    CASE t.kind = "deposit"  -> HandedOver(t.pair) /\ owned[t.wallet][t.pair] < MaxOwned
      [] t.kind = "withdraw" -> owned[t.wallet][t.pair] >= t.amt
      [] t.kind = "create"   -> TRUE
      [] t.kind = "extend"   -> <<t.click, "create">> \in tables
      [] t.kind = "pool"     -> /\ <<t.click, "extend">> \in tables
                                /\ owned[t.wallet][t.pair] >= t.amt
                                /\ list[t.pair] = t.hook
                                /\ HookExecute(t.pair) \in {"nothing", "cranked"}

Land(t) ==
    /\ t \in sent /\ Applies(t)
    /\ owned' = [owned EXCEPT ![t.wallet][t.pair] =
                    CASE t.kind = "deposit" -> @ + t.amt
                      [] t.kind \in {"withdraw", "pool"} -> @ - t.amt
                      [] OTHER -> @]
    /\ tables' = IF t.kind \in {"create", "extend"} THEN tables \cup {<<t.click, t.kind>>} ELSE tables
    /\ sent' = sent \ {t}
    /\ UNCHANGED <<chainAndServer, left, wallet, active, receipt, asks, route, op, info, timer,
                   lookups>>

(* It fails there, or expires. *)
Lost(t) ==
    /\ t \in sent
    /\ sent' = sent \ {t}
    /\ UNCHANGED <<chainAndServer, left, wallet, active, receipt, asks, route, op, tables, owned, info,
                   timer, lookups>>

-----------------------------------------------------------------------------
(* Launching a pair. *)

(* A text that is no mint is answered at once, and so is the quote; a mint *)
(* after 450 ms and a request, unless the user types on.                   *)
Type(t) ==
    /\ Spend("clicks")
    /\ info' = IF t \in Tokens THEN "loading" ELSE IF t = Quote THEN "quote" ELSE "null"
    /\ timer' = IF t \in Tokens THEN t ELSE NoToken
    /\ UNCHANGED <<chainAndServer, wallet, active, receipt, asks, route, op, sent, tables, owned,
                   lookups>>

LookupFire ==
    /\ timer # NoToken
    /\ lookups' = lookups \cup {timer}
    /\ timer' = NoToken
    /\ UNCHANGED <<chainAndServer, left, wallet, active, receipt, asks, route, op, sent, tables, owned,
                   info>>

(* resolvePriceAnchor: the token's Raydium pool, else that of PumpSwap. *)
ResolvePriceAnchor(t) ==
    CASE t \in Raydium -> "raydium"
      [] t \in PumpSwap \ Raydium -> "pumpswap"
      [] OTHER -> "none"

(* A source that cannot be asked has no pool, a PumpSwap pool that cannot  *)
(* be read has no vaults, a token that nobody describes is unknown.        *)
DegradedAnchors(t) ==
    {"none", "failed"} \cup IF t \in PumpSwap THEN {"pumpswap", "vaultless"} ELSE {}

(* Any answer is taken for that to the last text. *)
LookupAnswer(t) ==
    /\ t \in lookups
    /\ lookups' = lookups \ {t}
    /\ \/ /\ up /\ info' = ResolvePriceAnchor(t)
          /\ UNCHANGED left
       \/ /\ up /\ info' \in DegradedAnchors(t)
          /\ Spend("faults")
       \/ /\ ~up /\ info' = "failed"
          /\ UNCHANGED left
    /\ UNCHANGED <<chainAndServer, wallet, active, receipt, asks, route, op, sent, tables, owned,
                   timer>>

(* doLaunch, for new mints and a token with a price; the program is to ask *)
(* a PumpSwap pool for it if the page has its vaults.                      *)
LaunchClick(p) ==
    /\ Idle /\ page[p] = "idle"
    /\ info \in {"quote", "raydium", "pumpswap", "vaultless"}
    /\ Spend("clicks")
    /\ op' = [NoOp EXCEPT !.kind = "launch", !.at = "launch", !.pair = p, !.wallet = wallet,
                          !.oracle = IF info = "pumpswap" THEN "pumpswap" ELSE "none"]
    /\ UNCHANGED <<chainAndServer, wallet, active, receipt, asks, route, sent, tables, owned, info, timer,
                   lookups>>

(* MIMLaunch lands a step, for the price source the page has found. *)
LaunchGoes ==
    /\ op.kind = "launch"
    /\ LaunchStep(op.pair, op.oracle)
    /\ UNCHANGED <<nameVars, serverVars, pageVars>>

(* The page opens the pair it has launched; *)
LaunchDone ==
    /\ op.kind = "launch" /\ page[op.pair] = "done"
    /\ op' = NoOp
    /\ Opened(op.pair)
    /\ UNCHANGED <<chainAndServer, left, wallet, route, sent, tables, owned, info, timer, lookups>>

(* one that fails stays on the chain as far as it got. *)
LaunchFails ==
    /\ op.kind = "launch"
    /\ op' = AfterFailure
    /\ UNCHANGED <<chainAndServer, left, wallet, active, receipt, asks, route, sent, tables, owned, info,
                   timer, lookups>>

-----------------------------------------------------------------------------
(* Meanwhile an admin switches the price source, and a legacy config       *)
(* grows.                                                                  *)
ConfigGrows(p) ==
    /\ config[p].size = Legacy
    /\ Spend("edits")
    /\ SetOracleKind(p, "crawl")
    /\ UNCHANGED <<crawl, table, list, names, page, script, scripts, nameVars, up, registry, refresh,
                   timers, polls, series, disk, value, pageVars>>

OpStep == OpBuilt \/ BuildFails \/ OpSign \/ OpRefused \/ OpWaited
LaunchMoves == LaunchGoes \/ LaunchDone \/ LaunchFails

PageStep ==
    \/ PollBalance
    \/ \E i \in 1..MaxAsks : AskStep(i)
    \/ \E w \in Wallets : Connect(w)
    \/ Disconnect \/ GoHome \/ RouteAnswer
    \/ \E p \in Pairs : OpenPair(p) \/ GoTo(p) \/ LaunchClick(p)
    \/ Deposit
    \/ \E quote \in {"USDC", "SOL"} : Flux(quote)
    \/ \E pct \in {50, 100} : Withdraw(pct)
    \/ OpStep
    \/ \E t \in sent : Land(t) \/ Lost(t)
    \/ \E t \in Tokens \cup {Quote, NoToken} : Type(t)
    \/ LookupFire
    \/ \E t \in lookups : LookupAnswer(t)
    \/ LaunchMoves

(* Other people launch pairs, and the operator runs scripts. *)
OthersStep ==
    /\ \E p \in left.others : ScriptStep(p) \/ \E source \in Oracles : LaunchStep(p, source)
    /\ UNCHANGED <<nameVars, serverVars, pageVars>>

(* Names are given and changed. *)
NamesChange == NamesStep /\ UNCHANGED <<serverVars, pageVars>>
BackfillAsked == \E p \in Pairs : BackfillMetadata(p) /\ UNCHANGED pageVars

Init ==
    /\ \E s \in Scenes :
          /\ PairsInitWith(s.legacy, s.launched, s.label, s.boxes, s.scripts)
          /\ NamesInit(s.renames)
          /\ ServerInit(s.listed, s.listed # {})
          /\ left = [timers |-> s.timers, crashes |-> s.crashes, faults |-> s.faults,
                     edits |-> s.edits, labels |-> s.labels, trades |-> s.trades, clicks |-> s.clicks,
                     others |-> s.others]
          /\ PageInit(s.connected)

Next ==
    \/ OthersStep
    \/ \E p \in Pairs : ConfigGrows(p)
    \/ NamesChange \/ BackfillAsked
    \/ ServerStep /\ UNCHANGED <<pairVars, nameVars, pageVars>>
    \/ PageStep

Spec == Init /\ [][Next]_vars

(* Answers come, timers go on, what was sent lands or is lost, the user    *)
(* signs or refuses.                                                       *)
PageFairness ==
    /\ WF_vars(PollBalance)
    /\ \A i \in 1..MaxAsks : WF_vars(AskRead(i)) /\ WF_vars(AskAnswer(i))
    /\ WF_vars(RouteAnswer)
    /\ WF_vars(OpStep) /\ WF_vars(LaunchMoves)
    /\ WF_vars(\E t \in sent : Land(t) \/ Lost(t))
    /\ WF_vars(LookupFire)
    /\ \A t \in Tokens : WF_vars(LookupAnswer(t))

FairSpec == Spec /\ ServerFairness /\ PageFairness

-----------------------------------------------------------------------------
(* The balance a withdrawal is sized on comes to be that of the wallet and *)
(* the pair on the screen, whichever way they got there, though answers    *)
(* come late and out of order, transactions land after the page looked,    *)
(* and nothing tells the answers apart.                                    *)
ReceiptSettles ==
    <>[](wallet # NoWallet /\ active # NoPair => receipt = owned[wallet][active])

(* Whatever fails or is refused, and whoever leaves in the middle, the     *)
(* page does not stay busy, nor wait for a lookup.                         *)
PageComesToRest == <>[](op = NoOp /\ info # "loading")
=============================================================================
