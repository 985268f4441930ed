------------------------------- MODULE HookList -------------------------------
(***************************************************************************)
(* The configs of pairs and the lists of extra accounts that every         *)
(* transfer of a receipt passes to the hook: what the launch page and the  *)
(* operator's scripts write, in transactions of their own and from reads   *)
(* of their own, and what the hook then makes of it.                       *)
(*                                                                         *)
(* A list starts with eleven accounts that only differ in the pools they   *)
(* are of; `tail` is what follows them.                                    *)
(***************************************************************************)
EXTENDS Naturals, Sequences

CONSTANTS Pairs,
          Boot,         \* the pairs that exist from the start
          Oracles,      \* price sources a launch may be given: "none", "pumpswap"
          Scripts,      \* scripts the operator may run: "finish", "setup", "migrate"
          MaxScripts    \* how many runs of them

ASSUME HookListAssumption ==
    /\ Boot \subseteq Pairs /\ MaxScripts \in Nat
    /\ Oracles \subseteq {"none", "pumpswap"}
    /\ Scripts \subseteq {"finish", "setup", "migrate"}

VARIABLES config,   \* config accounts
          crawl,    \* price_crawl accounts: "none", "legacy", "empty" or "seeded" box
          table,    \* root lookup tables: "none", "empty", or the pools of the first venue
          list,     \* ExtraAccountMetaList accounts
          names,    \* what the metadata of a pair's three tokens calls the pair
          page,     \* how far the launch of a pair is
          script,   \* the script at work on a pair, with what it has read
          scripts   \* runs of scripts to come

pairVars == <<config, crawl, table, list, names, page, script, scripts>>

Legacy == 400
Full == 432
CrawlMetaCount == 14
CrawlEmbedCount == 12
FixedEmbeds == 11

NoConfig == [size |-> 0, kind |-> "none", pools |-> "none"]
NoList == [pools |-> "none", tail |-> <<>>]
NoScript == [of |-> "none", at |-> "done", pools |-> "none", tail |-> <<>>, kind |-> "none"]

HasConfig(p) == config[p].size > 0
HasList(p) == list[p] # NoList
Incomplete(p) == HasConfig(p) /\ ~HasList(p)

(* A price_crawl account of either size has a cursor and entries to read.  *)
HasCrawl(p) == crawl[p] # "none"

(* The config, the authority, the mints, the two vaults of each pool and   *)
(* the token program; and the rest.                                        *)
ListOf(pools, tail) == [pools |-> pools, tail |-> tail]

(* Config::oracle_kind, and the client's reading of the same byte: a       *)
(* legacy config has none.  No launch and no script makes it PumpSwap's,   *)
(* and what the program and the clients do for that kind is left out.      *)
Kind(p) == IF config[p].size < Full THEN "none" ELSE config[p].kind

(* A token without metadata has no name; others are called by the label    *)
(* the pair was launched under ("own"), one an operator gave it ("given"), *)
(* or one made of its leverage alone ("bare").                             *)
NameSlots == {"A", "B", "receipt"}
NoName == "none"
Called(label) == [t \in NameSlots |-> label]

(* Legacy pairs, under some label or none, pairs launched since, the       *)
(* price_crawl accounts of the legacy ones, and how many runs of scripts   *)
(* are still to come.                                                      *)
PairsInitWith(legacy, launched, label, boxes, runs) ==
    /\ config = [p \in Pairs |->
                   CASE p \in legacy -> [NoConfig EXCEPT !.size = Legacy, !.pools = "triangle"]
                     [] p \in launched -> [NoConfig EXCEPT !.size = Full, !.pools = "triangle"]
                     [] OTHER -> NoConfig]
    /\ crawl \in [Pairs -> boxes \cup {"none"}]
    /\ table \in [Pairs -> {"none", "triangle"}]
    /\ \A p \in Pairs : boxes = {} \/ p \notin legacy => crawl[p] = "none" /\ table[p] = "none"
    /\ names = [p \in Pairs |-> CASE p \in legacy -> Called(label)
                                  [] p \in launched -> Called("own")
                                  [] OTHER -> Called(NoName)]
    /\ list = [p \in Pairs |->
                 IF p \in legacy \cup launched THEN [NoList EXCEPT !.pools = "triangle"] ELSE NoList]
    /\ page = [p \in Pairs |-> IF p \in legacy \cup launched THEN "done" ELSE "idle"]
    /\ script = [p \in Pairs |-> NoScript]
    /\ scripts = runs

PairsInit == PairsInitWith(Boot, {}, "own", {"legacy"}, MaxScripts)

-----------------------------------------------------------------------------
(* The program's side. *)

(* init_extra_account_metas and patch_hook_metas write the embeds they are *)
(* given, but where the count is that of the crawl layout, they write the  *)
(* twelfth and two accounts that are looked up in its data.                *)
Written(tail, count) ==
    IF count = CrawlMetaCount THEN <<tail[1], "at91", "at123">> ELSE tail

(* Token-2022 looks the accounts up; only a price_crawl has vaults there.  *)
Resolved(p, meta) ==
    IF meta \notin {"at91", "at123"} THEN meta
    ELSE IF list[p].tail[1] = "crawl" /\ crawl[p] = "seeded"
         THEN IF meta = "at91" THEN "venueBase" ELSE "venueQuote"
         ELSE "stray"

Extras(p) == FixedEmbeds + Len(list[p].tail)

Needed(p) ==
    IF Kind(p) = "crawl" THEN IF Extras(p) >= CrawlMetaCount THEN CrawlMetaCount ELSE 12
    ELSE 10

Passed(p) == [i \in DOMAIN list[p].tail |-> Resolved(p, list[p].tail[i])]

(* What run_rebalance makes of the accounts after the first eleven.        *)
OracleRead(p) ==
    CASE Kind(p) = "none" -> "cranked"
      [] Kind(p) = "crawl" /\ Extras(p) >= CrawlMetaCount ->
             IF Passed(p) = <<"crawl", "venueBase", "venueQuote">> THEN "cranked" ELSE "error"
      [] Kind(p) = "crawl" /\ Extras(p) < CrawlMetaCount ->
             IF Passed(p)[1] = "crawl" THEN "cranked" ELSE "error"

(* hook_execute: too few accounts are no error; an error fails the         *)
(* transfer.  The vaults of pools that do not exist are no token accounts. *)
HookExecute(p) ==
    IF ~HasList(p) \/ Extras(p) < Needed(p) THEN "nothing"
    ELSE IF list[p].pools # "triangle" THEN "error"
    ELSE OracleRead(p)

-----------------------------------------------------------------------------
(* What the clients pass. *)

(* buildHookEmbeds, which throws without a price_crawl. *)
CanEmbed(p) == Kind(p) = "crawl" => HasCrawl(p)

Embeds(p) == IF Kind(p) = "crawl" THEN <<"crawl">> ELSE <<>>

HookMetaCount(embedCount, kind) ==
    IF kind = "crawl" /\ embedCount = CrawlEmbedCount THEN CrawlMetaCount ELSE embedCount

-----------------------------------------------------------------------------
(* The launch page.  Its lookup table, the mints with their names and the  *)
(* seeds come first, where nobody sees them;                               *)
CreateMints(p) ==
    /\ page[p] = "idle"
    /\ names' = [names EXCEPT ![p] = Called("own")]
    /\ page' = [page EXCEPT ![p] = "mints"]
    /\ UNCHANGED <<config, crawl, table, list, script, scripts>>

(* then the config, with addresses nobody has for its pools.  The page     *)
(* puts the pool it has found for a price and the kind of that source      *)
(* behind the lamports.  init_config reads a fee and a pool for buybacks   *)
(* from there, finds its data too short for a price source, and stores     *)
(* none.                                                                   *)
InitConfig(p) ==
    /\ page[p] = "mints"
    /\ config' = [config EXCEPT ![p] = [size |-> Full, kind |-> "none", pools |-> "placeholder"]]
    /\ page' = [page EXCEPT ![p] = "config"]
    /\ UNCHANGED <<crawl, table, list, names, script, scripts>>

(* The pools; *)
RegisterTriangle(p) ==
    /\ page[p] = "config"
    /\ config' = [config EXCEPT ![p].pools = "triangle"]
    /\ page' = [page EXCEPT ![p] = "pools"]
    /\ UNCHANGED <<crawl, table, list, names, script, scripts>>

(* the right to mint; *)
HandOver(p) ==
    /\ page[p] = "pools"
    /\ page' = [page EXCEPT ![p] = "handed"]
    /\ UNCHANGED <<config, crawl, table, list, names, script, scripts>>

(* What the page appends to a list for a pair it takes to be priced by a   *)
(* PumpSwap pool.                                                          *)
PumpEmbeds == <<"pump", "pumpBase", "pumpQuote">>

(* and the list.  The page counts its embeds and names that count; a list  *)
(* that is there already is taken for this step's.                         *)
LaunchHookList(p, source) ==
    /\ page[p] = "handed"
    /\ LET tail == IF source = "pumpswap" THEN PumpEmbeds ELSE <<>>
       IN  list' = IF HasList(p) THEN list
                   ELSE [list EXCEPT ![p] =
                           ListOf("triangle", Written(tail, FixedEmbeds + Len(tail)))]
    /\ page' = [page EXCEPT ![p] = "done"]
    /\ UNCHANGED <<config, crawl, table, names, script, scripts>>

LaunchStep(p, source) ==
    \/ CreateMints(p) \/ InitConfig(p) \/ RegisterTriangle(p) \/ HandOver(p)
    \/ LaunchHookList(p, source)

(* The program may mint the pair's tokens, which it must to take deposits  *)
(* and to name tokens.                                                     *)
HandedOver(p) == page[p] \in {"handed", "done"}

-----------------------------------------------------------------------------
(* The operator's scripts. *)

Ends(p) == script' = [script EXCEPT ![p].at = "done"]
Fails(p) == script' = [script EXCEPT ![p].at = "failed"]
Goes(p, at) == script' = [script EXCEPT ![p].at = at]

At(p, of, at) == script[p].of \in of /\ script[p].at = at

(* A script reads the pair's config; finish-launch and init-hook-metas     *)
(* leave it if it has a list.                                              *)
StartScript(p) ==
    /\ scripts > 0
    /\ script[p].at \in {"done", "failed"}
    /\ HasConfig(p)
    /\ scripts' = scripts - 1
    /\ \E of \in Scripts :
          script' = [script EXCEPT ![p] =
            [NoScript EXCEPT !.of = of, !.pools = config[p].pools,
              !.at = CASE of = "finish"  -> IF Incomplete(p) THEN "embeds" ELSE "done"
                       [] of = "setup"   -> "table"
                       [] of = "migrate" -> "embeds"]]
    /\ UNCHANGED <<config, crawl, table, list, names, page>>

(* buildHookEmbeds, in any of the three. *)
ReadEmbeds(p) ==
    /\ script[p].at = "embeds"
    /\ IF CanEmbed(p)
       THEN script' = [script EXCEPT ![p].tail = Embeds(p),
                                     ![p].at = IF script[p].of = "migrate" THEN "migrate" ELSE "kind"]
       ELSE Fails(p)
    /\ UNCHANGED <<config, crawl, table, list, names, page, scripts>>

(* Mutant: a list that is there is left as it is. *)
PatchedAlreadyAny(p, count) == HasList(p)

PatchedAlready(p, count) == HasList(p) /\ Extras(p) = count

(* buildInitHookMetas reads the config again for the kind, and refuses     *)
(* more than twelve embeds; setup-price-crawl takes the kind for granted,  *)
(* and has nothing to do where a list has the length it wants.             *)
ReadKind(p) ==
    /\ script[p].at = "kind"
    /\ LET embeds == FixedEmbeds + Len(script[p].tail)
       IN  IF script[p].of = "finish"
           THEN IF embeds > CrawlEmbedCount THEN Fails(p)
                ELSE script' = [script EXCEPT ![p].kind = Kind(p), ![p].at = "list"]
           ELSE IF PatchedAlready(p, HookMetaCount(embeds, "crawl")) THEN Goes(p, "advance")
                ELSE script' = [script EXCEPT ![p].kind = "crawl", ![p].at = "list"]
    /\ UNCHANGED <<config, crawl, table, list, names, page, scripts>>

(* The transaction with the list: init creates it, patch needs it. *)
LandList(p) ==
    /\ script[p].at = "list"
    /\ LET s == script[p]
           embeds == FixedEmbeds + Len(s.tail)
           count == IF s.of = "migrate" THEN CrawlMetaCount ELSE HookMetaCount(embeds, s.kind)
           enough == count = CrawlMetaCount => embeds >= CrawlEmbedCount
       IN  IF enough /\ (HasList(p) <=> s.of # "finish")
           THEN /\ list' = [list EXCEPT ![p] = ListOf(s.pools, Written(s.tail, count))]
                /\ IF s.of = "setup" THEN Goes(p, "advance") ELSE Ends(p)
           ELSE /\ Fails(p)
                /\ UNCHANGED list
    /\ UNCHANGED <<config, crawl, table, names, page, scripts>>

(* setup-price-crawl: the lookup table, which it takes to be the one of    *)
(* its start, *)
LandTable(p) ==
    /\ script[p].at = "table"
    /\ table' = [table EXCEPT ![p] = IF @ = "none" THEN "empty" ELSE @]
    /\ Goes(p, "venue")
    /\ UNCHANGED <<config, crawl, list, names, page, scripts>>

(* the venue, the pool it read then, which comes after those there are and *)
(* so is the first only in an empty table, *)
LandVenue(p) ==
    /\ script[p].at = "venue"
    /\ table' = [table EXCEPT ![p] = IF @ = "empty" THEN script[p].pools ELSE @]
    /\ Goes(p, "crawl")
    /\ UNCHANGED <<config, crawl, list, names, page, scripts>>

(* the account, *)
LandInitCrawl(p) ==
    /\ script[p].at = "crawl"
    /\ crawl' = [crawl EXCEPT ![p] = IF @ = "none" THEN "empty" ELSE @]
    /\ Goes(p, "oracle")
    /\ UNCHANGED <<config, table, list, names, page, scripts>>

(* set_oracle_kind, which grows a legacy config, *)
SetOracleKind(p, kind) ==
    /\ HasConfig(p)
    /\ config' = [config EXCEPT ![p].size = Full, ![p].kind = kind]

LandOracleKind(p) ==
    /\ script[p].at = "oracle"
    /\ SetOracleKind(p, "crawl")
    /\ Goes(p, "migrate")
    /\ UNCHANGED <<crawl, table, list, names, page, scripts>>

(* Mutant: migrate-hook-crawl-one patches the list without seeding a box.  *)
AfterMigratePatch(of) == IF of = "migrate" THEN "list" ELSE "embeds"

(* migrate-hook-crawl-one advances before it patches, setup-price-crawl    *)
(* after.                                                                  *)
AfterMigrate(of) == IF of = "migrate" THEN "advance" ELSE "embeds"

(* and migrate_price_crawl, which empties the box. *)
LandMigrate(p) ==
    /\ script[p].at = "migrate"
    /\ crawl' = [crawl EXCEPT ![p] = IF @ = "legacy" THEN "empty" ELSE @]
    /\ Goes(p, AfterMigrate(script[p].of))
    /\ UNCHANGED <<config, table, list, names, page, scripts>>

(* crawlVenueAt: what a table lists first must be a pool. *)
VenueFound(p) == table[p] = "triangle" /\ config[p].pools = "triangle"

(* advance_crawl of the pair's one venue, taken not to be thin, which      *)
(* needs the config grown; setup-price-crawl ends without it when it       *)
(* cannot be built.                                                        *)
LandAdvance(p) ==
    /\ script[p].at = "advance"
    /\ \/ /\ HasCrawl(p) /\ config[p].size = Full /\ VenueFound(p)
          /\ crawl' = [crawl EXCEPT ![p] = IF @ = "legacy" THEN @ ELSE "seeded"]
          /\ IF script[p].of = "migrate" THEN Goes(p, "list") ELSE Ends(p)
       \/ /\ UNCHANGED crawl
          /\ Fails(p)
    /\ UNCHANGED <<config, table, list, names, page, scripts>>

(* A request or a transaction fails, and the script with it. *)
ScriptDies(p) ==
    /\ script[p].at \notin {"done", "failed"}
    /\ Fails(p)
    /\ UNCHANGED <<config, crawl, table, list, names, page, scripts>>

ScriptStep(p) ==
    \/ StartScript(p) \/ ScriptDies(p)
    \/ ReadEmbeds(p) \/ ReadKind(p) \/ LandList(p)
    \/ LandTable(p) \/ LandVenue(p) \/ LandInitCrawl(p) \/ LandOracleKind(p)
    \/ LandMigrate(p) \/ LandAdvance(p)

PairsNext ==
    \E p \in Pairs : ScriptStep(p) \/ \E source \in Oracles : LaunchStep(p, source)

PairsSpec == PairsInit /\ [][PairsNext]_pairVars

-----------------------------------------------------------------------------
(* Properties. *)

(* The list the page writes with the accounts of a PumpSwap pool.          *)
FromPump(p) == list[p].tail # <<>> /\ list[p].tail[1] = "pump"

(* Transfers of a pair work, and crank, once setup-price-crawl has gone    *)
(* through on it, whatever list it had before and whoever wrote to it in   *)
(* between: a list of pools that another script took for the pair's before *)
(* they existed is replaced, and what an earlier run left half done is     *)
(* completed.  The one list it does not repair is the page's with the      *)
(* accounts of a PumpSwap pool: SetUpPairTransfers.                        *)
SetupRepairs ==
    \A p \in Pairs :
        At(p, {"setup"}, "done") /\ ~FromPump(p) => HookExecute(p) = "cranked"

(* migrate-hook-crawl-one, at no point of its way, makes the transfers of  *)
(* a pair fail that went through before: when the list comes to name the   *)
(* boxed vaults, vaults are in the box.                                    *)
MigrateKeepsTransfers ==
    [][\A p \in Pairs :
          script[p].of = "migrate" /\ script'[p] # script[p] /\ HookExecute(p) # "error"
              => HookExecute(p)' # "error"]_pairVars

(* setup-price-crawl leaves a pair whose receipts can be transferred,      *)
(* whatever source the page took for its price: the hook must not brick    *)
(* transfers.                                                              *)
SetUpPairTransfers ==
    \A p \in Pairs : At(p, {"setup"}, "done") => HookExecute(p) # "error"
=============================================================================
