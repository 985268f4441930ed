------------------------------ MODULE SiteProofs ------------------------------
(***************************************************************************)
(* What the site promises for any number of pairs, scripts, launches,      *)
(* polls and crashes: setup-price-crawl leaves a pair that works, whoever  *)
(* wrote to it before and meanwhile, migrate-hook-crawl-one fails no       *)
(* transfer on its way, and no save loses a history.  At the end, what the *)
(* liveness rests on: the page's operations end, its lookups come, answers *)
(* that would mislead run out, and a server left alone lists and charts    *)
(* what there is.                                                          *)
(***************************************************************************)
EXTENDS SitePage, TLAPS

-----------------------------------------------------------------------------
(* What lists and scripts may hold. *)

PoolsSeen == {"none", "placeholder", "triangle"}
Kinds == {"none", "crawl"}

NoEmbeds == <<>>
CrawlEmbeds == <<"crawl">>
CrawlTail == <<"crawl", "at91", "at123">>
PumpTail == <<"pump", "at91", "at123">>

ConfigType == [size : {0, Legacy, Full}, kind : Kinds, pools : PoolsSeen]

Boxes == {"none", "legacy", "empty", "seeded"}

TablesSeen == {"none", "empty", "placeholder", "triangle"}

ListType == [pools : PoolsSeen, tail : {<<>>, CrawlEmbeds, PumpTail, CrawlTail}]

ScriptPlaces == {"table", "venue", "crawl", "oracle", "migrate", "embeds", "kind", "list",
                 "advance", "done", "failed"}

EmbedsSeen == {<<>>, CrawlEmbeds}

ScriptType == [of : {"none", "finish", "setup", "migrate"}, at : ScriptPlaces,
               pools : PoolsSeen, tail : EmbedsSeen, kind : Kinds]

PairsTyped ==
    /\ config \in [Pairs -> ConfigType]
    /\ crawl \in [Pairs -> Boxes]
    /\ table \in [Pairs -> TablesSeen]
    /\ list \in [Pairs -> ListType]
    /\ page \in [Pairs -> {"idle", "mints", "config", "pools", "handed", "done"}]
    /\ script \in [Pairs -> ScriptType]

(* Tables, lists and scripts come after the config.                        *)
ConfigInv(p) ==
    /\ HasConfig(p) <=> page[p] \notin {"idle", "mints"}
    /\ HasConfig(p) => config[p].pools # "none"
    /\ HasList(p) => HasConfig(p)
    /\ table[p] # "none" => HasConfig(p)
    /\ script[p].pools # "none" => HasConfig(p)
    /\ script[p].of # "none" => script[p].pools # "none"
    /\ script[p].of = "none" => script[p].at = "done"
    /\ script[p].at \in {"table", "venue", "crawl", "oracle"} => script[p].of = "setup"
    /\ script[p].at = "kind" => script[p].of # "migrate"

(* Only legacy configs were born with their pools.  What was read of a     *)
(* pair before they existed leads to a table without them: then the pair   *)
(* has no venue, and no box of it is ever filled.                          *)
PoolsInv(p) ==
    /\ config[p].size = Legacy => config[p].pools = "triangle" /\ script[p].pools # "placeholder"
    /\ table[p] = "triangle" => config[p].pools = "triangle" /\ script[p].pools # "placeholder"
    /\ script[p].pools = "triangle" => config[p].pools = "triangle"
    /\ config[p].kind = "crawl" /\ "placeholder" \in {config[p].pools, script[p].pools}
            => table[p] = "placeholder"
    /\ script[p].tail = CrawlEmbeds /\ script[p].pools = "placeholder" => table[p] = "placeholder"
    /\ list[p].tail = CrawlTail /\ list[p].pools # "triangle" => table[p] = "placeholder"

(* How far setup-price-crawl is, and what it has achieved by then.         *)
Past(p, places) == script[p].of = "setup" /\ script[p].at \in places

SetupInv(p) ==
    /\ Past(p, {"venue"}) => table[p] # "none"
    /\ Past(p, {"crawl", "oracle", "migrate", "embeds", "kind", "list", "advance", "done"}) =>
            table[p] \in {"placeholder", "triangle"}
    /\ Past(p, {"oracle", "migrate", "embeds", "kind", "list", "advance", "done"}) => HasCrawl(p)
    /\ Past(p, {"migrate", "embeds", "kind", "list", "advance", "done"}) =>
            config[p].size = Full /\ config[p].kind = "crawl"
    /\ Past(p, {"embeds", "kind", "list", "advance", "done"}) => crawl[p] # "legacy"
    /\ Past(p, {"kind", "list"}) => script[p].tail = CrawlEmbeds
    /\ Past(p, {"list"}) => script[p].kind = "crawl"
    /\ Past(p, {"advance", "done"}) => HasList(p) /\ list[p].tail \in {CrawlTail, PumpTail}
    /\ Past(p, {"done"}) => crawl[p] = "seeded" /\ table[p] = "triangle"

(* And what migrate-hook-crawl-one has.                                    *)
MigrateInv(p) ==
    script[p].of = "migrate" =>
        /\ script[p].at \in {"advance", "list"} => crawl[p] # "legacy"
        /\ script[p].at = "list" => crawl[p] = "seeded" /\ table[p] = "triangle"

PairInv(p) == ConfigInv(p) /\ PoolsInv(p) /\ SetupInv(p) /\ MigrateInv(p)

PairsInv == PairsTyped /\ \A p \in Pairs : PairInv(p)

LEMMA Tails ==
    /\ Len(<<>>) = 0 /\ Len(CrawlEmbeds) = 1
    /\ Len(PumpEmbeds) = 3 /\ Len(PumpTail) = 3 /\ Len(CrawlTail) = 3
    /\ CrawlTail # PumpTail /\ CrawlEmbeds # <<>> /\ PumpTail # <<>>
    /\ CrawlEmbeds # PumpTail /\ CrawlEmbeds # CrawlTail /\ CrawlTail # <<>>
  BY DEF CrawlEmbeds, CrawlTail, PumpTail, PumpEmbeds

(* A list has the fourteen accounts of a pool with its two vaults, or at   *)
(* most twelve.                                                            *)
LEMMA TailLengths ==
    ASSUME NEW t \in {<<>>, CrawlEmbeds, PumpTail, CrawlTail}
    PROVE  /\ t \in {PumpTail, CrawlTail} => Len(t) = 3
           /\ t \notin {PumpTail, CrawlTail} => Len(t) \in {0, 1}
  <1>1. CASE t = <<>>
    BY <1>1, Tails
  <1>2. CASE t = CrawlEmbeds
    BY <1>2, Tails
  <1>3. CASE t \in {PumpTail, CrawlTail}
    BY <1>3, Tails
  <1> QED BY <1>1, <1>2, <1>3

LEMMA TailsWritten ==
    /\ Written(<<>>, 11) = <<>>
    /\ Written(CrawlEmbeds, 12) = CrawlEmbeds
    /\ Written(CrawlEmbeds, 14) = CrawlTail
    /\ Written(PumpEmbeds, 14) = PumpTail
  BY DEF Written, CrawlMetaCount, CrawlEmbeds, CrawlTail, PumpTail, PumpEmbeds

(* The page's list: its tail goes with the source of the launch.           *)
LEMMA LaunchTail ==
    /\ Written(PumpEmbeds, FixedEmbeds + Len(PumpEmbeds)) = PumpTail
    /\ Written(<<>>, FixedEmbeds + Len(<<>>)) = <<>>
  <1>1. FixedEmbeds + Len(PumpEmbeds) = 14 /\ FixedEmbeds + Len(<<>>) = 11
    BY Tails DEF FixedEmbeds
  <1> QED BY <1>1, TailsWritten

-----------------------------------------------------------------------------
(* A step on one pair leaves the others alone. *)
Alone(p) ==
    \A q \in Pairs \ {p} :
        /\ config'[q] = config[q] /\ crawl'[q] = crawl[q] /\ table'[q] = table[q]
        /\ list'[q] = list[q] /\ page'[q] = page[q] /\ script'[q] = script[q]

LEMMA OthersKept ==
    ASSUME NEW p, NEW q \in Pairs \ {p}, Alone(p), PairInv(q)
    PROVE  PairInv(q)'
  <1>1. ConfigInv(q)'
    BY DEF Alone, PairInv, ConfigInv, HasConfig, HasList
  <1>2. PoolsInv(q)'
    BY DEF Alone, PairInv, PoolsInv
  <1>3. SetupInv(q)'
    BY DEF Alone, PairInv, SetupInv, Past, HasList, HasCrawl
  <1>4. MigrateInv(q)'
    BY DEF Alone, PairInv, MigrateInv
  <1> QED BY <1>1, <1>2, <1>3, <1>4 DEF PairInv

(* What a step on a pair has to show. *)
Keeps(p) == PairsTyped' /\ Alone(p) /\ PairInv(p)'

LEMMA LaunchKeeps ==
    ASSUME PairsInv, NEW p \in Pairs, NEW origin, LaunchStep(p, origin)
    PROVE  Keeps(p)
  <1> USE DEF PairsInv, PairInv, Keeps
  <1>1. CASE UNCHANGED <<config, crawl, table, list, script>> /\ page' \in [Pairs ->
               {"idle", "mints", "config", "pools", "handed", "done"}]
             /\ (page[p] \in {"idle", "mints"} <=> page'[p] \in {"idle", "mints"})
             /\ \A q \in Pairs \ {p} : page'[q] = page[q]
    <2>1. PairsTyped' /\ Alone(p)
      BY <1>1 DEF PairsTyped, Alone
    <2>2. ConfigInv(p)'
      BY <1>1 DEF ConfigInv, HasConfig, HasList
    <2>3. PoolsInv(p)' /\ MigrateInv(p)'
      BY <1>1 DEF PoolsInv, MigrateInv
    <2>4. SetupInv(p)'
      BY <1>1 DEF SetupInv, Past, HasList, HasCrawl
    <2> QED BY <2>1, <2>2, <2>3, <2>4
  <1>2. CASE CreateMints(p)
    BY <1>1, <1>2 DEF CreateMints, PairsTyped
  <1>3. CASE HandOver(p)
    BY <1>1, <1>3 DEF HandOver, PairsTyped
  <1>4. CASE InitConfig(p)
    <2> DEFINE new == [size |-> Full, kind |-> "none", pools |-> "placeholder"]
    <2>1. /\ page[p] = "mints" /\ page' = [page EXCEPT ![p] = "config"]
          /\ config' = [config EXCEPT ![p] = new]
          /\ UNCHANGED <<crawl, table, list, script>>
      BY <1>4 DEF InitConfig
    <2>2. new \in ConfigType
      BY DEF ConfigType, Kinds, PoolsSeen
    <2>3. config'[p] = new /\ PairsTyped' /\ Alone(p)
      BY <2>1, <2>2 DEF PairsTyped, Alone
    <2>4. new.size > 0 /\ new.size = Full /\ new.kind = "none" /\ new.pools = "placeholder"
          /\ Full # Legacy
      BY DEF Full, Legacy
    <2> HIDE DEF new
    <2>5. ~HasConfig(p) /\ ~HasList(p) /\ table[p] = "none" /\ script[p].pools = "none"
          /\ script[p].of = "none"
      BY <2>1 DEF ConfigInv
    <2>6. ConfigInv(p)'
      BY <2>1, <2>3, <2>4, <2>5 DEF ConfigInv, HasConfig, HasList, PairsTyped
    <2>7. PoolsInv(p)'
      <3>1. list[p].tail # CrawlTail
        BY <2>5, Tails DEF HasList, NoList
      <3> QED BY <2>1, <2>3, <2>4, <2>5, <3>1 DEF PoolsInv
    <2>8. SetupInv(p)' /\ MigrateInv(p)'
      BY <2>1, <2>5 DEF SetupInv, Past, MigrateInv
    <2> QED BY <2>3, <2>6, <2>7, <2>8
  <1>5. CASE RegisterTriangle(p)
    <2>1. /\ page[p] = "config" /\ page' = [page EXCEPT ![p] = "pools"]
          /\ config' = [config EXCEPT ![p].pools = "triangle"]
          /\ UNCHANGED <<crawl, table, list, script>>
      BY <1>5 DEF RegisterTriangle
    <2>2. /\ config' \in [Pairs -> ConfigType]
          /\ config'[p].pools = "triangle" /\ config'[p].size = config[p].size
          /\ config'[p].kind = config[p].kind
          /\ \A q \in Pairs \ {p} : config'[q] = config[q]
      BY <2>1 DEF PairsTyped, ConfigType, PoolsSeen
    <2>3. PairsTyped' /\ Alone(p)
      BY <2>1, <2>2 DEF PairsTyped, Alone
    <2>4. ConfigInv(p)'
      BY <2>1, <2>2 DEF ConfigInv, HasConfig, HasList, PairsTyped
    <2>5. PoolsInv(p)'
      BY <2>1, <2>2 DEF PoolsInv
    <2>6. SetupInv(p)' /\ MigrateInv(p)'
      BY <2>1, <2>2 DEF SetupInv, Past, MigrateInv, HasList, HasCrawl
    <2> QED BY <2>3, <2>4, <2>5, <2>6
  <1>6. CASE LaunchHookList(p, origin)
    <2> DEFINE tail == IF origin = "pumpswap" THEN PumpEmbeds ELSE <<>>
               new == Written(tail, FixedEmbeds + Len(tail))
    <2>1. /\ page[p] = "handed" /\ page' = [page EXCEPT ![p] = "done"]
          /\ list' = IF HasList(p) THEN list
                     ELSE [list EXCEPT ![p] = [pools |-> "triangle", tail |-> new]]
          /\ UNCHANGED <<config, crawl, table, script>>
      BY <1>6 DEF LaunchHookList, ListOf
    <2>2. CASE HasList(p)
      BY <1>1, <2>1, <2>2 DEF PairsTyped
    <2>3. CASE ~HasList(p)
      <3>1. new \in {<<>>, PumpTail}
        BY LaunchTail
      <3> HIDE DEF new
      <3>2. [pools |-> "triangle", tail |-> new] \in ListType
        BY <3>1 DEF ListType, PoolsSeen
      <3>3. /\ list' \in [Pairs -> ListType]
            /\ list'[p].pools = "triangle"
            /\ \A q \in Pairs \ {p} : list'[q] = list[q]
        BY <2>1, <2>3, <3>2 DEF PairsTyped
      <3>4. PairsTyped' /\ Alone(p)
        BY <2>1, <3>3 DEF PairsTyped, Alone
      <3>5. ConfigInv(p)'
        BY <2>1 DEF ConfigInv, HasConfig, PairsTyped
      <3>6. PoolsInv(p)'
        BY <2>1, <3>3 DEF PoolsInv
      <3>7. SetupInv(p)' /\ MigrateInv(p)'
        BY <2>1, <2>3 DEF SetupInv, Past, MigrateInv, HasCrawl
      <3> QED BY <3>4, <3>5, <3>6, <3>7
    <2> QED BY <2>2, <2>3
  <1> QED BY <1>2, <1>3, <1>4, <1>5, <1>6 DEF LaunchStep

-----------------------------------------------------------------------------
(* A script after a step: all of its fields, in case it goes on.           *)
Scripted(of, at, pools, tail, kind) ==
    [of |-> of, at |-> at, pools |-> pools, tail |-> tail, kind |-> kind]

LEMMA ScriptTyped ==
    ASSUME PairsTyped, NEW p \in Pairs,
           NEW of \in {"none", "finish", "setup", "migrate"}, NEW at \in ScriptPlaces,
           NEW pools \in PoolsSeen, NEW tail \in EmbedsSeen, NEW kind \in Kinds,
           script' = [script EXCEPT ![p] = Scripted(of, at, pools, tail, kind)]
    PROVE  /\ script' \in [Pairs -> ScriptType]
           /\ script'[p] = Scripted(of, at, pools, tail, kind)
           /\ \A q \in Pairs \ {p} : script'[q] = script[q]
  <1>1. Scripted(of, at, pools, tail, kind) \in ScriptType
    BY DEF Scripted, ScriptType
  <1> QED BY <1>1 DEF PairsTyped

LEMMA ScriptFields ==
    ASSUME PairsTyped, NEW p \in Pairs
    PROVE  /\ script[p].of \in {"none", "finish", "setup", "migrate"}
           /\ script[p].at \in ScriptPlaces /\ script[p].pools \in PoolsSeen
           /\ script[p].tail \in EmbedsSeen /\ script[p].kind \in Kinds
           /\ config[p].size \in {0, Legacy, Full} /\ config[p].kind \in Kinds
           /\ config[p].pools \in PoolsSeen
  BY DEF PairsTyped, ScriptType, ConfigType

(* A script that begins has read nothing but the pair's pools.             *)
LEMMA StartKeeps ==
    ASSUME PairsInv, NEW p \in Pairs, StartScript(p)
    PROVE  Keeps(p)
  <1>1. PICK of \in Scripts :
          script' = [script EXCEPT ![p] =
            [NoScript EXCEPT !.of = of, !.pools = config[p].pools,
              !.at = CASE of = "finish"  -> IF Incomplete(p) THEN "embeds" ELSE "done"
                       [] of = "setup"   -> "table"
                       [] of = "migrate" -> "embeds"]]
    BY DEF StartScript
  <1>2. of \in {"finish", "setup", "migrate"}
    BY HookListAssumption
  <1>3. PICK at \in {"embeds", "done", "table"} :
            /\ script' = [script EXCEPT ![p] = [NoScript EXCEPT !.of = of,
                                                  !.pools = config[p].pools, !.at = at]]
            /\ of = "setup" <=> at = "table"
    <2>1. CASE of = "finish" /\ Incomplete(p)
      BY <1>1, <2>1
    <2>2. CASE of = "finish" /\ ~Incomplete(p)
      BY <1>1, <2>2
    <2>3. CASE of = "setup"
      BY <1>1, <2>3
    <2>4. CASE of = "migrate"
      BY <1>1, <2>4
    <2> QED BY <1>2, <2>1, <2>2, <2>3, <2>4
  <1>4. HasConfig(p) /\ UNCHANGED <<config, crawl, table, list, page>>
    BY DEF StartScript
  <1>5. config[p].pools \in PoolsSeen
    BY DEF PairsInv, PairsTyped, ConfigType
  <1>6. [NoScript EXCEPT !.of = of, !.pools = config[p].pools, !.at = at]
            = Scripted(of, at, config[p].pools, NoEmbeds, "none")
    <2>1. NoScript = Scripted("none", "done", "none", NoEmbeds, "none")
      BY DEF NoScript, Scripted, NoEmbeds
    <2> DEFINE pools == config[p].pools
    <2>2. [NoScript EXCEPT !.of = of, !.pools = pools, !.at = at]
            = [Scripted("none", "done", "none", NoEmbeds, "none")
                 EXCEPT !.of = of, !.pools = pools, !.at = at]
      BY <2>1
    <2> HIDE DEF pools
    <2>3. [Scripted("none", "done", "none", NoEmbeds, "none") EXCEPT !.of = of]
            = Scripted(of, "done", "none", NoEmbeds, "none")
      BY DEF Scripted
    <2>4. [Scripted(of, "done", "none", NoEmbeds, "none") EXCEPT !.pools = pools]
            = Scripted(of, "done", pools, NoEmbeds, "none")
      BY DEF Scripted
    <2>5. [Scripted(of, "done", pools, NoEmbeds, "none") EXCEPT !.at = at]
            = Scripted(of, at, pools, NoEmbeds, "none")
      BY DEF Scripted
    <2> QED BY <2>2, <2>3, <2>4, <2>5 DEF pools
  <1>7. /\ script' \in [Pairs -> ScriptType]
        /\ script'[p] = Scripted(of, at, config[p].pools, NoEmbeds, "none")
        /\ \A q \in Pairs \ {p} : script'[q] = script[q]
    <2>1. at \in ScriptPlaces /\ NoEmbeds \in EmbedsSeen /\ "none" \in Kinds
      BY <1>3 DEF ScriptPlaces, EmbedsSeen, Kinds, NoEmbeds
    <2>2. of \in {"none", "finish", "setup", "migrate"} /\ PairsTyped
      BY <1>2 DEF PairsInv
    <2>3. script' = [script EXCEPT ![p] = Scripted(of, at, config[p].pools, NoEmbeds, "none")]
      BY <1>3, <1>6
    <2> QED BY <1>5, <2>1, <2>2, <2>3, ScriptTyped
  <1>8. PairsTyped' /\ Alone(p)
    BY <1>4, <1>7 DEF PairsInv, PairsTyped, Alone
  <1>9. /\ script'[p].of = of /\ script'[p].at = at /\ script'[p].pools = config[p].pools
        /\ script'[p].tail = NoEmbeds
    BY <1>7 DEF Scripted
  <1>10. PairInv(p)
    BY DEF PairsInv
  <1>11. ConfigInv(p)'
    BY <1>2, <1>3, <1>4, <1>9, <1>10 DEF PairInv, ConfigInv, HasConfig, HasList
  <1>12. PoolsInv(p)'
    <2>1. NoEmbeds # CrawlEmbeds
      BY Tails DEF NoEmbeds
    <2> QED BY <1>4, <1>9, <1>10, <2>1 DEF PairInv, PoolsInv
  <1>13. SetupInv(p)'
    BY <1>3, <1>9 DEF SetupInv, Past
  <1>14. MigrateInv(p)'
    BY <1>3, <1>9 DEF MigrateInv
  <1> QED BY <1>8, <1>11, <1>12, <1>13, <1>14 DEF Keeps, PairInv

(* A script that goes on keeps what it has read.                           *)
LEMMA GoesOn ==
    ASSUME PairsTyped, NEW p \in Pairs, NEW at \in ScriptPlaces, Goes(p, at)
    PROVE  /\ script' \in [Pairs -> ScriptType]
           /\ script'[p].of = script[p].of /\ script'[p].at = at
           /\ script'[p].pools = script[p].pools /\ script'[p].tail = script[p].tail
           /\ script'[p].kind = script[p].kind
           /\ \A q \in Pairs \ {p} : script'[q] = script[q]
  BY DEF Goes, PairsTyped, ScriptType

(* One that fails or ends goes nowhere else.                               *)
LEMMA FailsOrEnds ==
    ASSUME NEW p
    PROVE  (Fails(p) <=> Goes(p, "failed")) /\ (Ends(p) <=> Goes(p, "done"))
  BY DEF Fails, Ends, Goes

(* Where a script may go: it is still the same one.                        *)
GoesFit(p, at) ==
    /\ script[p].at # "done"
    /\ at \in {"table", "venue", "crawl", "oracle"} => script[p].of = "setup"
    /\ at = "kind" => script[p].of # "migrate"

(* What only setup-price-crawl and migrate-hook-crawl-one achieve.         *)
Achieved(p) ==
    /\ script[p].of = "setup" => SetupInv(p)'
    /\ script[p].of = "migrate" => MigrateInv(p)'

LEMMA OfOne ==
    ASSUME NEW p, Achieved(p), script'[p].of = script[p].of
    PROVE  SetupInv(p)' /\ MigrateInv(p)'
  BY DEF Achieved, SetupInv, Past, MigrateInv

(* Steps that only move the script: what is left to show is what the       *)
(* script's new place asks for.                                            *)
LEMMA Moved ==
    ASSUME PairsInv, NEW p \in Pairs, NEW at \in ScriptPlaces, Goes(p, at),
           UNCHANGED <<config, crawl, table, list, page>>,
           GoesFit(p, at), at = "failed" \/ Achieved(p)
    PROVE  Keeps(p)
  <1>1. PairsTyped /\ PairInv(p)
    BY DEF PairsInv
  <1>2. PairsTyped' /\ Alone(p)
    BY <1>1, GoesOn DEF PairsTyped, Alone
  <1>3. ConfigInv(p)'
    BY <1>1, GoesOn DEF PairInv, ConfigInv, HasConfig, HasList, GoesFit
  <1>4. PoolsInv(p)'
    BY <1>1, GoesOn DEF PairInv, PoolsInv
  <1>5. SetupInv(p)' /\ MigrateInv(p)'
    <2>1. CASE at = "failed"
      BY <1>1, <2>1, GoesOn DEF SetupInv, MigrateInv, Past
    <2>2. CASE Achieved(p)
      BY <1>1, <2>2, GoesOn, OfOne
    <2> QED BY <2>1, <2>2
  <1> QED BY <1>2, <1>3, <1>4, <1>5 DEF Keeps, PairInv

LEMMA ScriptDiesKeeps ==
    ASSUME PairsInv, NEW p \in Pairs, ScriptDies(p)
    PROVE  Keeps(p)
  BY FailsOrEnds, Moved DEF ScriptDies, ScriptPlaces, GoesFit

LEMMA EmbedsFit ==
    ASSUME NEW p
    PROVE  /\ Embeds(p) \in EmbedsSeen
           /\ Embeds(p) = CrawlEmbeds <=> Kind(p) = "crawl"
  BY Tails DEF Embeds, EmbedsSeen, CrawlEmbeds

LEMMA ReadEmbedsKeeps ==
    ASSUME PairsInv, NEW p \in Pairs, ReadEmbeds(p)
    PROVE  Keeps(p)
  <1>1. CASE ~CanEmbed(p)
    BY <1>1, FailsOrEnds, Moved DEF ReadEmbeds, ScriptPlaces, GoesFit
  <1>2. CASE CanEmbed(p)
    <2> DEFINE at == IF script[p].of = "migrate" THEN "migrate" ELSE "kind"
               new == Embeds(p)
    <2>1. script' = [script EXCEPT ![p].tail = new, ![p].at = at]
      BY <1>2 DEF ReadEmbeds
    <2>2. script[p].at = "embeds" /\ UNCHANGED <<config, crawl, table, list, page>>
      BY DEF ReadEmbeds
    <2>3. new \in EmbedsSeen /\ (new = CrawlEmbeds <=> Kind(p) = "crawl")
      BY EmbedsFit
    <2>4. at \in {"migrate", "kind"} /\ at \in ScriptPlaces
          /\ (script[p].of = "setup" => at = "kind")
      BY DEF ScriptPlaces
    <2> HIDE DEF at, new
    <2>5. PairsTyped /\ PairInv(p)
      BY DEF PairsInv
    <2>6. /\ script' \in [Pairs -> ScriptType]
          /\ script'[p].of = script[p].of /\ script'[p].at = at
          /\ script'[p].pools = script[p].pools /\ script'[p].tail = new
          /\ \A q \in Pairs \ {p} : script'[q] = script[q]
      BY <2>1, <2>3, <2>4, <2>5 DEF PairsTyped, ScriptType
    <2>7. PairsTyped' /\ Alone(p)
      BY <2>2, <2>5, <2>6 DEF PairsTyped, Alone
    <2>8. ConfigInv(p)'
      <3>1. at = "kind" => script[p].of # "migrate"
        BY DEF at
      <3> QED BY <2>2, <2>4, <2>5, <2>6, <3>1 DEF PairInv, ConfigInv, HasConfig, HasList
    <2>9. PoolsInv(p)'
      <3>1. Kind(p) = "crawl" => config[p].kind = "crawl"
        BY DEF Kind
      <3> QED BY <2>2, <2>3, <2>5, <2>6, <3>1 DEF PairInv, PoolsInv
    <2>10. Achieved(p)
      <3>1. script[p].of = "setup" => SetupInv(p)'
        <4> SUFFICES ASSUME script[p].of = "setup" PROVE SetupInv(p)'
          OBVIOUS
        <4>1. /\ HasCrawl(p) /\ config[p].size = Full /\ config[p].kind = "crawl"
              /\ crawl[p] # "legacy" /\ table[p] \in {"placeholder", "triangle"}
          BY <2>2, <2>5 DEF PairInv, SetupInv, Past
        <4>2. Kind(p) = "crawl"
          BY <4>1 DEF Kind, Full
        <4> QED BY <2>2, <2>3, <2>4, <2>6, <4>1, <4>2 DEF SetupInv, Past, HasCrawl
      <3>2. MigrateInv(p)'
        BY <2>4, <2>6 DEF MigrateInv
      <3> QED BY <3>1, <3>2 DEF Achieved
    <2> QED BY <2>6, <2>7, <2>8, <2>9, <2>10, OfOne DEF Keeps, PairInv
  <1> QED BY <1>1, <1>2

LEMMA ReadKindKeeps ==
    ASSUME PairsInv, NEW p \in Pairs, ReadKind(p)
    PROVE  Keeps(p)
  <1> DEFINE embeds == FixedEmbeds + Len(script[p].tail)
  <1>1. script[p].at = "kind" /\ UNCHANGED <<config, crawl, table, list, page>>
    BY DEF ReadKind
  <1>2. PairsTyped /\ PairInv(p)
    BY DEF PairsInv
  <1>3. CASE Fails(p)
    BY <1>1, <1>3, FailsOrEnds, Moved DEF ScriptPlaces, GoesFit
  <1>4. ASSUME NEW kind \in Kinds, script[p].of = "setup" => kind = "crawl",
               script[p].of # "migrate",
               script' = [script EXCEPT ![p].kind = kind, ![p].at = "list"]
        PROVE  Keeps(p)
    <2>1. /\ script' \in [Pairs -> ScriptType]
          /\ script'[p].of = script[p].of /\ script'[p].at = "list"
          /\ script'[p].pools = script[p].pools /\ script'[p].tail = script[p].tail
          /\ script'[p].kind = kind
          /\ \A q \in Pairs \ {p} : script'[q] = script[q]
      BY <1>2, <1>4 DEF PairsTyped, ScriptType, ScriptPlaces
    <2>2. PairsTyped' /\ Alone(p)
      BY <1>1, <1>2, <2>1 DEF PairsTyped, Alone
    <2>3. ConfigInv(p)'
      BY <1>1, <1>2, <2>1 DEF PairInv, ConfigInv, HasConfig, HasList
    <2>4. PoolsInv(p)'
      BY <1>1, <1>2, <2>1 DEF PairInv, PoolsInv
    <2>5. SetupInv(p)'
      BY <1>1, <1>2, <1>4, <2>1 DEF PairInv, SetupInv, Past, HasCrawl
    <2>6. MigrateInv(p)'
      BY <1>4, <2>1 DEF MigrateInv
    <2> QED BY <2>2, <2>3, <2>4, <2>5, <2>6 DEF Keeps, PairInv
  <1>5. CASE script[p].of # "finish" /\ PatchedAlready(p, HookMetaCount(embeds, "crawl"))
             /\ Goes(p, "advance") /\ script[p].of # "migrate"
    <2>1. script[p].of = "setup"
      BY <1>1, <1>2, <1>5, ScriptFields DEF PairInv, ConfigInv
    <2>2. script[p].tail = CrawlEmbeds
      BY <1>1, <1>2, <2>1 DEF PairInv, SetupInv, Past
    <2>3. embeds = 12
      BY <2>2, Tails DEF FixedEmbeds
    <2>4. HookMetaCount(embeds, "crawl") = 14
      BY <2>3 DEF HookMetaCount, CrawlEmbedCount, CrawlMetaCount
    <2> DEFINE n == Len(list[p].tail)
    <2>5. HasList(p) /\ FixedEmbeds + n = 14
      BY <1>5, <2>4 DEF PatchedAlready, Extras
    <2>6. /\ list[p].tail \in {PumpTail, CrawlTail} => n = 3
          /\ list[p].tail \notin {PumpTail, CrawlTail} => n \in {0, 1}
      BY <1>2, TailLengths DEF PairsTyped, ListType
    <2> HIDE DEF n
    <2>7. list[p].tail \in {PumpTail, CrawlTail}
      <3>1. n \notin {0, 1}
        BY <2>5 DEF FixedEmbeds
      <3> QED BY <2>6, <3>1
    <2>8. SetupInv(p)'
      BY <1>1, <1>2, <1>5, <2>1, <2>5, <2>7, GoesOn
         DEF PairInv, SetupInv, Past, HasCrawl, HasList, ScriptPlaces
    <2> QED BY <1>1, <1>5, <2>1, <2>8, Moved DEF ScriptPlaces, GoesFit, Achieved
  <1>6. Kind(p) \in Kinds
    BY <1>2, ScriptFields DEF Kind, Kinds
  <1>7. "crawl" \in Kinds
    BY DEF Kinds
  <1>8. script[p].of # "migrate"
    BY <1>1, <1>2 DEF PairInv, ConfigInv
  <1> QED BY <1>3, <1>4, <1>5, <1>6, <1>7, <1>8 DEF ReadKind

(* What a script writes: the crawl's tail comes of the crawl's embeds, and *)
(* from setup-price-crawl no other.                                        *)
LEMMA TailFits ==
    ASSUME NEW tail \in EmbedsSeen, NEW kind \in Kinds, NEW of,
           LET embeds == FixedEmbeds + Len(tail)
               count == IF of = "migrate" THEN CrawlMetaCount ELSE HookMetaCount(embeds, kind)
           IN  count = CrawlMetaCount => embeds >= CrawlEmbedCount
    PROVE  LET embeds == FixedEmbeds + Len(tail)
               count == IF of = "migrate" THEN CrawlMetaCount ELSE HookMetaCount(embeds, kind)
               new == Written(tail, count)
           IN  /\ new \in {NoEmbeds, CrawlEmbeds, CrawlTail}
               /\ new = CrawlTail => tail = CrawlEmbeds
               /\ of = "setup" /\ tail = CrawlEmbeds /\ kind = "crawl" => new = CrawlTail
               /\ of = "migrate" => new = CrawlTail
  <1> DEFINE embeds == FixedEmbeds + Len(tail)
             count == IF of = "migrate" THEN CrawlMetaCount ELSE HookMetaCount(embeds, kind)
             new == Written(tail, count)
  <1>1. /\ Written(NoEmbeds, 11) = NoEmbeds
        /\ CrawlEmbeds # NoEmbeds /\ CrawlTail # NoEmbeds /\ Len(NoEmbeds) = 0
    BY Tails, TailsWritten DEF NoEmbeds
  <1>2. CASE tail = NoEmbeds
    <2>1. embeds = 11
      BY <1>1, <1>2 DEF FixedEmbeds
    <2>2. count = 11 /\ of # "migrate"
      BY <2>1 DEF HookMetaCount, CrawlEmbedCount, CrawlMetaCount
    <2>3. new = NoEmbeds
      BY <1>1, <1>2, <2>2
    <2> HIDE DEF new
    <2>4. new # CrawlTail /\ tail # CrawlEmbeds
      BY <1>1, <1>2, <2>3
    <2> QED BY <2>2, <2>3, <2>4 DEF new
  <1>3. CASE tail = CrawlEmbeds
    <2>1. embeds = 12
      BY <1>3, Tails DEF FixedEmbeds
    <2>2. count \in {12, 14} /\ (of = "setup" /\ kind = "crawl" => count = 14)
          /\ (of = "migrate" => count = 14)
      BY <2>1 DEF HookMetaCount, CrawlEmbedCount, CrawlMetaCount
    <2> HIDE DEF count
    <2>3. /\ count = 12 => new = CrawlEmbeds
          /\ count = 14 => new = CrawlTail
      BY <1>3, TailsWritten
    <2> HIDE DEF new
    <2> QED BY <1>3, <2>2, <2>3 DEF new, count
  <1> QED BY <1>2, <1>3 DEF EmbedsSeen, NoEmbeds

(* What LandList leaves, when it goes through.                             *)
LEMMA ListLanded ==
    ASSUME PairsInv, NEW p \in Pairs, LandList(p), ~Fails(p) \/ list' # list
    PROVE  \E new \in {NoEmbeds, CrawlEmbeds, CrawlTail} :
              /\ list' = [list EXCEPT ![p] = [pools |-> script[p].pools, tail |-> new]]
              /\ new = CrawlTail => script[p].tail = CrawlEmbeds
              /\ script[p].of = "setup" => new = CrawlTail
              /\ script[p].of = "migrate" => new = CrawlTail
              /\ HasList(p) <=> script[p].of # "finish"
              /\ Goes(p, IF script[p].of = "setup" THEN "advance" ELSE "done")
  <1> DEFINE s == script[p]
             embeds == FixedEmbeds + Len(s.tail)
             count == IF s.of = "migrate" THEN CrawlMetaCount ELSE HookMetaCount(embeds, s.kind)
             enough == count = CrawlMetaCount => embeds >= CrawlEmbedCount
             new == Written(s.tail, count)
  <1>1. /\ s.at = "list" /\ enough /\ (HasList(p) <=> s.of # "finish")
        /\ list' = [list EXCEPT ![p] = ListOf(s.pools, Written(s.tail, count))]
        /\ IF s.of = "setup" THEN Goes(p, "advance") ELSE Ends(p)
    BY DEF LandList
  <1>2. /\ new \in {NoEmbeds, CrawlEmbeds, CrawlTail}
        /\ new = CrawlTail => s.tail = CrawlEmbeds
        /\ s.of = "setup" /\ s.tail = CrawlEmbeds /\ s.kind = "crawl" => new = CrawlTail
        /\ s.of = "migrate" => new = CrawlTail
    BY <1>1, ScriptFields, TailFits DEF PairsInv
  <1>3. list' = [list EXCEPT ![p] = [pools |-> s.pools, tail |-> new]]
    BY <1>1 DEF ListOf
  <1> HIDE DEF new, count, embeds, enough
  <1>4. s.of = "setup" => new = CrawlTail
    BY <1>1, <1>2 DEF PairsInv, PairInv, SetupInv, Past
  <1>5. Goes(p, IF s.of = "setup" THEN "advance" ELSE "done")
    BY <1>1, FailsOrEnds
  <1> QED BY <1>1, <1>2, <1>3, <1>4, <1>5

LEMMA LandListKeeps ==
    ASSUME PairsInv, NEW p \in Pairs, LandList(p)
    PROVE  Keeps(p)
  <1>1. script[p].at = "list" /\ UNCHANGED <<config, crawl, table, page>>
    BY DEF LandList
  <1>2. PairsTyped /\ PairInv(p)
    BY DEF PairsInv
  <1>3. CASE Fails(p) /\ UNCHANGED list
    BY <1>1, <1>3, FailsOrEnds, Moved DEF ScriptPlaces, GoesFit
  <1>4. CASE ~(Fails(p) /\ UNCHANGED list)
    <2>1. PICK new \in {NoEmbeds, CrawlEmbeds, CrawlTail} :
            /\ list' = [list EXCEPT ![p] = [pools |-> script[p].pools, tail |-> new]]
            /\ new = CrawlTail => script[p].tail = CrawlEmbeds
            /\ script[p].of = "setup" => new = CrawlTail
            /\ script[p].of = "migrate" => new = CrawlTail
            /\ HasList(p) <=> script[p].of # "finish"
            /\ Goes(p, IF script[p].of = "setup" THEN "advance" ELSE "done")
      BY <1>4, ListLanded
    <2>2. [pools |-> script[p].pools, tail |-> new] \in ListType
      BY <1>2, ScriptFields DEF ListType, NoEmbeds
    <2>3. /\ list' \in [Pairs -> ListType]
          /\ list'[p].pools = script[p].pools /\ list'[p].tail = new
          /\ \A q \in Pairs \ {p} : list'[q] = list[q]
      BY <1>2, <2>1, <2>2 DEF PairsTyped
    <2>4. PICK at \in ScriptPlaces :
            Goes(p, at) /\ at = IF script[p].of = "setup" THEN "advance" ELSE "done"
      BY <2>1 DEF ScriptPlaces
    <2>5. PairsTyped' /\ Alone(p)
      BY <1>1, <1>2, <2>3, <2>4, GoesOn DEF PairsTyped, Alone
    <2>6. HasConfig(p) /\ script[p].pools # "none" /\ script[p].of # "none"
      BY <1>1, <1>2 DEF PairInv, ConfigInv
    <2>7. ConfigInv(p)'
      BY <1>1, <1>2, <2>4, <2>6, GoesOn DEF PairInv, ConfigInv, HasConfig
    <2>8. PoolsInv(p)'
      <3>1. list'[p].tail = CrawlTail /\ list'[p].pools # "triangle" => table[p] = "placeholder"
        BY <1>2, <2>1, <2>3, <2>6, ScriptFields DEF PairInv, PoolsInv, PoolsSeen
      <3> QED BY <1>1, <1>2, <2>4, <3>1, GoesOn DEF PairInv, PoolsInv
    <2>9. Achieved(p)
      <3>1. script[p].of = "setup" => SetupInv(p)'
        <4> SUFFICES ASSUME script[p].of = "setup" PROVE SetupInv(p)'
          OBVIOUS
        <4>1. /\ HasCrawl(p) /\ config[p].size = Full /\ config[p].kind = "crawl"
              /\ crawl[p] # "legacy" /\ table[p] \in {"placeholder", "triangle"}
          BY <1>1, <1>2 DEF PairInv, SetupInv, Past
        <4>2. list'[p].pools # "none" /\ list'[p].tail = CrawlTail
          BY <2>1, <2>3, <2>6
        <4>3. list'[p] # NoList
          BY <4>2 DEF NoList
        <4> QED BY <1>1, <1>2, <2>4, <4>1, <4>2, <4>3, GoesOn
                DEF SetupInv, Past, HasCrawl, HasList
      <3>2. script[p].of = "migrate" => MigrateInv(p)'
        BY <1>2, <2>4, GoesOn DEF MigrateInv
      <3> QED BY <3>1, <3>2 DEF Achieved
    <2>10. script'[p].of = script[p].of
      BY <1>2, <2>4, GoesOn
    <2> QED BY <2>5, <2>7, <2>8, <2>9, <2>10, OfOne DEF Keeps, PairInv
  <1> QED BY <1>3, <1>4

(* Steps that change the table, the price_crawl account or the config and  *)
(* move on.                                                                *)
LEMMA MovedOn ==
    ASSUME PairsInv, NEW p \in Pairs, NEW at \in ScriptPlaces, Goes(p, at), GoesFit(p, at),
           UNCHANGED <<list, page>>,
           config' \in [Pairs -> ConfigType], crawl' \in [Pairs -> Boxes],
           table' \in [Pairs -> TablesSeen],
           \A q \in Pairs \ {p} : /\ config'[q] = config[q] /\ crawl'[q] = crawl[q]
                                  /\ table'[q] = table[q],
           config'[p].pools = config[p].pools,
           HasConfig(p), HasConfig(p)',
           PoolsInv(p)', Achieved(p)
    PROVE  Keeps(p)
  <1>1. PairsTyped /\ PairInv(p)
    BY DEF PairsInv
  <1>2. PairsTyped' /\ Alone(p)
    BY <1>1, GoesOn DEF PairsTyped, Alone
  <1>3. ConfigInv(p)'
    BY <1>1, GoesOn DEF PairInv, ConfigInv, HasConfig, HasList, GoesFit
  <1>4. SetupInv(p)' /\ MigrateInv(p)'
    BY <1>1, GoesOn, OfOne
  <1> QED BY <1>2, <1>3, <1>4 DEF Keeps, PairInv

(* The steps of setup-price-crawl.                                         *)
LEMMA LandTableKeeps ==
    ASSUME PairsInv, NEW p \in Pairs, LandTable(p)
    PROVE  Keeps(p)
  <1>1. PairsTyped /\ PairInv(p) /\ "venue" \in ScriptPlaces
    BY DEF PairsInv, ScriptPlaces
  <1>2. /\ script[p].at = "table" /\ Goes(p, "venue") /\ UNCHANGED <<config, crawl, list, page>>
        /\ table' = [table EXCEPT ![p] = IF @ = "none" THEN "empty" ELSE @]
    BY DEF LandTable
  <1>3. /\ table' \in [Pairs -> TablesSeen] /\ table'[p] # "none"
        /\ table'[p] = "triangle" => table[p] = "triangle"
        /\ table[p] = "placeholder" => table'[p] = "placeholder"
        /\ \A q \in Pairs \ {p} : table'[q] = table[q]
    BY <1>1, <1>2 DEF PairsTyped, TablesSeen
  <1>4. script[p].of = "setup" /\ HasConfig(p) /\ HasConfig(p)'
    BY <1>1, <1>2 DEF PairInv, ConfigInv, HasConfig
  <1>5. PoolsInv(p)'
    BY <1>1, <1>2, <1>3, GoesOn DEF PairInv, PoolsInv
  <1>6. Achieved(p)
    BY <1>1, <1>2, <1>3, <1>4, GoesOn DEF Achieved, SetupInv, Past
  <1>7. GoesFit(p, "venue")
    BY <1>2, <1>4 DEF GoesFit
  <1> QED BY <1>1, <1>2, <1>3, <1>4, <1>5, <1>6, <1>7, MovedOn DEF PairsTyped

LEMMA LandVenueKeeps ==
    ASSUME PairsInv, NEW p \in Pairs, LandVenue(p)
    PROVE  Keeps(p)
  <1>1. PairsTyped /\ PairInv(p) /\ "crawl" \in ScriptPlaces
    BY DEF PairsInv, ScriptPlaces
  <1>2. /\ script[p].at = "venue" /\ Goes(p, "crawl") /\ UNCHANGED <<config, crawl, list, page>>
        /\ table' = [table EXCEPT ![p] = IF @ = "empty" THEN script[p].pools ELSE @]
    BY DEF LandVenue
  <1>3. script[p].of = "setup" /\ HasConfig(p) /\ HasConfig(p)'
    BY <1>1, <1>2 DEF PairInv, ConfigInv, HasConfig
  <1>4. table[p] # "none" /\ script[p].pools \in {"placeholder", "triangle"}
    BY <1>1, <1>2, <1>3, ScriptFields DEF PairInv, ConfigInv, SetupInv, Past, PoolsSeen
  <1>5. /\ table' \in [Pairs -> TablesSeen]
        /\ table'[p] = IF table[p] = "empty" THEN script[p].pools ELSE table[p]
        /\ table'[p] \in {"placeholder", "triangle"}
        /\ \A q \in Pairs \ {p} : table'[q] = table[q]
    BY <1>1, <1>2, <1>4 DEF PairsTyped, TablesSeen
  <1>6. PoolsInv(p)'
    BY <1>1, <1>2, <1>4, <1>5, GoesOn DEF PairInv, PoolsInv
  <1>7. Achieved(p)
    BY <1>1, <1>2, <1>3, <1>5, GoesOn DEF Achieved, SetupInv, Past
  <1>8. GoesFit(p, "crawl")
    BY <1>2, <1>3 DEF GoesFit
  <1> QED BY <1>1, <1>2, <1>3, <1>5, <1>6, <1>7, <1>8, MovedOn DEF PairsTyped

LEMMA LandInitCrawlKeeps ==
    ASSUME PairsInv, NEW p \in Pairs, LandInitCrawl(p)
    PROVE  Keeps(p)
  <1>1. PairsTyped /\ PairInv(p) /\ "oracle" \in ScriptPlaces
    BY DEF PairsInv, ScriptPlaces
  <1>2. /\ script[p].at = "crawl" /\ Goes(p, "oracle")
        /\ UNCHANGED <<config, table, list, page>>
        /\ crawl' = [crawl EXCEPT ![p] = IF @ = "none" THEN "empty" ELSE @]
    BY DEF LandInitCrawl
  <1>3. /\ crawl' \in [Pairs -> Boxes]
        /\ HasCrawl(p)'
        /\ \A q \in Pairs \ {p} : crawl'[q] = crawl[q]
    BY <1>1, <1>2 DEF PairsTyped, HasCrawl, Boxes
  <1>4. script[p].of = "setup" /\ HasConfig(p) /\ HasConfig(p)'
    BY <1>1, <1>2 DEF PairInv, ConfigInv, HasConfig
  <1>5. PoolsInv(p)'
    BY <1>1, <1>2, GoesOn DEF PairInv, PoolsInv
  <1>6. Achieved(p)
    BY <1>1, <1>2, <1>3, <1>4, GoesOn DEF PairInv, Achieved, SetupInv, Past
  <1>7. GoesFit(p, "oracle")
    BY <1>2, <1>4 DEF GoesFit
  <1> QED BY <1>1, <1>2, <1>3, <1>4, <1>5, <1>6, <1>7, MovedOn DEF PairsTyped

(* set_oracle_kind grows the config.                                       *)
LEMMA OracleKindSet ==
    ASSUME PairsTyped, NEW p \in Pairs, SetOracleKind(p, "crawl")
    PROVE  /\ config' \in [Pairs -> ConfigType]
           /\ config'[p].size = Full /\ config'[p].kind = "crawl"
           /\ config'[p].pools = config[p].pools
           /\ \A q \in Pairs \ {p} : config'[q] = config[q]
           /\ HasConfig(p) /\ HasConfig(p)' /\ config'[p].size # Legacy
  <1>1. /\ config' \in [Pairs -> ConfigType]
        /\ config'[p].size = Full /\ config'[p].kind = "crawl"
        /\ config'[p].pools = config[p].pools
        /\ \A q \in Pairs \ {p} : config'[q] = config[q]
    BY DEF SetOracleKind, PairsTyped, ConfigType, Kinds
  <1>2. HasConfig(p) /\ HasConfig(p)' /\ config'[p].size # Legacy
    BY <1>1 DEF SetOracleKind, HasConfig, Full, Legacy
  <1> QED BY <1>1, <1>2

LEMMA LandOracleKindKeeps ==
    ASSUME PairsInv, NEW p \in Pairs, LandOracleKind(p)
    PROVE  Keeps(p)
  <1>1. PairsTyped /\ PairInv(p) /\ "migrate" \in ScriptPlaces
    BY DEF PairsInv, ScriptPlaces
  <1>2. /\ script[p].at = "oracle" /\ SetOracleKind(p, "crawl") /\ Goes(p, "migrate")
        /\ UNCHANGED <<crawl, table, list, page>>
    BY DEF LandOracleKind
  <1>3. script[p].of = "setup"
    BY <1>1, <1>2 DEF PairInv, ConfigInv
  <1>4. HasCrawl(p) /\ table[p] \in {"placeholder", "triangle"}
    BY <1>1, <1>2, <1>3 DEF PairInv, SetupInv, Past
  <1>5. PoolsInv(p)'
    <2>1. "placeholder" \in {config[p].pools, script[p].pools} => table[p] = "placeholder"
      BY <1>1, <1>4 DEF PairInv, PoolsInv
    <2> QED BY <1>1, <1>2, <2>1, OracleKindSet, GoesOn DEF PairInv, PoolsInv
  <1>6. Achieved(p)
    BY <1>1, <1>2, <1>3, <1>4, OracleKindSet, GoesOn DEF Achieved, SetupInv, Past, HasCrawl
  <1>7. GoesFit(p, "migrate")
    BY <1>2 DEF GoesFit
  <1> QED BY <1>1, <1>2, <1>5, <1>6, <1>7, OracleKindSet, MovedOn DEF PairsTyped

LEMMA LandMigrateKeeps ==
    ASSUME PairsInv, NEW p \in Pairs, LandMigrate(p)
    PROVE  Keeps(p)
  <1> DEFINE at == AfterMigrate(script[p].of)
  <1>1. PairsTyped /\ PairInv(p)
    BY DEF PairsInv
  <1>2. at \in {"advance", "embeds"} /\ at \in ScriptPlaces
        /\ (script[p].of = "setup" => at = "embeds") /\ (script[p].of = "migrate" => at = "advance")
    BY DEF AfterMigrate, ScriptPlaces
  <1>3. /\ script[p].at = "migrate" /\ Goes(p, at) /\ UNCHANGED <<config, table, list, page>>
        /\ crawl' = [crawl EXCEPT ![p] = IF @ = "legacy" THEN "empty" ELSE @]
    BY DEF LandMigrate
  <1> HIDE DEF at
  <1>4. /\ crawl' \in [Pairs -> Boxes]
        /\ crawl'[p] # "legacy" /\ (HasCrawl(p) => HasCrawl(p)')
        /\ \A q \in Pairs \ {p} : crawl'[q] = crawl[q]
    BY <1>1, <1>3 DEF PairsTyped, HasCrawl, Boxes
  <1>5. HasConfig(p) /\ HasConfig(p)'
    BY <1>1, <1>3 DEF PairInv, ConfigInv, HasConfig
  <1>6. PoolsInv(p)'
    BY <1>1, <1>2, <1>3, GoesOn DEF PairInv, PoolsInv
  <1>7. Achieved(p)
    <2>1. script[p].of = "setup" => SetupInv(p)'
      BY <1>1, <1>2, <1>3, <1>4, GoesOn DEF PairInv, SetupInv, Past
    <2>2. script[p].of = "migrate" => MigrateInv(p)'
      BY <1>1, <1>2, <1>3, <1>4, GoesOn DEF MigrateInv
    <2> QED BY <2>1, <2>2 DEF Achieved
  <1>8. GoesFit(p, at)
    BY <1>2, <1>3 DEF GoesFit
  <1> QED BY <1>1, <1>2, <1>3, <1>4, <1>5, <1>6, <1>7, <1>8, MovedOn DEF PairsTyped

LEMMA LandAdvanceKeeps ==
    ASSUME PairsInv, NEW p \in Pairs, LandAdvance(p)
    PROVE  Keeps(p)
  <1>1. PairsTyped /\ PairInv(p)
    BY DEF PairsInv
  <1>2. script[p].at = "advance" /\ UNCHANGED <<config, table, list, page>>
    BY DEF LandAdvance
  <1>3. CASE UNCHANGED crawl /\ Fails(p)
    BY <1>2, <1>3, FailsOrEnds, Moved DEF ScriptPlaces, GoesFit
  <1>4. CASE /\ HasCrawl(p) /\ VenueFound(p)
             /\ crawl' = [crawl EXCEPT ![p] = IF @ = "legacy" THEN @ ELSE "seeded"]
             /\ IF script[p].of = "migrate" THEN Goes(p, "list") ELSE Ends(p)
    <2>1. PICK at \in ScriptPlaces :
            Goes(p, at) /\ at = IF script[p].of = "migrate" THEN "list" ELSE "done"
      BY <1>4, FailsOrEnds DEF ScriptPlaces
    <2>2. /\ crawl' \in [Pairs -> Boxes]
          /\ crawl[p] # "legacy" => crawl'[p] = "seeded"
          /\ \A q \in Pairs \ {p} : crawl'[q] = crawl[q]
      BY <1>1, <1>4 DEF PairsTyped, Boxes
    <2>3. HasConfig(p) /\ HasConfig(p)' /\ table[p] = "triangle"
      BY <1>1, <1>2, <1>4 DEF PairInv, ConfigInv, HasConfig, VenueFound
    <2>4. PoolsInv(p)'
      BY <1>1, <1>2, <2>1, GoesOn DEF PairInv, PoolsInv
    <2>5. Achieved(p)
      <3>1. script[p].of = "setup" => SetupInv(p)'
        BY <1>1, <1>2, <2>1, <2>2, <2>3, GoesOn DEF PairInv, SetupInv, Past, HasCrawl, HasList
      <3>2. script[p].of = "migrate" => MigrateInv(p)'
        BY <1>1, <1>2, <2>1, <2>2, <2>3, GoesOn DEF PairInv, MigrateInv
      <3> QED BY <3>1, <3>2 DEF Achieved
    <2>6. GoesFit(p, at)
      BY <1>2, <2>1 DEF GoesFit
    <2> QED BY <1>1, <1>2, <2>1, <2>2, <2>3, <2>4, <2>5, <2>6, MovedOn DEF PairsTyped
  <1> QED BY <1>3, <1>4 DEF LandAdvance

(* Meanwhile an admin switches the price source of a legacy pair.          *)
LEMMA GrowKeeps ==
    ASSUME PairsInv, NEW p \in Pairs, SetOracleKind(p, "crawl"), config[p].size = Legacy,
           UNCHANGED <<crawl, table, list, page, script>>
    PROVE  Keeps(p)
  <1>1. PairsTyped /\ PairInv(p)
    BY DEF PairsInv
  <1>2. PairsTyped' /\ Alone(p)
    BY <1>1, OracleKindSet DEF PairsTyped, Alone
  <1>3. ConfigInv(p)'
    BY <1>1, OracleKindSet DEF PairInv, ConfigInv, HasList
  <1>4. PoolsInv(p)'
    BY <1>1, OracleKindSet DEF PairInv, PoolsInv
  <1>5. SetupInv(p)' /\ MigrateInv(p)'
    BY <1>1, OracleKindSet DEF PairInv, SetupInv, Past, HasCrawl, HasList, MigrateInv
  <1> QED BY <1>2, <1>3, <1>4, <1>5 DEF Keeps, PairInv

LEMMA ScriptKeeps ==
    ASSUME PairsInv, NEW p \in Pairs, ScriptStep(p)
    PROVE  Keeps(p)
  BY StartKeeps, ScriptDiesKeeps, ReadEmbedsKeeps, ReadKindKeeps, LandListKeeps,
     LandTableKeeps, LandVenueKeeps, LandInitCrawlKeeps, LandOracleKindKeeps,
     LandMigrateKeeps, LandAdvanceKeeps
     DEF ScriptStep

LEMMA KeptByAll ==
    ASSUME PairsInv, NEW p \in Pairs, Keeps(p)
    PROVE  PairsInv'
  BY OthersKept DEF PairsInv, Keeps

(* Steps that leave the chain's pairs alone, but for names.                *)
LEMMA NamesOnly ==
    ASSUME PairsInv, UNCHANGED <<config, crawl, table, list, page, script>>
    PROVE  PairsInv'
  <1> SUFFICES ASSUME NEW p \in Pairs PROVE PairInv(p)'
    BY DEF PairsInv, PairsTyped
  <1>1. PairInv(p)
    BY DEF PairsInv
  <1>2. ConfigInv(p)'
    BY <1>1 DEF PairInv, ConfigInv, HasConfig, HasList
  <1>3. PoolsInv(p)' /\ MigrateInv(p)'
    BY <1>1 DEF PairInv, PoolsInv, MigrateInv
  <1>4. SetupInv(p)'
    BY <1>1 DEF PairInv, SetupInv, Past, HasList, HasCrawl
  <1> QED BY <1>2, <1>3, <1>4 DEF PairInv

-----------------------------------------------------------------------------
(* What the invariant says of the hook. *)

(* The crawl's list of pools that exist, and a seeded box: the two         *)
(* looked-up accounts are the vaults of the venue.                         *)
LEMMA CrawlListCranks ==
    ASSUME NEW p, list[p] = [pools |-> "triangle", tail |-> CrawlTail],
           crawl[p] = "seeded", Kind(p) \in Kinds
    PROVE  HookExecute(p) = "cranked"
  <1>1. list[p].pools = "triangle" /\ list[p].tail = CrawlTail
    OBVIOUS
  <1>2. Extras(p) = 14 /\ HasList(p)
    <2>1. Extras(p) = 14
      <3> DEFINE n == Len(list[p].tail)
      <3>1. Len(CrawlTail) = 3
        BY Tails
      <3>2. n = 3
        BY <1>1, <3>1, Zenon
      <3>3. Extras(p) = FixedEmbeds + n
        BY Zenon DEF Extras
      <3> HIDE DEF n
      <3>4. FixedEmbeds + n = 14
        BY <3>2 DEF FixedEmbeds
      <3> QED BY <3>3, <3>4, Zenon
    <2>2. HasList(p)
      BY <1>1 DEF HasList, NoList
    <2> QED BY <2>1, <2>2
  <1>3. ~(Extras(p) < Needed(p))
    BY <1>2 DEF Needed, CrawlMetaCount
  <1>4. CASE Kind(p) = "crawl"
    <2>1. CrawlTail[1] = "crawl" /\ CrawlTail[2] = "at91" /\ CrawlTail[3] = "at123"
          /\ DOMAIN CrawlTail = 1..3
      BY DEF CrawlTail
    <2>2. /\ Resolved(p, "crawl") = "crawl" /\ Resolved(p, "at91") = "venueBase"
          /\ Resolved(p, "at123") = "venueQuote"
      BY <1>1, <2>1 DEF Resolved
    <2>3. Passed(p) = [i \in 1..3 |-> Resolved(p, CrawlTail[i])]
      BY <1>1, <2>1 DEF Passed
    <2>4. Passed(p) = <<"crawl", "venueBase", "venueQuote">>
      BY <2>1, <2>2, <2>3
    <2>5. OracleRead(p) = "cranked"
      BY <1>2, <1>4, <2>4 DEF OracleRead, CrawlMetaCount
    <2> QED BY <1>1, <1>2, <1>3, <2>5 DEF HookExecute
  <1>5. CASE Kind(p) = "none"
    BY <1>1, <1>2, <1>3, <1>5 DEF HookExecute, OracleRead
  <1> QED BY <1>4, <1>5 DEF Kinds

(* The same of the next state.                                             *)
CrawlListed(p) ==
    list[p] = [pools |-> "triangle", tail |-> CrawlTail] /\ crawl[p] = "seeded" /\ Kind(p) \in Kinds

LEMMA CrawlListedCranks == \A p \in Pairs : CrawlListed(p) => HookExecute(p) = "cranked"
  BY CrawlListCranks DEF CrawlListed

LEMMA CrawlListedCranksThen == (\A p \in Pairs : CrawlListed(p) => HookExecute(p) = "cranked")'
  BY CrawlListedCranks, PTL

LEMMA KindIsOne == \A p \in Pairs : PairsTyped => Kind(p) \in Kinds
  BY ScriptFields DEF Kind, Kinds

(* After setup-price-crawl the table has the pair's venue, and a list of   *)
(* other pools would be of a pair that has not.                            *)
LEMMA Repaired == PairsInv => SetupRepairs
  <1> SUFFICES ASSUME PairsInv, NEW p \in Pairs, At(p, {"setup"}, "done"), ~FromPump(p)
               PROVE  HookExecute(p) = "cranked"
    BY DEF SetupRepairs
  <1>1. PairsTyped /\ PairInv(p)
    BY DEF PairsInv
  <1>2. /\ crawl[p] = "seeded" /\ table[p] = "triangle"
        /\ list[p].tail \in {CrawlTail, PumpTail}
    BY <1>1 DEF PairInv, SetupInv, Past, At
  <1>3. list[p].tail # PumpTail
    <2>1. PumpTail # <<>> /\ PumpTail[1] = "pump"
      BY DEF PumpTail
    <2> QED BY <2>1 DEF FromPump
  <1>4. list[p].tail = CrawlTail /\ list[p].pools = "triangle"
    BY <1>1, <1>2, <1>3 DEF PairInv, PoolsInv
  <1>5. list[p] = [pools |-> "triangle", tail |-> CrawlTail]
    BY <1>1, <1>4 DEF PairsTyped, ListType
  <1> QED BY <1>1, <1>2, <1>5, KindIsOne, CrawlListCranks

(* A step of migrate-hook-crawl-one's: it may fill the box, and changes    *)
(* the list only then.                                                     *)
Unharmed(p) == HookExecute(p) # "error" => HookExecute(p)' # "error"

LEMMA SameHook ==
    ASSUME NEW p, UNCHANGED <<config, list>>, crawl'[p] = "seeded" <=> crawl[p] = "seeded"
    PROVE  Unharmed(p)
  <1>1. \A meta : Resolved(p, meta)' = Resolved(p, meta)
    BY DEF Resolved
  <1>2. Passed(p)' = Passed(p)
    BY <1>1 DEF Passed
  <1>3. HookExecute(p)' = HookExecute(p)
    BY <1>2 DEF HookExecute, HasList, Extras, Needed, Kind, OracleRead
  <1> QED BY <1>3 DEF Unharmed

LEMMA SeedUnharmed ==
    ASSUME PairsInv, NEW p \in Pairs, UNCHANGED <<config, list>>, crawl'[p] = "seeded"
    PROVE  Unharmed(p)
  <1>1. PairsTyped
    BY DEF PairsInv
  <1>2. CASE list[p].tail = CrawlTail
    <2> SUFFICES ASSUME HookExecute(p) # "error" PROVE HookExecute(p)' # "error"
      BY DEF Unharmed
    <2>1. Extras(p) = 14 /\ HasList(p)
      BY <1>2, Tails DEF Extras, FixedEmbeds, HasList, NoList
    <2>2. ~(Extras(p) < Needed(p))
      BY <2>1 DEF Needed, CrawlMetaCount
    <2>3. list[p].pools = "triangle"
      BY <2>1, <2>2 DEF HookExecute
    <2>4. list'[p] = [pools |-> "triangle", tail |-> CrawlTail]
      BY <1>1, <1>2, <2>3 DEF PairsTyped, ListType
    <2>5. Kind(p)' \in Kinds
      BY <1>1, KindIsOne DEF Kind
    <2>6. HookExecute(p)' = "cranked"
      BY <2>4, <2>5, CrawlListedCranksThen DEF CrawlListed
    <2> QED BY <2>6
  <1>3. CASE list[p].tail # CrawlTail
    <2>1. list[p].tail \in {NoEmbeds, CrawlEmbeds, PumpTail}
      BY <1>1, <1>3 DEF PairsTyped, ListType, NoEmbeds
    <2>2. \A i \in DOMAIN list[p].tail : Resolved(p, list[p].tail[i])' = Resolved(p, list[p].tail[i])
      <3>1. CASE list[p].tail = NoEmbeds
        BY <3>1 DEF NoEmbeds
      <3>2. CASE list[p].tail = CrawlEmbeds
        BY <3>2 DEF CrawlEmbeds, Resolved
      <3>3. CASE list[p].tail = PumpTail
        BY <3>3 DEF PumpTail, Resolved
      <3> QED BY <2>1, <3>1, <3>2, <3>3
    <2>3. Passed(p)' = Passed(p)
      BY <2>2 DEF Passed
    <2>4. HookExecute(p)' = HookExecute(p)
      BY <2>3 DEF HookExecute, HasList, Extras, Needed, Kind, OracleRead
    <2> QED BY <2>4 DEF Unharmed
  <1> QED BY <1>2, <1>3

LEMMA MigrateUnharmed ==
    ASSUME PairsInv, NEW p \in Pairs, ScriptStep(p), script[p].of = "migrate"
    PROVE  Unharmed(p)
  <1>1. PairsTyped /\ PairInv(p)
    BY DEF PairsInv
  <1>2. script[p].at \notin {"table", "venue", "crawl", "oracle"}
    BY <1>1 DEF PairInv, ConfigInv
  <1>3. CASE StartScript(p) \/ ScriptDies(p) \/ ReadEmbeds(p) \/ ReadKind(p)
    BY <1>3, SameHook DEF StartScript, ScriptDies, ReadEmbeds, ReadKind
  <1>4. CASE LandMigrate(p)
    <2>1. crawl'[p] = "seeded" <=> crawl[p] = "seeded"
      BY <1>1, <1>4 DEF LandMigrate, PairsTyped
    <2> QED BY <1>4, <2>1, SameHook DEF LandMigrate
  <1>5. CASE LandAdvance(p)
    <2>1. crawl'[p] = crawl[p] \/ crawl'[p] = "seeded"
      BY <1>1, <1>5 DEF LandAdvance, PairsTyped
    <2> QED BY <1>5, <2>1, SameHook, SeedUnharmed DEF LandAdvance
  <1>6. CASE LandList(p)
    <2>1. UNCHANGED <<config, crawl>> /\ script[p].at = "list"
      BY <1>6 DEF LandList
    <2>2. crawl[p] = "seeded" /\ table[p] = "triangle"
      BY <1>1, <2>1 DEF PairInv, MigrateInv
    <2>3. CASE list' = list
      BY <2>1, <2>3, SameHook
    <2>4. CASE list' # list
      <3>1. PICK new \in {NoEmbeds, CrawlEmbeds, CrawlTail} :
              /\ list' = [list EXCEPT ![p] = [pools |-> script[p].pools, tail |-> new]]
              /\ new = CrawlTail /\ script[p].tail = CrawlEmbeds
        BY <1>6, <2>4, ListLanded
      <3>2. script[p].pools = "triangle"
        BY <1>1, <2>2, <3>1, ScriptFields DEF PairInv, PoolsInv, ConfigInv, PoolsSeen
      <3>3. list'[p] = [pools |-> "triangle", tail |-> CrawlTail]
        BY <1>1, <3>1, <3>2 DEF PairsTyped
      <3>4. crawl'[p] = "seeded" /\ Kind(p)' \in Kinds
        BY <1>1, <2>1, <2>2, KindIsOne DEF Kind
      <3>5. HookExecute(p)' = "cranked"
        BY <3>3, <3>4, CrawlListedCranksThen DEF CrawlListed
      <3> QED BY <3>5 DEF Unharmed
    <2> QED BY <2>3, <2>4
  <1> QED
    BY <1>2, <1>3, <1>4, <1>5, <1>6
       DEF ScriptStep, LandTable, LandVenue, LandInitCrawl, LandOracleKind

(* A step of a pair's script is of no other pair, and of no launch.        *)
LEMMA MigrateKept ==
    ASSUME PairsInv,
           \/ UNCHANGED script
           \/ \E q \in Pairs : ScriptStep(q)
    PROVE  \A p \in Pairs :
              script[p].of = "migrate" /\ script'[p] # script[p] /\ HookExecute(p) # "error"
                  => HookExecute(p)' # "error"
  <1> SUFFICES ASSUME NEW p \in Pairs, script[p].of = "migrate", script'[p] # script[p]
               PROVE  Unharmed(p)
    BY DEF Unharmed
  <1>1. PICK q \in Pairs : ScriptStep(q)
    OBVIOUS
  <1>2. Alone(q)
    BY <1>1, ScriptKeeps DEF Keeps
  <1>3. p = q
    BY <1>2 DEF Alone
  <1> QED BY <1>1, <1>3, MigrateUnharmed

-----------------------------------------------------------------------------
(* The pairs and the scripts by themselves. *)

LEMMA PairsStart ==
    ASSUME NEW legacy, NEW launched, NEW label, NEW boxes, NEW runs,
           boxes \subseteq {"legacy", "empty", "seeded"},
           PairsInitWith(legacy, launched, label, boxes, runs)
    PROVE  PairsInv
  <1>1. config \in [Pairs -> ConfigType]
        /\ \A p \in Pairs :
              /\ p \in legacy \cup launched =>
                    config[p].size \in {Legacy, Full} /\ config[p].pools = "triangle"
              /\ p \notin legacy \cup launched => config[p].size = 0
              /\ config[p].kind = "none"
    BY DEF PairsInitWith, NoConfig, ConfigType, Kinds, PoolsSeen
  <1>2. crawl \in [Pairs -> Boxes] /\ table \in [Pairs -> TablesSeen]
        /\ \A p \in Pairs : table[p] # "none" => p \in legacy
    BY DEF PairsInitWith, Boxes, TablesSeen
  <1>3. NoList = [pools |-> "none", tail |-> NoEmbeds]
        /\ [NoList EXCEPT !.pools = "triangle"] = [pools |-> "triangle", tail |-> NoEmbeds]
    BY DEF NoList, NoEmbeds
  <1>4. list \in [Pairs -> ListType]
        /\ \A p \in Pairs : /\ p \notin legacy \cup launched => list[p] = NoList
                            /\ list[p].tail = NoEmbeds
    BY <1>3 DEF PairsInitWith, ListType, PoolsSeen, NoEmbeds
  <1>5. page \in [Pairs -> {"idle", "done"}]
        /\ \A p \in Pairs : page[p] = "done" <=> p \in legacy \cup launched
    BY DEF PairsInitWith
  <1>6. NoScript = Scripted("none", "done", "none", NoEmbeds, "none")
    BY DEF NoScript, Scripted, NoEmbeds
  <1>7. script \in [Pairs -> ScriptType]
        /\ \A p \in Pairs : script[p].of = "none" /\ script[p].tail = NoEmbeds
                            /\ script[p].at = "done" /\ script[p].pools = "none"
    <2>1. Scripted("none", "done", "none", NoEmbeds, "none") \in ScriptType
      BY DEF Scripted, ScriptType, ScriptPlaces, PoolsSeen, EmbedsSeen, NoEmbeds, Kinds
    <2>2. script = [p \in Pairs |-> Scripted("none", "done", "none", NoEmbeds, "none")]
      BY <1>6 DEF PairsInitWith
    <2> QED BY <2>1, <2>2 DEF Scripted
  <1>8. CrawlTail # NoEmbeds
    BY Tails DEF NoEmbeds
  <1>9. PairsTyped
    BY <1>1, <1>2, <1>4, <1>5, <1>7 DEF PairsTyped
  <1>10. ASSUME NEW p \in Pairs PROVE PairInv(p)
    <2>1. HasConfig(p) <=> p \in legacy \cup launched
      BY <1>1 DEF HasConfig, Legacy, Full
    <2>2. HasList(p) => p \in legacy \cup launched
      BY <1>4 DEF HasList
    <2>3. ConfigInv(p)
      BY <1>1, <1>2, <1>5, <1>7, <2>1, <2>2 DEF ConfigInv
    <2>4. PoolsInv(p)
      <3>1. config[p].size = Legacy => config[p].pools = "triangle"
        BY <1>1 DEF Legacy
      <3> QED BY <1>1, <1>2, <1>4, <1>7, <1>8, <3>1 DEF PoolsInv
    <2>5. SetupInv(p) /\ MigrateInv(p)
      BY <1>7 DEF SetupInv, Past, MigrateInv
    <2> QED BY <2>3, <2>4, <2>5 DEF PairInv
  <1> QED BY <1>9, <1>10 DEF PairsInv

LEMMA PairsKept == PairsSpec => []PairsInv
  <1>1. PairsInit => PairsInv
    BY PairsStart DEF PairsInit
  <1>2. PairsInv /\ [PairsNext]_pairVars => PairsInv'
    <2> SUFFICES ASSUME PairsInv, [PairsNext]_pairVars PROVE PairsInv'
      OBVIOUS
    <2>1. CASE UNCHANGED pairVars
      BY <2>1, NamesOnly DEF pairVars
    <2>2. ASSUME NEW p \in Pairs, ScriptStep(p) PROVE PairsInv'
      BY <2>2, ScriptKeeps, KeptByAll
    <2>3. ASSUME NEW p \in Pairs, NEW origin \in Oracles, LaunchStep(p, origin) PROVE PairsInv'
      BY <2>3, LaunchKeeps, KeptByAll
    <2> QED BY <2>1, <2>2, <2>3 DEF PairsNext
  <1> QED BY <1>1, <1>2, PTL DEF PairsSpec

LEMMA LaunchKeepsScripts ==
    ASSUME NEW p, NEW origin, LaunchStep(p, origin)
    PROVE  UNCHANGED script
  BY DEF LaunchStep, CreateMints, InitConfig, RegisterTriangle, HandOver, LaunchHookList

(* Launches and scripts on any number of pairs, with all the runs of       *)
(* scripts there may be, each dying where it may: setup-price-crawl, gone  *)
(* through, leaves a pair that cranks.                                     *)
THEOREM PairsRepaired == PairsSpec => []SetupRepairs
  BY PairsKept, Repaired, PTL

(* And migrate-hook-crawl-one fails no transfers on its way.               *)
THEOREM PairsUnharmed == PairsSpec => MigrateKeepsTransfers
  <1>1. PairsInv /\ [PairsNext]_pairVars =>
          [\A p \in Pairs :
              script[p].of = "migrate" /\ script'[p] # script[p] /\ HookExecute(p) # "error"
                  => HookExecute(p)' # "error"]_pairVars
    BY MigrateKept, LaunchKeepsScripts DEF PairsNext
  <1> QED BY <1>1, PairsKept, PTL DEF PairsSpec, MigrateKeepsTransfers

-----------------------------------------------------------------------------
(* The samples.  While the server runs, it has every history that a whole  *)
(* file has: it read the file when it started, and takes no history away.  *)
FileHeld ==
    up /\ disk # TornFile => \A k \in Keys : disk[k] # NoSeries => series[k] # NoSeries

(* A poll has read what a reading of a pair can give.                      *)
PollOK(j) ==
    /\ {"at", "pairs", "pair", "got"} \subseteq DOMAIN j
    /\ \A r \in j.pairs : r.pair \in Pairs
    /\ j.pair # "none" => j.got # NoSeries

SamplesInv ==
    /\ value \in [Pairs -> 0..MaxValue]
    /\ DOMAIN polls = 1..MaxPolls /\ \A i \in 1..MaxPolls : PollOK(polls[i])
    /\ DOMAIN series = Keys /\ DOMAIN disk = Keys
    /\ FileHeld

(* What a step does to the file.                                           *)
FileStep ==
    disk # TornFile /\ disk' # TornFile =>
        \A k \in Keys : disk[k] # NoSeries => disk'[k] # NoSeries

LEMMA NoPollOK == PollOK(NoPoll)
  BY DEF PollOK, NoPoll

LEMMA BegunOK ==
    ASSUME DOMAIN polls = 1..MaxPolls, \A i \in 1..MaxPolls : PollOK(polls[i]), NEW n, NEW reg
    PROVE  /\ DOMAIN Begun(polls, n, reg) = 1..MaxPolls
           /\ \A i \in 1..MaxPolls : PollOK(Begun(polls, n, reg)[i])
  <1>1. \A r \in RowsOf(reg) : r.pair \in Pairs
    BY DEF RowsOf, ListedIn
  <1> DEFINE new == [NoPoll EXCEPT !.at = "poll", !.pairs = RowsOf(reg)]
  <1>2. {"at", "pairs", "pair", "got"} \subseteq DOMAIN new /\ new.pairs = RowsOf(reg) /\ new.pair = "none"
    BY DEF NoPoll
  <1>3. PollOK(new)
    BY <1>1, <1>2 DEF PollOK
  <1> HIDE DEF new
  <1>4. /\ DOMAIN Begun(polls, n, reg) = 1..MaxPolls
        /\ \A i \in 1..MaxPolls : Begun(polls, n, reg)[i] \in {new, polls[i]}
    BY DEF Begun, new
  <1> QED BY <1>3, <1>4

LEMMA PollStepKeeps ==
    ASSUME SamplesInv, NEW i \in 1..MaxPolls, PollStep(i)
    PROVE  SamplesInv' /\ FileStep
  <1> USE DEF SamplesInv
  <1>1. CASE PollRead(i)
    <2>1. PICK r \in polls[i].pairs :
            \/ polls' = [polls EXCEPT ![i].pair = r.pair, ![i].got = value[r.pair],
                                     ![i].pairs = @ \ {r}]
            \/ polls' = [polls EXCEPT ![i].pairs = @ \ {r}]
      BY <1>1 DEF PollRead
    <2>2. r.pair \in Pairs /\ value[r.pair] # NoSeries
      BY SiteServerAssumption DEF PollOK, NoSeries
    <2>3. UNCHANGED <<up, series, disk, value>>
      BY <1>1 DEF PollRead
    <2>4. DOMAIN polls' = 1..MaxPolls /\ \A j \in 1..MaxPolls \ {i} : polls'[j] = polls[j]
      BY <2>1
    <2>5. PollOK(polls'[i])
      <3> DEFINE j == polls[i]
                 got == value[r.pair]
      <3>1. /\ {"at", "pairs", "pair", "got"} \subseteq DOMAIN j
            /\ \A q \in j.pairs : q.pair \in Pairs
            /\ j.pair # "none" => j.got # NoSeries
        BY DEF PollOK
      <3>2. CASE polls' = [polls EXCEPT ![i].pair = r.pair, ![i].got = got,
                                        ![i].pairs = @ \ {r}]
        <4>1. polls'[i] = [polls[i] EXCEPT !.pair = r.pair, !.got = got, !.pairs = @ \ {r}]
          BY <3>2
        <4> HIDE DEF got
        <4>2. /\ {"at", "pairs", "pair", "got"} \subseteq DOMAIN polls'[i]
              /\ polls'[i].pairs = j.pairs \ {r} /\ polls'[i].got = got
          BY <3>1, <4>1
        <4> QED BY <2>2, <3>1, <4>2 DEF PollOK, NoSeries, got
      <3>3. CASE polls' = [polls EXCEPT ![i].pairs = @ \ {r}]
        BY <3>1, <3>3 DEF PollOK, NoSeries
      <3> QED BY <2>1, <3>2, <3>3
    <2> QED BY <2>3, <2>4, <2>5 DEF FileStep, FileHeld, PollOK, NoSeries
  <1>2. CASE PollPush(i)
    <2>1. /\ polls[i].pair # "none" /\ polls[i].got # NoSeries
          /\ series' = [series EXCEPT ![polls[i].pair] = polls[i].got]
          /\ polls' = [polls EXCEPT ![i].pair = "none", ![i].got = NoSeries]
          /\ UNCHANGED <<up, disk, value>>
      BY <1>2 DEF PollPush, PollOK
    <2>2. DOMAIN polls' = 1..MaxPolls /\ \A j \in 1..MaxPolls \ {i} : polls'[j] = polls[j]
      BY <2>1
    <2>3. PollOK(polls'[i])
      BY <2>1 DEF PollOK
    <2>4. DOMAIN series' = Keys /\ \A k \in Keys : series[k] # NoSeries => series'[k] # NoSeries
      BY <2>1
    <2> QED BY <2>1, <2>2, <2>3, <2>4 DEF FileStep, FileHeld, PollOK, NoSeries
  <1>3. CASE PollSave(i)
    <2>1. up /\ disk' = series /\ polls' = [polls EXCEPT ![i] = NoPoll]
          /\ UNCHANGED <<up, series, value>>
      BY <1>3 DEF PollSave
    <2>2. DOMAIN polls' = 1..MaxPolls /\ \A j \in 1..MaxPolls : polls'[j] \in {NoPoll, polls[j]}
      BY <2>1
    <2>3. \A j \in 1..MaxPolls : PollOK(polls'[j])
      BY <2>2, NoPollOK
    <2>4. FileStep
      BY <2>1 DEF FileStep, FileHeld
    <2> QED BY <2>1, <2>2, <2>3, <2>4 DEF FileHeld, PollOK, NoSeries
  <1> QED BY <1>1, <1>2, <1>3 DEF PollStep

LEMMA ServerStepKeeps ==
    ASSUME SamplesInv, ServerStep
    PROVE  SamplesInv' /\ FileStep
  <1> USE DEF SamplesInv
  <1>1. CASE Start
    <2>1. /\ series' = LoadSeries /\ polls' = NoPolls /\ up' /\ UNCHANGED <<disk, value>>
      BY <1>1 DEF Start
    <2>2. DOMAIN polls' = 1..MaxPolls /\ \A i \in 1..MaxPolls : PollOK(polls'[i])
      BY <2>1, NoPollOK DEF NoPolls
    <2>3. DOMAIN series' = Keys /\ (disk # TornFile => series' = disk)
      BY <2>1 DEF LoadSeries, EmptySeries
    <2> QED BY <2>1, <2>2, <2>3 DEF FileHeld, FileStep, PollOK, NoSeries
  <1>2. CASE Crash
    <2>1. ~up' /\ disk' \in {disk, TornFile} /\ UNCHANGED <<polls, series, value>>
      BY <1>2 DEF Crash
    <2>2. DOMAIN disk' = Keys
      BY <2>1 DEF TornFile
    <2>3. FileStep
      BY <2>1 DEF FileStep
    <2> QED BY <2>1, <2>2, <2>3 DEF FileHeld, PollOK, NoSeries
  <1>3. CASE RefreshStart \/ ReadSmallRows \/ ReadLargeRows \/ RefreshFails
    <2>1. UNCHANGED <<up, polls, series, disk, value>>
      BY <1>3 DEF RefreshStart, ReadSmallRows, ReadLargeRows, RefreshFails
    <2> QED BY <2>1 DEF FileHeld, FileStep, PollOK, NoSeries
  <1>4. CASE RefreshEnds
    <2>1. PICK n : polls' = polls \/ polls' = Begun(polls, n, registry')
      BY <1>4 DEF RefreshEnds
    <2>2. DOMAIN polls' = 1..MaxPolls /\ \A i \in 1..MaxPolls : PollOK(polls'[i])
      BY <2>1, BegunOK
    <2>3. series' = Migrated(registry', series) /\ UNCHANGED <<up, disk, value>>
      BY <1>4 DEF RefreshEnds
    <2>4. DOMAIN series' = Keys /\ \A k \in Keys : series[k] # NoSeries => series'[k] = series[k]
      BY <2>3 DEF Migrated
    <2> QED BY <2>2, <2>3, <2>4 DEF FileHeld, FileStep, PollOK, NoSeries
  <1>5. CASE PollStart
    <2>1. polls' = Begun(polls, 1, registry) /\ UNCHANGED <<up, series, disk, value>>
      BY <1>5 DEF PollStart
    <2>2. DOMAIN polls' = 1..MaxPolls /\ \A i \in 1..MaxPolls : PollOK(polls'[i])
      BY <2>1, BegunOK
    <2> QED BY <2>1, <2>2 DEF FileHeld, FileStep, PollOK, NoSeries
  <1>6. ASSUME NEW i \in 1..MaxPolls, PollStep(i) PROVE SamplesInv' /\ FileStep
    BY <1>6, PollStepKeeps
  <1>7. ASSUME NEW p \in Pairs, PriceMoves(p) PROVE SamplesInv' /\ FileStep
    <2>1. /\ value[p] < MaxValue /\ value' = [value EXCEPT ![p] = @ + 1]
          /\ UNCHANGED <<up, polls, series, disk>>
      BY <1>7 DEF PriceMoves
    <2>2. value' \in [Pairs -> 0..MaxValue]
      BY <2>1, SiteServerAssumption
    <2> QED BY <2>1, <2>2 DEF FileHeld, FileStep, PollOK, NoSeries
  <1> QED BY <1>1, <1>2, <1>3, <1>4, <1>5, <1>6, <1>7 DEF ServerStep

LEMMA SamplesStart ==
    ASSUME NEW listed, NEW running \in BOOLEAN, ServerInit(listed, running)
    PROVE  SamplesInv
  <1>1. value \in [Pairs -> 0..MaxValue]
    BY SiteServerAssumption DEF ServerInit
  <1>2. DOMAIN polls = 1..MaxPolls /\ \A i \in 1..MaxPolls : PollOK(polls[i])
    BY NoPollOK DEF ServerInit, NoPolls
  <1>3. DOMAIN series = Keys /\ DOMAIN disk = Keys
    BY DEF ServerInit, EmptySeries
  <1>4. FileHeld
    BY DEF ServerInit, FileHeld, EmptySeries
  <1> QED BY <1>1, <1>2, <1>3, <1>4 DEF SamplesInv

LEMMA SamplesRest ==
    ASSUME SamplesInv, UNCHANGED <<up, polls, series, disk, value>>
    PROVE  SamplesInv' /\ FileStep
  BY DEF SamplesInv, FileStep, FileHeld, PollOK, NoSeries
-----------------------------------------------------------------------------
(* The site as a whole.  Others act on pairs, and so does a launch of the  *)
(* page.                                                                   *)
LeftInv ==
    /\ {"others", "faults", "labels"} \subseteq DOMAIN left
    /\ left.others \subseteq Pairs
    /\ left.faults \in Nat /\ left.labels \in Nat

OpInv == {"kind", "pair"} \subseteq DOMAIN op /\ (op.kind = "launch" => op.pair \in Pairs)

SiteInv == PairsInv /\ SamplesInv /\ LeftInv /\ OpInv

(* What is spent is never the others.                                      *)
LEMMA SpendKeeps ==
    ASSUME LeftInv, NEW what, what # "others", Spend(what)
    PROVE  LeftInv'
  BY DEF LeftInv, Spend

LEMMA OpKinds ==
    ASSUME OpInv
    PROVE  /\ op' = op => OpInv'
           /\ op' = NoOp => OpInv'
           /\ \A at : op' = [op EXCEPT !.at = at] => OpInv'
           /\ \A at, todo : op' = [op EXCEPT !.todo = todo, !.at = at] => OpInv'
           /\ \A at, todo, hook : op' = [op EXCEPT !.at = at, !.todo = todo, !.hook = hook] => OpInv'
  <1>1. NoOp.kind = "none" /\ {"kind", "pair"} \subseteq DOMAIN NoOp
    BY DEF NoOp
  <1> HIDE DEF NoOp
  <1>2. op' = NoOp => OpInv'
    BY <1>1 DEF OpInv
  <1>3. \A at : op' = [op EXCEPT !.at = at] => OpInv'
    BY DEF OpInv
  <1>4. \A at, todo : op' = [op EXCEPT !.todo = todo, !.at = at] => OpInv'
    BY DEF OpInv
  <1>5. \A at, todo, hook : op' = [op EXCEPT !.at = at, !.todo = todo, !.hook = hook] => OpInv'
    BY DEF OpInv
  <1> QED BY <1>2, <1>3, <1>4, <1>5 DEF OpInv

(* What the page does without touching a pair of the chain or a sample.    *)
Browses ==
    /\ UNCHANGED <<config, crawl, table, list, page, script, up, polls, series, disk, value>>
    /\ LeftInv' /\ OpInv'

LEMMA PageBrowses ==
    ASSUME SiteInv, PageStep
    PROVE  Browses \/ LaunchGoes
  <1> USE DEF SiteInv
  <1> DEFINE Quiet == UNCHANGED chainAndServer
  <1>1. ASSUME Quiet, UNCHANGED op, UNCHANGED left \/ Spend("clicks") \/ Spend("faults")
        PROVE  Browses
    <2>1. LeftInv'
      BY <1>1, SpendKeeps DEF LeftInv
    <2>2. OpInv'
      BY <1>1, OpKinds
    <2> QED BY <1>1, <2>1, <2>2 DEF Browses, chainAndServer, pairVars
  <1>2. CASE \/ PollBalance \/ (\E i \in 1..MaxAsks : AskStep(i))
             \/ (\E w \in Wallets : Connect(w)) \/ Disconnect \/ GoHome \/ RouteAnswer
             \/ (\E p \in Pairs : OpenPair(p) \/ GoTo(p))
    BY <1>1, <1>2 DEF PollBalance, AskStep, AskRead, AskAnswer, AskFails, Connect, Disconnect,
                      GoHome, RouteAnswer, OpenPair, GoTo
  <1>3. CASE \/ (\E t \in sent : Land(t) \/ Lost(t))
             \/ (\E t \in Tokens \cup {Quote, NoToken} : Type(t))
             \/ LookupFire \/ (\E t \in lookups : LookupAnswer(t))
    BY <1>1, <1>3 DEF Land, Lost, Type, LookupFire, LookupAnswer
  <1>4. ASSUME Quiet, OpInv', UNCHANGED left \/ Spend("clicks") \/ Spend("faults")
        PROVE  Browses
    <2>1. LeftInv'
      BY <1>4, SpendKeeps DEF LeftInv
    <2> QED BY <1>4, <2>1 DEF Browses, chainAndServer, pairVars
  <1>5. CASE OpBuilt
    BY <1>4, <1>5, OpKinds DEF OpBuilt
  <1>6. CASE BuildFails
    BY <1>4, <1>6, OpKinds DEF BuildFails, AfterFailure
  <1>7. CASE OpSign
    <2>1. \/ op' = NoOp
          \/ \E at, todo : op' = [op EXCEPT !.todo = todo, !.at = at]
      BY <1>7 DEF OpSign
    <2>2. OpInv'
      BY <2>1, OpKinds
    <2> QED BY <1>4, <1>7, <2>2 DEF OpSign
  <1>8. CASE OpRefused
    BY <1>4, <1>8, OpKinds DEF OpRefused, AfterFailure
  <1>9. CASE OpWaited
    BY <1>4, <1>9, OpKinds DEF OpWaited
  <1>10. CASE LaunchDone \/ LaunchFails
    BY <1>4, <1>10, OpKinds DEF LaunchDone, LaunchFails, AfterFailure
  <1>11. ASSUME NEW kind, kind # "launch", NEW p, NEW amt, Begins(kind, p, amt) PROVE OpInv'
    BY <1>11 DEF Begins, OpInv, NoOp
  <1>12. CASE Deposit \/ \E pct \in {50, 100} : Withdraw(pct)
    BY <1>4, <1>11, <1>12 DEF Deposit, Withdraw
  <1>13. ASSUME NEW quote, Flux(quote) PROVE Browses
    <2>1. OpInv'
      BY <1>13 DEF Flux, OpInv, NoOp
    <2> QED BY <1>4, <1>13, <2>1 DEF Flux
  <1>14. ASSUME NEW p \in Pairs, LaunchClick(p) PROVE Browses
    <2>1. OpInv'
      BY <1>14 DEF LaunchClick, OpInv, NoOp
    <2> QED BY <1>4, <1>14, <2>1 DEF LaunchClick
  <1> QED BY <1>2, <1>3, <1>5, <1>6, <1>7, <1>8, <1>9, <1>10, <1>12, <1>13, <1>14
          DEF PageStep, OpStep, LaunchMoves

(* A step on a pair keeps the pairs' invariant, whoever takes it.          *)
LEMMA OnPair ==
    ASSUME PairsInv, NEW p \in Pairs, NEW origin, LaunchStep(p, origin) \/ ScriptStep(p)
    PROVE  PairsInv'
  BY LaunchKeeps, ScriptKeeps, KeptByAll

LEMMA SiteStart == Init => SiteInv
  <1> SUFFICES ASSUME Init PROVE SiteInv
    OBVIOUS
  <1>1. PICK s \in Scenes :
          /\ PairsInitWith(s.legacy, s.launched, s.label, s.boxes, s.scripts)
          /\ ServerInit(s.listed, s.listed # {})
          /\ left = [timers |-> s.timers, crashes |-> s.crashes, faults |-> s.faults,
                     edits |-> s.edits, labels |-> s.labels, trades |-> s.trades,
                     clicks |-> s.clicks, others |-> s.others]
          /\ PageInit(s.connected)
    BY DEF Init
  <1>2. /\ s.others \subseteq Pairs /\ s.boxes \subseteq {"legacy", "empty", "seeded"}
        /\ s.faults \in Nat /\ s.labels \in Nat
    BY SitePageAssumption
  <1>3. PairsInv
    BY <1>1, <1>2, PairsStart
  <1>4. SamplesInv
    BY <1>1, SamplesStart
  <1>5. LeftInv
    BY <1>1, <1>2 DEF LeftInv
  <1>6. OpInv
    BY <1>1 DEF PageInit, OpInv, NoOp
  <1> QED BY <1>3, <1>4, <1>5, <1>6 DEF SiteInv

LEMMA SiteStep ==
    ASSUME SiteInv, [Next]_vars
    PROVE  SiteInv' /\ FileStep
  <1> USE DEF SiteInv
  <1>1. ASSUME UNCHANGED <<config, crawl, table, list, page, script>> PROVE PairsInv'
    BY <1>1, NamesOnly
  <1>2. ASSUME UNCHANGED <<up, polls, series, disk, value>> PROVE SamplesInv' /\ FileStep
    BY <1>2, SamplesRest
  <1>3. ASSUME UNCHANGED op PROVE OpInv'
    BY <1>3, OpKinds
  <1>4. ASSUME UNCHANGED left \/ \E what : what # "others" /\ Spend(what) PROVE LeftInv'
    BY <1>4, SpendKeeps DEF LeftInv
  <1>5. CASE OthersStep
    <2>1. PICK p \in left.others : ScriptStep(p) \/ \E origin \in Oracles : LaunchStep(p, origin)
      BY <1>5 DEF OthersStep
    <2>2. PairsInv'
      BY <2>1, OnPair DEF LeftInv
    <2> QED BY <1>2, <1>3, <1>4, <1>5, <2>2 DEF OthersStep, serverVars, pageVars
  <1>6. ASSUME NEW p \in Pairs, ConfigGrows(p) PROVE SiteInv' /\ FileStep
    <2>1. PairsInv'
      BY <1>6, GrowKeeps, KeptByAll DEF ConfigGrows
    <2>2. UNCHANGED <<up, polls, series, disk, value, op>> /\ Spend("edits")
      BY <1>6 DEF ConfigGrows, pageVars
    <2> QED BY <1>2, <1>3, <1>4, <2>1, <2>2
  <1>7. CASE NamesChange
    <2>1. UNCHANGED <<config, crawl, table, list, page, script>>
      BY <1>7 DEF NamesChange, NamesStep, StartBackfill, StartPatch, ReadName, LandName,
                  NamerStops, pairVars
    <2>2. UNCHANGED <<up, polls, series, disk, value, op, left>>
      BY <1>7 DEF NamesChange, serverVars, pageVars
    <2> QED BY <1>1, <1>2, <1>3, <1>4, <2>1, <2>2
  <1>8. CASE BackfillAsked
    <2>1. PICK p \in Pairs : BackfillMetadata(p) /\ UNCHANGED pageVars
      BY <1>8 DEF BackfillAsked
    <2>2. UNCHANGED <<config, crawl, table, list, page, script>> /\ UNCHANGED op
          /\ UNCHANGED <<up, polls, series, disk, value>> /\ Spend("labels")
      BY <2>1 DEF BackfillMetadata, pairVars, pageVars
    <2> QED BY <1>1, <1>2, <1>3, <1>4, <2>2
  <1>9. CASE ServerStep /\ UNCHANGED <<pairVars, nameVars, pageVars>>
    <2>1. SamplesInv' /\ FileStep
      BY <1>9, ServerStepKeeps
    <2>2. UNCHANGED <<config, crawl, table, list, page, script, op>>
      BY <1>9 DEF pairVars, pageVars
    <2>3. UNCHANGED left \/ \E what : what # "others" /\ Spend(what)
      <3>1. UNCHANGED left \/ Spend("crashes") \/ Spend("faults") \/ Spend("trades")
        BY <1>9 DEF ServerStep, Start, Crash, RefreshStart, ReadSmallRows, ReadLargeRows,
                    RefreshFails, RefreshEnds, PollStart, PollStep, PollRead, PollPush, PollSave,
                    PriceMoves
      <3> QED BY <3>1
    <2> QED BY <1>1, <1>3, <1>4, <2>1, <2>2, <2>3
  <1>10. CASE PageStep
    <2>1. CASE Browses
      BY <1>1, <1>2, <2>1 DEF Browses
    <2>2. CASE LaunchGoes
      <3>1. LaunchStep(op.pair, op.oracle) /\ op.pair \in Pairs
        BY <2>2 DEF LaunchGoes, OpInv
      <3>2. PairsInv'
        BY <3>1, OnPair
      <3> QED BY <1>2, <1>3, <1>4, <2>2, <3>2 DEF LaunchGoes, serverVars, pageVars
    <2> QED BY <1>10, <2>1, <2>2, PageBrowses
  <1>11. CASE UNCHANGED vars
    BY <1>1, <1>2, <1>3, <1>4, <1>11 DEF vars, pairVars, serverVars, pageVars
  <1> QED BY <1>5, <1>6, <1>7, <1>8, <1>9, <1>10, <1>11 DEF Next

LEMMA SiteKept == Spec => []SiteInv
  BY SiteStart, SiteStep, PTL DEF Spec

(* A pair setup-price-crawl has gone through on cranks, whatever wrote to  *)
(* it meanwhile.                                                           *)
THEOREM SiteRepaired == Spec => []SetupRepairs
  BY SiteKept, Repaired, PTL DEF SiteInv

(* Only scripts move scripts. *)
LEMMA ScriptsAlone ==
    ASSUME SiteInv, [Next]_vars
    PROVE  UNCHANGED script \/ \E q \in Pairs : ScriptStep(q)
  <1>1. CASE OthersStep
    <2>1. PICK p \in Pairs : ScriptStep(p) \/ \E origin \in Oracles : LaunchStep(p, origin)
      BY <1>1 DEF OthersStep, SiteInv, LeftInv
    <2> QED BY <2>1, LaunchKeepsScripts
  <1>2. CASE \E p \in Pairs : ConfigGrows(p)
    BY <1>2 DEF ConfigGrows
  <1>3. CASE NamesChange
    BY <1>3 DEF NamesChange, NamesStep, StartBackfill, StartPatch, ReadName, LandName,
                NamerStops, pairVars
  <1>4. CASE BackfillAsked
    BY <1>4 DEF BackfillAsked, BackfillMetadata, pairVars
  <1>5. CASE UNCHANGED <<pairVars, nameVars, pageVars>>
    BY <1>5 DEF pairVars
  <1>6. CASE PageStep
    BY <1>6, PageBrowses, LaunchKeepsScripts DEF Browses, LaunchGoes
  <1>7. CASE UNCHANGED vars
    BY <1>7 DEF vars, pairVars
  <1> QED BY <1>1, <1>2, <1>3, <1>4, <1>5, <1>6, <1>7 DEF Next

(* Nor do transfers fail on migrate-hook-crawl-one's way where admins      *)
(* switch price sources and pages launch pairs meanwhile.                  *)
THEOREM SiteUnharmed == Spec => MigrateKeepsTransfers
  <1>1. SiteInv /\ [Next]_vars =>
          [\A p \in Pairs :
              script[p].of = "migrate" /\ script'[p] # script[p] /\ HookExecute(p) # "error"
                  => HookExecute(p)' # "error"]_pairVars
    BY MigrateKept, ScriptsAlone DEF SiteInv
  <1> QED BY <1>1, SiteKept, PTL DEF Spec, MigrateKeepsTransfers

(* No save loses a history the file has, for any number of polls at once,  *)
(* restarts, and pairs that come and go from the registry.                 *)
THEOREM SavesKeepHistory == Spec => HistoryKept
  <1>1. FileStep => [disk # TornFile /\ disk' # TornFile =>
                       \A k \in Keys : disk[k] # NoSeries => disk'[k] # NoSeries]_<<disk>>
    BY DEF FileStep
  <1>2. SiteInv /\ [Next]_vars => FileStep
    BY SiteStep
  <1> QED BY SiteKept, <1>1, <1>2, PTL DEF Spec, HistoryKept

-----------------------------------------------------------------------------
(* What the rest of the page rests on.  An operation is at a place from    *)
(* which it can go on or be given up, with the transactions it has still   *)
(* to sign.                                                                *)
Signed == {"deposit", "withdraw", "create", "extend", "pool"}

Todos == {t \in Seq(Signed) : Len(t) \in 1..3}

OpFields == {"kind", "at", "pair", "todo", "hook"} \subseteq DOMAIN op

OpBusy ==
    \/ op.at = "asked" /\ op.kind \in {"deposit", "withdraw", "flux"}
    \/ op.at = "sign" /\ op.kind # "launch" /\ op.todo \in Todos
    \/ op.at = "wait" /\ op.kind # "launch" /\ op.todo = <<"pool">>
    \/ op.at = "launch" /\ op.kind = "launch" /\ op.pair \in Pairs

OpShape == OpFields /\ (op = NoOp \/ OpBusy)

(* How many steps are left of an operation, and of a launch.               *)
LaunchLeft(p) ==
    CASE page[p] = "idle"   -> 6
      [] page[p] = "mints"  -> 5
      [] page[p] = "config" -> 4
      [] page[p] = "pools"  -> 3
      [] page[p] = "handed" -> 2
      [] page[p] = "done"   -> 1

OpLeft ==
    CASE op.at = "asked"  -> 7
      [] op.at = "sign"   -> 2 * Len(op.todo)
      [] op.at = "wait"   -> 2 * Len(op.todo) + 1
      [] op.at = "launch" -> LaunchLeft(op.pair)
      [] OTHER            -> 0

(* An operation has an end: whatever it is answered, each of its steps     *)
(* brings the page nearer to being idle, and no other step puts it off.    *)
OperationAdvances ==
    [][/\ OpStep \/ LaunchMoves => OpLeft' < OpLeft
       /\ op # NoOp => OpLeft' <= OpLeft]_vars

(* It takes seven steps at most, and where it has none left it is over.    *)
OperationBounded == OpLeft \in 0..7 /\ (OpLeft = 0 <=> op = NoOp)

(* A form that says it is looking a token up has the lookup before it.     *)
LookupComes ==
    info = "loading" => timer \in Tokens \ {NoToken} \/ lookups \cap Tokens # {}

(* Requests whose answer would not be the balance on the screen.           *)
Right(ask) ==
    /\ wallet # NoWallet /\ active # NoPair
    /\ ask.wallet = wallet /\ ask.pair = active
    /\ ask.at = "read" => ask.got = owned[wallet][active]

Misled == {i \in 1..MaxAsks : asks[i].at # "idle" /\ ~Right(asks[i])}

(* While the user stays and nothing lands, no request is made that would   *)
(* mislead, and when those there were are through, every answer is right.  *)
MisledRunOut ==
    [][UNCHANGED <<wallet, active, owned>> =>
        /\ Misled' \subseteq Misled
        /\ Misled = {} /\ receipt' \notin {receipt, NoBalance} =>
               receipt' = owned[wallet][active]]_vars

LEMMA Doubled ==
    ASSUME NEW n \in 1..3
    PROVE  2 * n \in 2..6
  OBVIOUS

LEMMA TodoLeft ==
    ASSUME NEW t \in Todos
    PROVE  /\ Len(t) \in 1..3
           /\ Tail(t) # <<>> => Tail(t) \in Todos /\ Len(t) = Len(Tail(t)) + 1
  <1>1. t \in Seq(Signed) /\ Len(t) \in 1..3 /\ t # <<>>
    BY DEF Todos
  <1>2. Tail(t) \in Seq(Signed) /\ Len(Tail(t)) = Len(t) - 1
    BY <1>1
  <1>3. Tail(t) # <<>> => Len(Tail(t)) \in 1..3
    BY <1>1, <1>2
  <1> QED BY <1>1, <1>2, <1>3 DEF Todos

LEMMA OneTodo ==
    ASSUME NEW t \in Signed
    PROVE  <<t>> \in Todos /\ Len(<<t>>) = 1
  <1>1. <<t>> \in Seq(Signed) /\ Len(<<t>>) = 1
    OBVIOUS
  <1> QED BY <1>1 DEF Todos

LEMMA Joined ==
    ASSUME NEW S, NEW s \in Seq(S), NEW t \in Seq(S)
    PROVE  s \o t \in Seq(S) /\ Len(s \o t) = Len(s) + Len(t)
  OBVIOUS

LEMMA ToSign ==
    ASSUME NEW kind \in {"deposit", "withdraw", "flux"}
    PROVE  Transactions(kind) \in Todos
  <1>1. CASE kind # "flux"
    BY <1>1, OneTodo DEF Transactions, Signed
  <1>2. CASE kind = "flux"
    <2>1. "create" \in Signed /\ "extend" \in Signed /\ "pool" \in Signed
      BY DEF Signed
    <2>2. <<"create", "extend">> \in Seq(Signed) /\ Len(<<"create", "extend">>) = 2
      BY <2>1
    <2>3. <<"pool">> \in Seq(Signed) /\ Len(<<"pool">>) = 1
      BY <2>1, OneTodo DEF Todos
    <2>4. TableTransactions \in Seq(Signed) /\ Len(TableTransactions) = 2
      BY <2>2 DEF TableTransactions
    <2> DEFINE last == <<"pool">>
    <2>5. last \in Seq(Signed) /\ Len(last) = 1
      BY <2>3
    <2> HIDE DEF last
    <2>6. TableTransactions \o last \in Seq(Signed) /\ Len(TableTransactions \o last) = 3
      <3>1. /\ TableTransactions \o last \in Seq(Signed)
            /\ Len(TableTransactions \o last) = Len(TableTransactions) + Len(last)
        BY <2>4, <2>5, Joined, Zenon
      <3> QED BY <2>4, <2>5, <3>1
    <2>7. TableTransactions \o last \in Todos
      BY <2>6 DEF Todos
    <2> QED BY <1>2, <2>7 DEF Transactions, last
  <1> QED BY <1>1, <1>2

-----------------------------------------------------------------------------
(* The operation of the page. *)

(* Launches only go on, whoever drives them.                               *)
LEMMA PagesOnward ==
    ASSUME PairsTyped, NEW p \in Pairs, NEW origin, LaunchStep(p, origin)
    PROVE  /\ LaunchLeft(p)' < LaunchLeft(p)
           /\ \A q \in Pairs : LaunchLeft(q)' <= LaunchLeft(q)
  <1>1. \E from, to :
          /\ page[p] = from /\ page' = [page EXCEPT ![p] = to]
          /\ \/ from = "idle" /\ to = "mints"
             \/ from = "mints" /\ to = "config"
             \/ from = "config" /\ to = "pools"
             \/ from = "pools" /\ to = "handed"
             \/ from = "handed" /\ to = "done"
    BY DEF LaunchStep, CreateMints, InitConfig, RegisterTriangle, HandOver, LaunchHookList
  <1>2. page \in [Pairs -> {"idle", "mints", "config", "pools", "handed", "done"}]
    BY DEF PairsTyped
  <1>3. LaunchLeft(p)' < LaunchLeft(p)
    BY <1>1, <1>2 DEF LaunchLeft
  <1>4. ASSUME NEW q \in Pairs PROVE LaunchLeft(q)' <= LaunchLeft(q)
    BY <1>1, <1>2, <1>3 DEF LaunchLeft
  <1> QED BY <1>3, <1>4

LEMMA LaunchLeftRange ==
    ASSUME PairsTyped, NEW p \in Pairs
    PROVE  LaunchLeft(p) \in 1..6
  BY DEF PairsTyped, LaunchLeft

LEMMA OpLeftRange ==
    ASSUME PairsTyped, OpShape
    PROVE  OpLeft \in 0..7 /\ (OpLeft = 0 <=> op = NoOp)
  <1>1. CASE op = NoOp
    BY <1>1 DEF NoOp, OpLeft
  <1>2. CASE op.at = "sign" /\ op.todo \in Todos
    <2>1. Len(op.todo) \in 1..3 /\ NoOp.at = "idle"
      BY <1>2, TodoLeft DEF NoOp
    <2>2. OpLeft = 2 * Len(op.todo)
      BY <1>2 DEF OpLeft
    <2>3. 2 * Len(op.todo) \in 2..6
      BY <2>1, Doubled
    <2>4. op # NoOp
      BY <1>2, <2>1
    <2> QED BY <2>2, <2>3, <2>4
  <1>3. CASE op.at = "wait" /\ op.todo = <<"pool">>
    <2>1. Len(op.todo) = 1 /\ NoOp.at = "idle"
      BY <1>3, OneTodo DEF Signed, NoOp
    <2>2. OpLeft = 2 * Len(op.todo) + 1
      BY <1>3 DEF OpLeft
    <2>3. OpLeft = 3 /\ op # NoOp
      BY <1>3, <2>1, <2>2
    <2> QED BY <2>3
  <1>4. CASE op.at = "launch" /\ op.pair \in Pairs
    BY <1>4, LaunchLeftRange DEF OpLeft, NoOp
  <1>5. CASE op.at = "asked"
    BY <1>5 DEF OpLeft, NoOp
  <1> QED BY <1>1, <1>2, <1>3, <1>4, <1>5 DEF OpShape, OpBusy

(* What a step of the operation does. *)
LEMMA OpTurns ==
    ASSUME PairsTyped, OpShape, OpStep
    PROVE  OpShape' /\ OpLeft' < OpLeft /\ page' = page
  <1> USE DEF OpShape
  <1>1. op.at # "idle" => op # NoOp
    BY DEF NoOp
  <1>2. NoOp.at = "idle" /\ {"kind", "at", "pair", "todo", "hook"} \subseteq DOMAIN NoOp
    BY DEF NoOp
  <1> HIDE DEF NoOp
  <1>3. OpLeft \in Nat
    BY OpLeftRange
  <1>4. ASSUME op' = NoOp, op # NoOp PROVE OpShape' /\ OpLeft' < OpLeft
    <2>1. OpLeft' = 0
      BY <1>2, <1>4 DEF OpLeft
    <2>2. OpLeft # 0
      BY <1>4, OpLeftRange
    <2> QED BY <1>2, <1>3, <1>4, <2>1, <2>2 DEF OpFields
  <1>5. CASE OpBuilt
    <2>1. op.at = "asked" /\ op.kind \in {"deposit", "withdraw", "flux"}
      BY <1>1, <1>5 DEF OpBuilt, OpBusy
    <2>2. op'.at = "sign" /\ op'.kind = op.kind /\ op'.todo \in Todos /\ OpFields'
      BY <1>5, <2>1, ToSign DEF OpBuilt, OpFields
    <2>3. OpShape'
      BY <2>1, <2>2 DEF OpBusy
    <2>4. OpLeft' = 2 * Len(op'.todo) /\ Len(op'.todo) \in 1..3
      BY <2>2, TodoLeft DEF OpLeft
    <2>5. OpLeft = 7
      BY <2>1 DEF OpLeft
    <2>6. 2 * Len(op'.todo) \in 2..6
      BY <2>4, Doubled
    <2> QED BY <1>5, <2>3, <2>4, <2>5, <2>6 DEF OpBuilt, chainAndServer, pairVars
  <1>6. CASE BuildFails
    BY <1>1, <1>4, <1>6 DEF BuildFails, AfterFailure, chainAndServer, pairVars
  <1>7. CASE OpRefused
    BY <1>1, <1>4, <1>7 DEF OpRefused, AfterFailure, chainAndServer, pairVars
  <1>8. CASE OpSign
    <2>1. op.at = "sign" /\ op.kind # "launch" /\ op.todo \in Todos
      BY <1>1, <1>8 DEF OpSign, OpBusy
    <2>2. page' = page
      BY <1>8 DEF OpSign, chainAndServer, pairVars
    <2>3. CASE Tail(op.todo) = <<>>
      BY <1>1, <1>4, <1>8, <2>1, <2>2, <2>3 DEF OpSign
    <2>4. CASE Tail(op.todo) # <<>>
      <3> DEFINE todo == Tail(op.todo)
                 at == IF todo = <<"pool">> THEN "wait" ELSE "sign"
      <3>1. op' = [op EXCEPT !.todo = todo, !.at = at]
        BY <1>8, <2>4 DEF OpSign
      <3>2. todo \in Todos /\ Len(op.todo) = Len(todo) + 1 /\ Len(todo) \in 1..3
        BY <2>1, <2>4, TodoLeft
      <3> HIDE DEF todo
      <3>3. op'.at = at /\ op'.todo = todo /\ op'.kind = op.kind /\ OpFields'
        BY <3>1 DEF OpFields
      <3>4. OpShape'
        BY <2>1, <3>2, <3>3 DEF OpBusy
      <3>5. OpLeft = 2 * Len(op.todo)
        BY <2>1 DEF OpLeft
      <3>6. OpLeft' = 2 * Len(todo) \/ OpLeft' = 2 * Len(todo) + 1
        BY <3>3 DEF OpLeft
      <3>7. OpLeft' < OpLeft
        BY <3>2, <3>5, <3>6
      <3> QED BY <2>2, <3>4, <3>7
    <2> QED BY <2>3, <2>4
  <1>9. CASE OpWaited
    <2>1. op.at = "wait" /\ op.kind # "launch" /\ op.todo = <<"pool">>
      BY <1>1, <1>9 DEF OpWaited, OpBusy
    <2>2. op'.at = "sign" /\ op'.todo = op.todo /\ op'.kind = op.kind /\ OpFields'
      BY <1>9 DEF OpWaited, OpFields
    <2>3. op.todo \in Todos /\ Len(op.todo) = 1
      BY <2>1, OneTodo DEF Signed
    <2>4. OpShape'
      BY <2>1, <2>2, <2>3 DEF OpBusy
    <2>5. OpLeft = 2 * Len(op.todo) + 1 /\ OpLeft' = 2 * Len(op.todo)
      BY <2>1, <2>2 DEF OpLeft
    <2> QED BY <1>9, <2>3, <2>4, <2>5 DEF OpWaited, chainAndServer, pairVars
  <1> QED BY <1>5, <1>6, <1>7, <1>8, <1>9 DEF OpStep

LEMMA LaunchTurns ==
    ASSUME PairsTyped, OpShape, LaunchMoves
    PROVE  OpShape' /\ OpLeft' < OpLeft
  <1>1. op.at = "launch" /\ op.kind = "launch" /\ op.pair \in Pairs /\ op # NoOp
    <2>1. op.kind = "launch" /\ NoOp.kind = "none"
      BY DEF LaunchMoves, LaunchGoes, LaunchDone, LaunchFails, NoOp
    <2> QED BY <2>1 DEF OpShape, OpBusy
  <1>2. OpLeft = LaunchLeft(op.pair) /\ LaunchLeft(op.pair) \in 1..6
    BY <1>1, LaunchLeftRange DEF OpLeft
  <1>3. CASE LaunchDone \/ LaunchFails
    <2>1. op' = NoOp
      BY <1>3 DEF LaunchDone, LaunchFails, AfterFailure
    <2>2. OpShape' /\ OpLeft' = 0
      BY <2>1 DEF OpShape, OpFields, OpLeft, NoOp
    <2> QED BY <1>2, <2>2
  <1>4. CASE LaunchGoes
    <2>1. op' = op /\ LaunchStep(op.pair, op.oracle)
      BY <1>4 DEF LaunchGoes, pageVars
    <2>2. OpShape'
      BY <2>1 DEF OpShape, OpFields, OpBusy
    <2>3. OpLeft' = LaunchLeft(op.pair)'
      BY <1>1, <2>1 DEF OpLeft
    <2> QED BY <1>1, <1>2, <2>1, <2>2, <2>3, PagesOnward
  <1> QED BY <1>3, <1>4 DEF LaunchMoves

(* A step that is not the operation's. *)
LEMMA OpRests ==
    ASSUME PairsTyped, OpShape, op' = op,
           \A q \in Pairs : LaunchLeft(q)' <= LaunchLeft(q)
    PROVE  OpShape' /\ OpLeft' <= OpLeft
  <1>1. OpShape'
    BY DEF OpShape, OpFields, OpBusy
  <1>2. CASE op.at = "launch" /\ op.pair \in Pairs
    <2>1. OpLeft = LaunchLeft(op.pair) /\ OpLeft' = LaunchLeft(op.pair)'
      BY <1>2 DEF OpLeft
    <2> QED BY <1>1, <1>2, <2>1
  <1>3. CASE op.at # "launch"
    <2>1. OpLeft' = OpLeft
      BY <1>3 DEF OpLeft
    <2>2. OpLeft \in Nat
      BY OpLeftRange
    <2> QED BY <1>1, <2>1, <2>2
  <1>4. NoOp.at # "launch"
    BY DEF NoOp
  <1> QED BY <1>2, <1>3, <1>4 DEF OpShape, OpBusy

LEMMA PagesStay ==
    ASSUME PairsTyped, page' = page
    PROVE  \A q \in Pairs : LaunchLeft(q)' <= LaunchLeft(q)
  <1>1. \A q \in Pairs : LaunchLeft(q) \in 1..6 /\ LaunchLeft(q)' = LaunchLeft(q)
    BY LaunchLeftRange DEF LaunchLeft
  <1> QED BY <1>1

LEMMA ScriptsLeavePages ==
    ASSUME NEW p, ScriptStep(p)
    PROVE  page' = page
  BY DEF ScriptStep, StartScript, ScriptDies, ReadEmbeds, ReadKind, LandList, LandTable, LandVenue,
         LandInitCrawl, LandOracleKind, LandMigrate, LandAdvance

(* A click that starts an operation finds none. *)
LEMMA OpStarts ==
    ASSUME OpShape,
           \/ Deposit \/ (\E pct \in {50, 100} : Withdraw(pct))
           \/ (\E quote \in {"USDC", "SOL"} : Flux(quote))
           \/ (\E p \in Pairs : LaunchClick(p))
    PROVE  op = NoOp /\ OpShape'
  <1>1. op = NoOp
    BY DEF Deposit, Withdraw, Flux, LaunchClick, Idle
  <1>2. ASSUME NEW kind \in {"deposit", "withdraw"}, NEW p, NEW amt, Begins(kind, p, amt)
        PROVE  OpShape'
    BY <1>2 DEF Begins, NoOp, OpShape, OpFields, OpBusy
  <1>3. CASE Deposit \/ \E pct \in {50, 100} : Withdraw(pct)
    BY <1>1, <1>2, <1>3 DEF Deposit, Withdraw
  <1>4. CASE \E quote \in {"USDC", "SOL"} : Flux(quote)
    BY <1>1, <1>4 DEF Flux, NoOp, OpShape, OpFields, OpBusy
  <1>5. CASE \E p \in Pairs : LaunchClick(p)
    BY <1>1, <1>5 DEF LaunchClick, NoOp, OpShape, OpFields, OpBusy
  <1>6. OpShape'
    BY <1>3, <1>4, <1>5, Zenon
  <1> QED BY <1>1, <1>6

LEMMA OpLeftTyped == PairsTyped /\ OpShape => OpLeft \in 0..7
  BY OpLeftRange

LEMMA OpLeftTypedThen == PairsTyped' /\ OpShape' => (OpLeft \in 0..7)'
  BY OpLeftTyped, PTL

LEMMA OpNext ==
    ASSUME SiteInv, OpShape, [Next]_vars
    PROVE  OpShape' /\ (op # NoOp => OpLeft' <= OpLeft)
  <1>0. PairsTyped
    BY DEF SiteInv, PairsInv
  <1>1. ASSUME op' = op, page' = page PROVE OpShape' /\ OpLeft' <= OpLeft
    BY <1>0, <1>1, OpRests, PagesStay
  <1>2. CASE OthersStep
    <2>1. op' = op
      BY <1>2 DEF OthersStep, pageVars
    <2>2. PICK p \in Pairs : ScriptStep(p) \/ \E origin \in Oracles : LaunchStep(p, origin)
      BY <1>2 DEF OthersStep, SiteInv, LeftInv
    <2>3. ASSUME NEW origin \in Oracles, LaunchStep(p, origin) PROVE OpShape' /\ OpLeft' <= OpLeft
      BY <1>0, <2>1, <2>3, PagesOnward, OpRests
    <2>4. CASE ScriptStep(p)
      BY <1>1, <2>1, <2>4, ScriptsLeavePages
    <2> QED BY <2>2, <2>3, <2>4
  <1>3. ASSUME NEW p \in Pairs, ConfigGrows(p) PROVE op' = op /\ page' = page
    BY <1>3 DEF ConfigGrows, pageVars
  <1>4. CASE NamesChange
    <2>1. op' = op /\ page' = page
      BY <1>4 DEF NamesChange, NamesStep, StartBackfill, StartPatch, ReadName, LandName,
                  NamerStops, pairVars, pageVars
    <2> QED BY <1>1, <2>1
  <1>5. CASE BackfillAsked
    <2>1. op' = op /\ page' = page
      BY <1>5 DEF BackfillAsked, BackfillMetadata, pairVars, pageVars
    <2> QED BY <1>1, <2>1
  <1>6. CASE UNCHANGED <<pairVars, nameVars, pageVars>>
    BY <1>1, <1>6 DEF pairVars, pageVars
  <1>7. CASE PageStep
    <2>1. ASSUME UNCHANGED chainAndServer, op' = op PROVE OpShape' /\ OpLeft' <= OpLeft
      BY <1>1, <2>1 DEF chainAndServer, pairVars
    <2>2. CASE \/ PollBalance \/ (\E i \in 1..MaxAsks : AskStep(i))
               \/ (\E w \in Wallets : Connect(w)) \/ Disconnect \/ GoHome \/ RouteAnswer
               \/ (\E p \in Pairs : OpenPair(p) \/ GoTo(p))
      BY <2>1, <2>2 DEF PollBalance, AskStep, AskRead, AskAnswer, AskFails, Connect, Disconnect,
                        GoHome, RouteAnswer, OpenPair, GoTo
    <2>3. CASE \/ (\E t \in sent : Land(t) \/ Lost(t))
               \/ (\E t \in Tokens \cup {Quote, NoToken} : Type(t))
               \/ LookupFire \/ (\E t \in lookups : LookupAnswer(t))
      BY <2>1, <2>3 DEF Land, Lost, Type, LookupFire, LookupAnswer
    <2>4. ASSUME OpShape', OpLeft' < OpLeft PROVE OpLeft' <= OpLeft
      <3>1. PairsTyped'
        BY SiteStep DEF SiteInv, PairsInv
      <3>2. PairsTyped' /\ OpShape' => OpLeft' \in 0..7
        BY OpLeftTypedThen
      <3>3. OpLeft \in 0..7 /\ OpLeft' \in 0..7
        BY <1>0, <2>4, <3>1, <3>2, OpLeftTyped
      <3> QED BY <2>4, <3>3
    <2>5. CASE OpStep \/ LaunchMoves
      BY <1>0, <2>4, <2>5, OpTurns, LaunchTurns
    <2>6. CASE \/ Deposit \/ (\E pct \in {50, 100} : Withdraw(pct))
               \/ (\E quote \in {"USDC", "SOL"} : Flux(quote))
               \/ (\E p \in Pairs : LaunchClick(p))
      BY <2>6, OpStarts
    <2> QED BY <1>7, <2>2, <2>3, <2>5, <2>6 DEF PageStep
  <1>8. CASE UNCHANGED vars
    BY <1>1, <1>8 DEF vars, pairVars, pageVars
  <1> QED BY <1>1, <1>2, <1>3, <1>4, <1>5, <1>6, <1>7, <1>8 DEF Next

LEMMA OpKept == Spec => []OpShape
  <1>1. Init => OpShape
    <2>1. Init => op = NoOp
      BY DEF Init, PageInit
    <2> QED BY <2>1 DEF OpShape, OpFields, NoOp
  <1>2. SiteInv /\ OpShape /\ [Next]_vars => OpShape'
    BY OpNext
  <1> QED BY <1>1, <1>2, SiteKept, PTL DEF Spec

(* The page does not stay busy with an operation, whatever the server      *)
(* answers, the user signs or refuses, and others launch meanwhile.        *)
THEOREM OperationsEnd == Spec => OperationAdvances /\ []OperationBounded
  <1>1. SiteInv /\ OpShape /\ [Next]_vars =>
            [/\ OpStep \/ LaunchMoves => OpLeft' < OpLeft
             /\ op # NoOp => OpLeft' <= OpLeft]_vars
    <2>1. SiteInv => PairsTyped
      BY DEF SiteInv, PairsInv
    <2> QED BY <2>1, OpNext, OpTurns, LaunchTurns
  <1>2. SiteInv /\ OpShape => OperationBounded
    BY OpLeftRange DEF SiteInv, PairsInv, OperationBounded
  <1> QED BY <1>1, <1>2, SiteKept, OpKept, PTL DEF Spec, OperationAdvances

-----------------------------------------------------------------------------
(* The lookup of the launch form, and the balance. *)

(* Steps that are not the page's. *)
LEMMA PageWaits ==
    ASSUME Next
    PROVE  PageStep \/ UNCHANGED pageVars
  BY DEF Next, OthersStep, ConfigGrows, NamesChange, BackfillAsked

LEMMA LookupKept ==
    ASSUME LookupComes, PageStep
    PROVE  LookupComes'
  <1>1. ASSUME UNCHANGED <<info, timer, lookups>> PROVE LookupComes'
    BY <1>1 DEF LookupComes
  <1>2. CASE \/ PollBalance \/ (\E i \in 1..MaxAsks : AskStep(i))
             \/ (\E w \in Wallets : Connect(w)) \/ Disconnect \/ GoHome \/ RouteAnswer
             \/ (\E p \in Pairs : OpenPair(p) \/ GoTo(p))
    BY <1>1, <1>2 DEF PollBalance, AskStep, AskRead, AskAnswer, AskFails, Connect, Disconnect,
                      GoHome, RouteAnswer, OpenPair, GoTo
  <1>3. CASE \/ Deposit \/ (\E pct \in {50, 100} : Withdraw(pct))
             \/ (\E quote \in {"USDC", "SOL"} : Flux(quote))
             \/ (\E p \in Pairs : LaunchClick(p))
    BY <1>1, <1>3 DEF Deposit, Withdraw, Flux, LaunchClick
  <1>4. CASE OpStep \/ LaunchMoves \/ \E t \in sent : Land(t) \/ Lost(t)
    BY <1>1, <1>4 DEF OpStep, OpBuilt, BuildFails, OpSign, OpRefused, OpWaited, LaunchMoves,
                      LaunchGoes, LaunchDone, LaunchFails, Land, Lost, pageVars
  <1>5. CASE \E t \in Tokens \cup {Quote, NoToken} : Type(t)
    BY <1>5, SitePageAssumption DEF Type, LookupComes, NoToken
  <1>6. CASE LookupFire
    BY <1>6 DEF LookupFire, LookupComes
  <1>7. CASE \E t \in lookups : LookupAnswer(t)
    <2>1. PICK t \in lookups : info' \in {ResolvePriceAnchor(t), "failed"} \cup DegradedAnchors(t)
      BY <1>7 DEF LookupAnswer
    <2>2. ResolvePriceAnchor(t) # "loading"
      BY DEF ResolvePriceAnchor
    <2>3. "loading" \notin DegradedAnchors(t)
      BY DEF DegradedAnchors
    <2> QED BY <2>1, <2>2, <2>3 DEF LookupComes
  <1> QED BY <1>2, <1>3, <1>4, <1>5, <1>6, <1>7 DEF PageStep

(* A form does not wait for a lookup that nobody makes. *)
THEOREM LookupsCome == Spec => []LookupComes
  <1>1. Init => LookupComes
    BY DEF Init, PageInit, LookupComes
  <1>2. LookupComes /\ [Next]_vars => LookupComes'
    <2> SUFFICES ASSUME LookupComes, [Next]_vars PROVE LookupComes'
      OBVIOUS
    <2>1. CASE UNCHANGED pageVars
      BY <2>1 DEF pageVars, LookupComes
    <2>2. CASE PageStep
      BY <2>2, LookupKept
    <2> QED BY <2>1, <2>2, PageWaits DEF vars
  <1> QED BY <1>1, <1>2, PTL DEF Spec

AskFields(a) == {"at", "wallet", "pair", "got"} \subseteq DOMAIN a

AsksShape == DOMAIN asks = 1..MaxAsks /\ \A i \in 1..MaxAsks : AskFields(asks[i])

LEMMA NewAsk ==
    ASSUME NEW w, NEW p
    PROVE  LET new == [NoAsk EXCEPT !.at = "asked", !.wallet = w, !.pair = p]
           IN  AskFields(new) /\ new.at = "asked" /\ new.wallet = w /\ new.pair = p
  BY DEF NoAsk, AskFields

(* Requests that begin are for the wallet and the pair they are said to    *)
(* be, and there are none without these.                                   *)
LEMMA AskedFor ==
    ASSUME AsksShape, NEW n, NEW w, NEW p
    PROVE  /\ DOMAIN Asked(n, w, p) = 1..MaxAsks
           /\ \A i \in 1..MaxAsks :
                 \/ Asked(n, w, p)[i] = asks[i]
                 \/ /\ w # NoWallet /\ p # NoPair
                    /\ AskFields(Asked(n, w, p)[i])
                    /\ Asked(n, w, p)[i].at = "asked"
                    /\ Asked(n, w, p)[i].wallet = w /\ Asked(n, w, p)[i].pair = p
  <1> DEFINE new == [NoAsk EXCEPT !.at = "asked", !.wallet = w, !.pair = p]
  <1>1. AskFields(new) /\ new.at = "asked" /\ new.wallet = w /\ new.pair = p
    BY NewAsk
  <1>2. CASE w = NoWallet \/ p = NoPair
    BY <1>2 DEF Asked, AsksShape
  <1>3. CASE ~(w = NoWallet \/ p = NoPair)
    <2>1. /\ DOMAIN Asked(n, w, p) = 1..MaxAsks
          /\ \A i \in 1..MaxAsks : Asked(n, w, p)[i] \in {new, asks[i]}
      BY <1>3 DEF Asked, AsksShape
    <2> HIDE DEF new
    <2> QED BY <1>1, <1>3, <2>1
  <1> QED BY <1>2, <1>3

(* What a step may do to the requests and to the balance.                  *)
AsksTurn ==
    /\ AsksShape'
    /\ UNCHANGED <<wallet, active, owned>> =>
        /\ Misled' \subseteq Misled
        /\ Misled = {} /\ receipt' \notin {receipt, NoBalance} =>
               receipt' = owned[wallet][active]

LEMMA AsksRest ==
    ASSUME AsksShape, asks' = asks, receipt' \in {receipt, NoBalance}
    PROVE  AsksTurn
  BY DEF AsksShape, AsksTurn, Misled, Right

LEMMA AsksBegin ==
    ASSUME AsksShape, receipt' \in {receipt, NoBalance}, NEW n, asks' = Asked(n, wallet', active')
    PROVE  AsksTurn
  <1>1. AsksShape'
    BY AskedFor DEF AsksShape
  <1>2. ASSUME UNCHANGED <<wallet, active, owned>>, NEW i \in Misled' PROVE i \in Misled
    <2>1. i \in 1..MaxAsks /\ asks'[i].at # "idle" /\ ~Right(asks[i])'
      BY <1>2 DEF Misled
    <2>2. asks'[i] = asks[i]
      <3> SUFFICES ASSUME asks'[i] # asks[i] PROVE FALSE
        OBVIOUS
      <3>1. /\ wallet # NoWallet /\ active # NoPair
            /\ asks'[i].at = "asked" /\ asks'[i].wallet = wallet /\ asks'[i].pair = active
        BY <1>2, <2>1, AskedFor
      <3> QED BY <1>2, <2>1, <3>1 DEF Right
    <2> QED BY <1>2, <2>1, <2>2 DEF Misled, Right
  <1> QED BY <1>1, <1>2 DEF AsksTurn

LEMMA AsksAnswered ==
    ASSUME AsksShape, NEW i \in 1..MaxAsks, AskStep(i)
    PROVE  AsksTurn
  <1>1. UNCHANGED <<wallet, active, owned>>
    BY DEF AskStep, AskRead, AskAnswer, AskFails
  <1>2. AskFields(NoAsk) /\ NoAsk.at = "idle"
    BY DEF AskFields, NoAsk
  <1> HIDE DEF NoAsk
  <1>3. CASE AskRead(i)
    <2>1. /\ DOMAIN asks' = 1..MaxAsks /\ \A j \in 1..MaxAsks \ {i} : asks'[j] = asks[j]
          /\ AskFields(asks'[i])
          /\ asks'[i].at = "read" /\ asks'[i].wallet = asks[i].wallet
          /\ asks'[i].pair = asks[i].pair
          /\ asks'[i].got = owned[asks[i].wallet][asks[i].pair]
          /\ asks[i].at = "asked" /\ receipt' = receipt
      BY <1>3 DEF AskRead, AsksShape, AskFields
    <2>2. ASSUME NEW j \in Misled' PROVE j \in Misled
      BY <1>1, <2>1, <2>2 DEF Misled, Right
    <2> QED BY <2>1, <2>2 DEF AsksTurn, AsksShape
  <1>4. CASE AskAnswer(i) \/ AskFails(i)
    <2>1. asks' = [asks EXCEPT ![i] = NoAsk]
      BY <1>4 DEF AskAnswer, AskFails
    <2>2. /\ DOMAIN asks' = 1..MaxAsks /\ \A j \in 1..MaxAsks \ {i} : asks'[j] = asks[j]
          /\ asks'[i] = NoAsk
      BY <2>1 DEF AsksShape
    <2>3. ASSUME NEW j \in Misled' PROVE j \in Misled
      BY <1>1, <1>2, <2>2, <2>3 DEF Misled, Right
    <2>4. receipt' = receipt \/ (asks[i].at = "read" /\ receipt' = asks[i].got)
      BY <1>4 DEF AskAnswer, AskFails
    <2>5. Misled = {} /\ receipt' # receipt => receipt' = owned[wallet][active]
      BY <2>4 DEF Misled, Right
    <2> QED BY <1>2, <2>2, <2>3, <2>5 DEF AsksTurn, AsksShape
  <1> QED BY <1>3, <1>4 DEF AskStep

LEMMA PageAsks ==
    ASSUME AsksShape, PageStep
    PROVE  AsksTurn
  <1>1. CASE \E i \in 1..MaxAsks : AskStep(i)
    BY <1>1, AsksAnswered
  <1>2. CASE PollBalance \/ (\E w \in Wallets : Connect(w))
    BY <1>2, AsksBegin DEF PollBalance, Connect, LoadBalances
  <1>3. CASE RouteAnswer
    BY <1>3, AsksBegin, AsksRest DEF RouteAnswer, LoadBalances
  <1>4. CASE \E p \in Pairs : OpenPair(p) \/ GoTo(p)
    BY <1>4, AsksBegin, AsksRest DEF OpenPair, GoTo, Opened
  <1>5. CASE Disconnect \/ GoHome
    BY <1>5, AsksRest DEF Disconnect, GoHome
  <1>6. CASE \/ Deposit \/ (\E pct \in {50, 100} : Withdraw(pct))
             \/ (\E quote \in {"USDC", "SOL"} : Flux(quote))
             \/ (\E p \in Pairs : LaunchClick(p))
    BY <1>6, AsksRest DEF Deposit, Withdraw, Flux, LaunchClick
  <1>7. CASE OpStep
    BY <1>7, AsksBegin, AsksRest DEF OpStep, OpBuilt, BuildFails, OpSign, OpRefused, OpWaited
  <1>8. CASE LaunchMoves
    BY <1>8, AsksBegin, AsksRest DEF LaunchMoves, LaunchGoes, LaunchDone, LaunchFails, Opened,
                                     pageVars
  <1>9. CASE \/ (\E t \in sent : Land(t) \/ Lost(t))
             \/ (\E t \in Tokens \cup {Quote, NoToken} : Type(t))
             \/ LookupFire \/ (\E t \in lookups : LookupAnswer(t))
    BY <1>9, AsksRest DEF Land, Lost, Type, LookupFire, LookupAnswer
  <1> QED BY <1>1, <1>2, <1>3, <1>4, <1>5, <1>6, <1>7, <1>8, <1>9 DEF PageStep

LEMMA AsksNext ==
    ASSUME AsksShape, [Next]_vars
    PROVE  AsksTurn
  <1>1. CASE UNCHANGED pageVars
    BY <1>1, AsksRest DEF pageVars
  <1> QED BY <1>1, PageWaits, PageAsks DEF vars

(* What the settling of the balance rests on. *)
THEOREM OldAnswersRunOut == Spec => MisledRunOut
  <1>1. Init => AsksShape
    BY DEF Init, PageInit, AsksShape, AskFields, NoAsk
  <1>2. AsksShape /\ [Next]_vars => AsksShape'
    BY AsksNext DEF AsksTurn
  <1>3. AsksShape /\ [Next]_vars =>
            [UNCHANGED <<wallet, active, owned>> =>
                /\ Misled' \subseteq Misled
                /\ Misled = {} /\ receipt' \notin {receipt, NoBalance} =>
                       receipt' = owned[wallet][active]]_vars
    BY AsksNext DEF AsksTurn
  <1> QED BY <1>1, <1>2, <1>3, PTL DEF Spec, MisledRunOut

-----------------------------------------------------------------------------
(* How the server comes to list and chart what there is. *)

(* Pairs with a config that names their pools. *)
Trading == {p \in Pairs : HasConfig(p) /\ config[p].pools = "triangle"}

Mislisted == {p \in Trading : registry[p] # Listing(Label(p), "triangle")}

Uncharted == {p \in Trading : series[p] # value[p]}

(* The answers a refresh has are those it would get now. *)
RefreshFit ==
    /\ refresh.small # Unread =>
            refresh.small = {Row(p) : p \in {q \in Pairs : config[q].size = Legacy}}
    /\ refresh.large # Unread =>
            refresh.large = {Row(p) : p \in {q \in Pairs : config[q].size = Full}}

(* Polls about to write a sample that is no more what the pair is worth.   *)
LatePolls == {i \in 1..MaxPolls : polls[i].pair # "none" /\ polls[i].got # value[polls[i].pair]}

(* A poll that is still to write a sample of every pair that wants one.    *)
WillChart(i) ==
    /\ polls[i].at = "poll"
    /\ \A p \in Uncharted : Row(p) \in polls[i].pairs \/ polls[i].pair = p

(* Nothing fails, no label is given, and the chain stands still.           *)
ServerUndisturbed == UNCHANGED <<config, names, value, up, left.faults, left.labels>>

(* A refresh that read what there is takes no pair from the registry, and  *)
(* lists every pair when it ends.                                          *)
RefreshesHeal ==
    RefreshFit =>
        /\ RefreshFit'
        /\ Mislisted' \subseteq Mislisted
        /\ RefreshEnds => Mislisted' = {}

(* No poll comes late that was not.  When none is late, no step takes a    *)
(* chart back, a poll that will chart every pair goes on to have done so,  *)
(* and so does one that begins over a right registry.                      *)
PollsHeal ==
    /\ LatePolls' \subseteq LatePolls
    /\ LatePolls = {} =>
        /\ Uncharted' \subseteq Uncharted
        /\ \A i \in 1..MaxPolls :
            WillChart(i) => WillChart(i)' \/ (PollSave(i) /\ Uncharted' = {})
    /\ Mislisted' = {} =>
        \A i \in 1..MaxPolls :
            polls[i].at = "idle" => polls'[i].at = "idle" \/ WillChart(i)'

ServerHeals == [][ServerUndisturbed /\ up => RefreshesHeal /\ PollsHeal]_vars

RefreshInv == {"small", "large"} \subseteq DOMAIN refresh

(* Who else is at work leaves the server alone, but for a label it is given. *)
LEMMA ServerAlone ==
    ASSUME [Next]_vars
    PROVE  \/ ServerStep
           \/ UNCHANGED <<registry, refresh, polls, series>>
           \/ Spend("labels") /\ UNCHANGED <<refresh, polls, series>>
  <1> DEFINE Rests == UNCHANGED <<registry, refresh, polls, series>>
  <1>1. CASE OthersStep
    BY <1>1 DEF OthersStep, serverVars
  <1>2. ASSUME NEW p \in Pairs, ConfigGrows(p) PROVE Rests
    BY <1>2 DEF ConfigGrows
  <1>3. CASE NamesChange
    BY <1>3 DEF NamesChange, serverVars
  <1>4. CASE BackfillAsked
    BY <1>4 DEF BackfillAsked, BackfillMetadata
  <1>5. CASE PageStep
    <2>1. CASE LaunchGoes
      BY <2>1 DEF LaunchGoes, serverVars
    <2>2. CASE \/ PollBalance \/ (\E i \in 1..MaxAsks : AskStep(i)) \/ RouteAnswer
      BY <2>2 DEF PollBalance, AskStep, AskRead, AskAnswer, AskFails, RouteAnswer, chainAndServer
    <2>5. CASE (\E w \in Wallets : Connect(w)) \/ Disconnect \/ GoHome
      BY <2>5 DEF Connect, Disconnect, GoHome, chainAndServer
    <2>6. CASE \E p \in Pairs : OpenPair(p) \/ GoTo(p)
      BY <2>6 DEF OpenPair, GoTo, chainAndServer
    <2>7. ASSUME NEW p \in Pairs, LaunchClick(p) PROVE Rests
      BY <2>7 DEF LaunchClick, chainAndServer
    <2>3. CASE \/ (\E t \in sent : Land(t) \/ Lost(t))
               \/ (\E t \in Tokens \cup {Quote, NoToken} : Type(t))
               \/ LookupFire \/ (\E t \in lookups : LookupAnswer(t))
      BY <2>3 DEF Land, Lost, Type, LookupFire, LookupAnswer, chainAndServer
    <2>4. CASE \/ Deposit \/ (\E quote \in {"USDC", "SOL"} : Flux(quote))
               \/ (\E pct \in {50, 100} : Withdraw(pct)) \/ OpStep \/ LaunchDone \/ LaunchFails
      BY <2>4 DEF Deposit, Flux, Withdraw, OpStep, OpBuilt, BuildFails, OpSign, OpRefused,
                  OpWaited, LaunchDone, LaunchFails, chainAndServer
    <2> QED BY <1>5, <2>1, <2>2, <2>3, <2>4, <2>5, <2>6, <2>7 DEF PageStep, LaunchMoves
  <1>6. CASE UNCHANGED vars
    BY <1>6 DEF vars, serverVars
  <1> QED BY <1>1, <1>2, <1>3, <1>4, <1>5, <1>6 DEF Next

(* What an undisturbed server does.                                        *)
LEMMA ServerGoesOn ==
    ASSUME SiteInv, [Next]_vars, ServerUndisturbed, up
    PROVE  \/ UNCHANGED <<registry, refresh, polls, series>>
           \/ RefreshStart \/ ReadSmallRows \/ ReadLargeRows \/ RefreshEnds \/ PollStart
           \/ \E i \in 1..MaxPolls : PollStep(i)
  <1>1. left.faults \in Nat /\ left.labels \in Nat /\ {"faults", "labels"} \subseteq DOMAIN left
    BY DEF SiteInv, LeftInv
  <1>2. ~Spend("labels") /\ ~Spend("faults")
    BY <1>1 DEF Spend, ServerUndisturbed
  <1>3. ~RefreshFails /\ ~Start
    BY <1>2 DEF RefreshFails, Start
  <1>4. CASE Crash \/ \E p \in Pairs : PriceMoves(p)
    BY <1>4 DEF Crash, PriceMoves
  <1> QED BY <1>2, <1>3, <1>4, ServerAlone DEF ServerStep

LEMMA RefreshKept == Spec => []RefreshInv
  <1>1. {"small", "large"} \subseteq DOMAIN NoRefresh
    BY DEF NoRefresh
  <1>2. Init => RefreshInv
    BY <1>1 DEF Init, ServerInit, RefreshInv
  <1>3. RefreshInv /\ [Next]_vars => RefreshInv'
    <2> SUFFICES ASSUME RefreshInv, [Next]_vars PROVE RefreshInv'
      OBVIOUS
    <2>1. CASE ServerStep
      <3>1. CASE refresh' = refresh
        BY <3>1 DEF RefreshInv
      <3>2. NoRefresh = [at |-> "idle", small |-> Unread, large |-> Unread, boot |-> FALSE]
        BY DEF NoRefresh
      <3> HIDE DEF Unread
      <3>3. CASE Start \/ RefreshStart
        BY <3>2, <3>3 DEF Start, RefreshStart, RefreshInv
      <3>4. CASE RefreshFails \/ RefreshEnds
        <4>1. refresh' = NoRefresh
          BY <3>4 DEF RefreshFails, RefreshAfterError, RefreshEnds
        <4> QED BY <3>2, <4>1 DEF RefreshInv
      <3>5. CASE ReadSmallRows \/ ReadLargeRows
        BY <3>5 DEF ReadSmallRows, ReadLargeRows, RefreshInv
      <3>6. CASE Crash \/ PollStart \/ \E p \in Pairs : PriceMoves(p)
        BY <3>1, <3>6 DEF Crash, PollStart, PriceMoves
      <3>7. ASSUME NEW i \in 1..MaxPolls, PollStep(i) PROVE refresh' = refresh
        <4>1. CASE PollRead(i)
          BY <4>1 DEF PollRead
        <4>2. CASE PollPush(i)
          BY <4>2 DEF PollPush
        <4>3. CASE PollSave(i)
          BY <4>3 DEF PollSave
        <4> QED BY <3>7, <4>1, <4>2, <4>3 DEF PollStep
      <3> QED BY <2>1, <3>1, <3>3, <3>4, <3>5, <3>6, <3>7 DEF ServerStep
    <2>2. CASE refresh' = refresh
      BY <2>2 DEF RefreshInv
    <2> QED BY <2>1, <2>2, ServerAlone
  <1> QED BY <1>2, <1>3, PTL DEF Spec

(* What there is stays as it is. *)
LEMMA Unmoved ==
    ASSUME ServerUndisturbed
    PROVE  /\ Trading' = Trading
           /\ \A p \in Pairs : Label(p)' = Label(p) /\ Row(p)' = Row(p)
           /\ UNCHANGED <<config, value, up>>
  BY DEF ServerUndisturbed, Trading, HasConfig, Label, Row

(* A refresh that has read what there is lists every pair. *)
LEMMA FitLists ==
    ASSUME PairsTyped, RefreshFit, Unread \notin {refresh.small, refresh.large},
           NEW p \in Trading
    PROVE  Labelled(refresh.small, refresh.large, {})[p] = Listing(Label(p), "triangle")
  <1> DEFINE small == refresh.small
             large == refresh.large
             rows == small \cup {r \in large : ~\E q \in small : q.pair = r.pair}
  <1>1. /\ small = {Row(q) : q \in {x \in Pairs : config[x].size = Legacy}}
        /\ large = {Row(q) : q \in {x \in Pairs : config[x].size = Full}}
    BY DEF RefreshFit
  <1>2. p \in Pairs /\ config[p].pools = "triangle" /\ config[p].size \in {Legacy, Full}
    BY DEF Trading, HasConfig, PairsTyped, ConfigType
  <1>3. \A q : Row(q).pair = q /\ Row(q).pools = config[q].pools
    BY DEF Row
  <1>4. Legacy # Full
    BY DEF Legacy, Full
  <1>5. Row(p) \in rows
    <2>1. CASE config[p].size = Legacy
      <3>1. Row(p) \in small
        BY <1>1, <1>2, <2>1
      <3> HIDE DEF small, large
      <3> QED BY <3>1
    <2>2. CASE config[p].size = Full
      <3>1. Row(p) \in large
        BY <1>1, <1>2, <2>2
      <3>2. ASSUME NEW q \in small, q.pair = p PROVE FALSE
        <4>1. PICK x \in Pairs : config[x].size = Legacy /\ q = Row(x)
          BY <1>1
        <4>2. x = p
          BY <1>3, <3>2, <4>1
        <4> QED BY <1>4, <2>2, <4>1, <4>2
      <3> HIDE DEF small, large
      <3> QED BY <1>3, <3>1, <3>2
    <2> QED BY <1>2, <2>1, <2>2
  <1>6. ASSUME NEW r \in rows, r.pair = p PROVE r = Row(p)
    <2>1. r \in small \/ r \in large
      OBVIOUS
    <2>2. ASSUME r \in small PROVE \E x \in Pairs : r = Row(x)
      <3> HIDE DEF rows
      <3> QED BY <1>1, <2>2
    <2>3. ASSUME r \in large PROVE \E x \in Pairs : r = Row(x)
      <3> HIDE DEF rows
      <3> QED BY <1>1, <2>3
    <2> QED BY <1>3, <1>6, <2>1, <2>2, <2>3
  <1>7. (CHOOSE r \in rows : r.pair = p) = Row(p)
    <2> HIDE DEF rows
    <2> QED BY <1>3, <1>5, <1>6
  <1>8. Labelled(small, large, {})[p] =
            IF \A r \in rows : r.pair # p THEN NotListed
            ELSE Listing(IF p \in {} THEN "bare" ELSE Label(p),
                         (CHOOSE r \in rows : r.pair = p).pools)
    BY <1>2 DEF Labelled
  <1> HIDE DEF rows, small, large
  <1>9. Labelled(small, large, {})[p] = Listing(Label(p), Row(p).pools)
    BY <1>3, <1>5, <1>7, <1>8
  <1> QED BY <1>2, <1>3, <1>9 DEF small, large

LEMMA RefreshEndsFit ==
    ASSUME SiteInv, ServerUndisturbed, RefreshFit, RefreshEnds
    PROVE  Mislisted' = {}
  <1>1. PairsTyped /\ left.faults \in Nat /\ "faults" \in DOMAIN left
    BY DEF SiteInv, PairsInv, LeftInv
  <1>2. ~Spend("faults")
    BY <1>1 DEF Spend, ServerUndisturbed
  <1>3. registry' = Labelled(refresh.small, refresh.large, {})
        /\ Unread \notin {refresh.small, refresh.large}
    BY <1>2 DEF RefreshEnds
  <1>4. \A p \in Trading : registry'[p] = Listing(Label(p), "triangle")
    BY <1>1, <1>3, FitLists
  <1>5. Trading \subseteq Pairs
    BY DEF Trading
  <1> QED BY <1>4, <1>5, Unmoved DEF Mislisted, Listing

LEMMA RefreshesHealStep ==
    ASSUME SiteInv, RefreshInv, [Next]_vars, ServerUndisturbed, up
    PROVE  RefreshesHeal
  <1> SUFFICES ASSUME RefreshFit
               PROVE  RefreshFit' /\ Mislisted' \subseteq Mislisted
                      /\ (RefreshEnds => Mislisted' = {})
    BY DEF RefreshesHeal
  <1> DEFINE Small == {Row(p) : p \in {q \in Pairs : config[q].size = Legacy}}
             Large == {Row(p) : p \in {q \in Pairs : config[q].size = Full}}
  <1>1. RefreshEnds => Mislisted' = {}
    BY RefreshEndsFit
  <1>2. registry' = registry \/ RefreshEnds
    <2>1. ASSUME NEW i \in 1..MaxPolls, PollStep(i) PROVE registry' = registry
      <3>1. CASE PollRead(i)
        BY <3>1 DEF PollRead
      <3>2. CASE PollPush(i)
        BY <3>2 DEF PollPush
      <3>3. CASE PollSave(i)
        BY <3>3 DEF PollSave
      <3> QED BY <2>1, <3>1, <3>2, <3>3 DEF PollStep
    <2>2. CASE RefreshStart \/ ReadSmallRows \/ ReadLargeRows \/ PollStart
      BY <2>2 DEF RefreshStart, ReadSmallRows, ReadLargeRows, PollStart
    <2> QED BY <2>1, <2>2, ServerGoesOn
  <1>3. registry' = registry => Mislisted' = Mislisted
    BY Unmoved DEF Mislisted, Listing, Trading
  <1>4. (refresh'.small \in {Unread, Small}) /\ (refresh'.large \in {Unread, Large})
    <2>1. refresh.small \in {Unread, Small} /\ refresh.large \in {Unread, Large}
      BY DEF RefreshFit
    <2>2. NoRefresh = [at |-> "idle", small |-> Unread, large |-> Unread, boot |-> FALSE]
      BY DEF NoRefresh
    <2> HIDE DEF Small, Large, Unread
    <2>3. CASE refresh' = refresh
      BY <2>1, <2>3
    <2>4. CASE RefreshStart
      BY <2>2, <2>4 DEF RefreshStart
    <2>5. CASE RefreshEnds
      <3>1. refresh' = NoRefresh
        BY <2>5 DEF RefreshEnds
      <3> QED BY <2>2, <3>1
    <2>6. CASE ReadSmallRows
      <3>1. refresh' = [refresh EXCEPT !.small = Small]
        BY <2>6 DEF ReadSmallRows, Small
      <3> QED BY <2>1, <3>1 DEF RefreshInv
    <2>7. CASE ReadLargeRows
      <3>1. refresh' = [refresh EXCEPT !.large = Large]
        BY <2>7 DEF ReadLargeRows, Large
      <3> QED BY <2>1, <3>1 DEF RefreshInv
    <2>8. CASE PollStart
      BY <2>3, <2>8 DEF PollStart
    <2>9. ASSUME NEW i \in 1..MaxPolls, PollStep(i) PROVE refresh' = refresh
      <3>1. CASE PollRead(i)
        BY <3>1 DEF PollRead
      <3>2. CASE PollPush(i)
        BY <3>2 DEF PollPush
      <3>3. CASE PollSave(i)
        BY <3>3 DEF PollSave
      <3> QED BY <2>9, <3>1, <3>2, <3>3 DEF PollStep
    <2> QED BY <2>3, <2>4, <2>5, <2>6, <2>7, <2>8, <2>9, ServerGoesOn
  <1>5. RefreshFit'
    BY <1>4, Unmoved DEF RefreshFit, Row, Unread
  <1> QED BY <1>1, <1>2, <1>3, <1>5

(* What an undisturbed step does to a poll: it stays, begins, reads or     *)
(* leaves out a pair, writes a sample, or saves.                           *)
PollBegins(i) ==
    /\ polls[i].at = "idle"
    /\ polls'[i].at = "poll" /\ polls'[i].pairs = RowsOf(registry') /\ polls'[i].pair = "none"

PollTakes(i, r) ==
    /\ polls[i].at = "poll" /\ polls[i].pair = "none" /\ r \in polls[i].pairs
    /\ polls'[i].at = "poll" /\ polls'[i].pairs = polls[i].pairs \ {r}
    /\ \/ r.pools = "triangle" /\ polls'[i].pair = r.pair /\ polls'[i].got = value[r.pair]
       \/ r.pools # "triangle" /\ polls'[i].pair = "none"

PollWrites(i) ==
    /\ polls[i].at = "poll" /\ polls[i].pair # "none"
    /\ series' = [series EXCEPT ![polls[i].pair] = polls[i].got]
    /\ polls'[i].at = "poll" /\ polls'[i].pairs = polls[i].pairs /\ polls'[i].pair = "none"

PollMove(i) ==
    \/ polls'[i] = polls[i]
    \/ PollBegins(i)
    \/ \E r \in polls[i].pairs : PollTakes(i, r)
    \/ PollWrites(i)
    \/ PollSave(i) /\ polls'[i].pair = "none"

(* A sample stays, was missing, or is written by a poll that had read one. *)
SampleMove(p) ==
    \/ series'[p] = series[p]
    \/ series[p] = NoSeries
    \/ \E i \in 1..MaxPolls : polls[i].pair = p /\ p # "none" /\ series'[p] = polls[i].got

LEMMA BegunPolls ==
    ASSUME SamplesInv, NEW n, polls' = Begun(polls, n, registry'), NEW i \in 1..MaxPolls
    PROVE  PollMove(i)
  <1> DEFINE new == [NoPoll EXCEPT !.at = "poll", !.pairs = RowsOf(registry')]
  <1>1. new.at = "poll" /\ new.pairs = RowsOf(registry') /\ new.pair = "none"
    <2> DEFINE rows == RowsOf(registry')
    <2> HIDE DEF rows
    <2>1. [NoPoll EXCEPT !.at = "poll", !.pairs = rows].at = "poll"
      BY DEF NoPoll
    <2>2. [NoPoll EXCEPT !.at = "poll", !.pairs = rows].pairs = rows
      BY DEF NoPoll
    <2>3. [NoPoll EXCEPT !.at = "poll", !.pairs = rows].pair = "none"
      BY DEF NoPoll
    <2> QED BY <2>1, <2>2, <2>3 DEF rows
  <1> HIDE DEF new
  <1>2. \/ polls[i].at = "idle" /\ polls'[i] = new
        \/ polls'[i] = polls[i]
    BY DEF Begun, new
  <1> QED BY <1>1, <1>2 DEF PollMove, PollBegins

LEMMA PollStepMoves ==
    ASSUME SiteInv, ServerUndisturbed, NEW j \in 1..MaxPolls, PollStep(j)
    PROVE  /\ \A i \in 1..MaxPolls : PollMove(i)
           /\ \A p \in Pairs : SampleMove(p)
  <1>1. /\ left.faults \in Nat /\ "faults" \in DOMAIN left
        /\ DOMAIN polls = 1..MaxPolls /\ DOMAIN series = Keys
        /\ {"at", "pairs", "pair", "got"} \subseteq DOMAIN polls[j]
    BY DEF SiteInv, LeftInv, SamplesInv, PollOK
  <1>2. ~Spend("faults")
    BY <1>1 DEF Spend, ServerUndisturbed
  <1>3. ASSUME UNCHANGED series PROVE \A p \in Pairs : SampleMove(p)
    BY <1>3 DEF SampleMove
  <1>4. CASE PollRead(j)
    <2> DEFINE Taken(r) == polls' = [polls EXCEPT ![j].pair = r.pair, ![j].got = value[r.pair],
                                                  ![j].pairs = @ \ {r}]
               LeftOut(r) == polls' = [polls EXCEPT ![j].pairs = @ \ {r}]
    <2>1. PICK r \in polls[j].pairs :
            (r.pools = "triangle" /\ Taken(r)) \/ (r.pools # "triangle" /\ LeftOut(r))
      <3>1. \E r \in polls[j].pairs :
                \/ r.pools = "triangle" /\ Taken(r) /\ UNCHANGED left
                \/ LeftOut(r) /\ IF r.pools = "triangle" THEN Spend("faults") ELSE UNCHANGED left
        BY <1>4, Zenon DEF PollRead
      <3> HIDE DEF Taken, LeftOut
      <3> QED BY <1>2, <3>1
    <2>2. polls[j].at = "poll" /\ polls[j].pair = "none" /\ UNCHANGED series
      BY <1>4 DEF PollRead
    <2>3. \A i \in 1..MaxPolls \ {j} : polls'[i] = polls[i]
      BY <1>1, <2>1
    <2>4. PollTakes(j, r)
      <3> DEFINE v == value[r.pair]
      <3>1. CASE r.pools = "triangle" /\ Taken(r)
        <4>1. polls'[j] = [polls[j] EXCEPT !.pair = r.pair, !.got = v, !.pairs = @ \ {r}]
          BY <1>1, <3>1
        <4> HIDE DEF v
        <4>2. /\ polls'[j].at = polls[j].at /\ polls'[j].pair = r.pair /\ polls'[j].got = v
              /\ polls'[j].pairs = polls[j].pairs \ {r}
          BY <1>1, <4>1
        <4> QED BY <2>2, <3>1, <4>2 DEF PollTakes, v
      <3>2. CASE r.pools # "triangle" /\ LeftOut(r)
        BY <1>1, <2>2, <3>2 DEF PollTakes
      <3> QED BY <2>1, <3>1, <3>2
    <2> QED BY <1>3, <2>2, <2>3, <2>4 DEF PollMove
  <1>5. CASE PollPush(j)
    <2>1. /\ polls[j].at = "poll" /\ polls[j].pair # "none"
          /\ series' = [series EXCEPT ![polls[j].pair] = polls[j].got]
          /\ polls' = [polls EXCEPT ![j].pair = "none", ![j].got = NoSeries]
      BY <1>5 DEF PollPush
    <2>2. \A i \in 1..MaxPolls \ {j} : polls'[i] = polls[i]
      BY <1>1, <2>1
    <2>3. PollWrites(j)
      <3>1. polls'[j] = [polls[j] EXCEPT !.pair = "none", !.got = NoSeries]
        BY <1>1, <2>1
      <3> QED BY <1>1, <2>1, <3>1 DEF PollWrites
    <2>4. ASSUME NEW p \in Pairs PROVE SampleMove(p)
      <3>1. p \in DOMAIN series
        BY <1>1 DEF Keys
      <3> QED BY <2>1, <3>1 DEF SampleMove
    <2> QED BY <2>2, <2>3, <2>4 DEF PollMove
  <1>6. CASE PollSave(j)
    <2>1. polls' = [polls EXCEPT ![j] = NoPoll] /\ UNCHANGED series
      BY <1>6 DEF PollSave
    <2>2. NoPoll.pair = "none"
      BY DEF NoPoll
    <2> HIDE DEF NoPoll
    <2>3. polls'[j].pair = "none" /\ \A i \in 1..MaxPolls \ {j} : polls'[i] = polls[i]
      BY <1>1, <2>1, <2>2
    <2> QED BY <1>3, <1>6, <2>1, <2>3 DEF PollMove
  <1> QED BY <1>4, <1>5, <1>6 DEF PollStep

LEMMA ServerMoves ==
    ASSUME SiteInv, [Next]_vars, ServerUndisturbed, up
    PROVE  /\ \A i \in 1..MaxPolls : PollMove(i)
           /\ \A p \in Pairs : SampleMove(p)
  <1>1. SamplesInv
    BY DEF SiteInv
  <1>2. CASE UNCHANGED <<polls, series>>
    BY <1>2 DEF PollMove, SampleMove
  <1>3. CASE RefreshStart \/ ReadSmallRows \/ ReadLargeRows
    BY <1>2, <1>3 DEF RefreshStart, ReadSmallRows, ReadLargeRows
  <1>4. CASE PollStart
    <2>1. polls' = Begun(polls, 1, registry') /\ UNCHANGED series
      BY <1>4 DEF PollStart
    <2> QED BY <1>1, <2>1, BegunPolls DEF SampleMove
  <1>5. CASE RefreshEnds
    <2>1. /\ polls' = polls \/ \E n : polls' = Begun(polls, n, registry')
          /\ series' = Migrated(registry', series)
      BY <1>5 DEF RefreshEnds
    <2>2. \A p \in Pairs : series'[p] = series[p] \/ series[p] = NoSeries
      BY <2>1 DEF Migrated, Keys
    <2> QED BY <1>1, <2>1, <2>2, BegunPolls DEF PollMove, SampleMove
  <1> QED BY <1>2, <1>3, <1>4, <1>5, PollStepMoves, ServerGoesOn

LEMMA PollsHealStep ==
    ASSUME SiteInv, [Next]_vars, ServerUndisturbed, up
    PROVE  PollsHeal
  <1>1. \A i \in 1..MaxPolls : PollMove(i)
    BY ServerMoves
  <1>2. \A p \in Pairs : SampleMove(p)
    BY ServerMoves
  <1>3. Trading' = Trading /\ value' = value /\ (\A p \in Pairs : Row(p)' = Row(p))
    BY Unmoved
  <1>4. Trading \subseteq Pairs /\ "none" \notin Pairs
    BY SiteServerAssumption DEF Trading
  <1>5. \A p \in Trading : value[p] # NoSeries /\ Row(p).pair = p /\ Row(p).pools = "triangle"
    BY SiteServerAssumption DEF SiteInv, SamplesInv, Trading, Row, NoSeries
  <1>6. LatePolls' \subseteq LatePolls
    <2> SUFFICES ASSUME NEW i \in 1..MaxPolls, polls'[i].pair # "none",
                        polls'[i].got # value[polls'[i].pair]
                 PROVE  polls[i].pair # "none" /\ polls[i].got # value[polls[i].pair]
      BY <1>3 DEF LatePolls
    <2> QED BY <1>1 DEF PollMove, PollBegins, PollTakes, PollWrites
  <1>7. ASSUME LatePolls = {} PROVE Uncharted' \subseteq Uncharted
    <2>1. ASSUME NEW p \in Trading, series'[p] # value[p] PROVE series[p] # value[p]
      <3>1. SampleMove(p)
        BY <1>2, <1>4
      <3>2. ASSUME NEW i \in 1..MaxPolls, polls[i].pair = p, p # "none" PROVE polls[i].got = value[p]
        BY <1>7, <3>2 DEF LatePolls
      <3> QED BY <1>5, <2>1, <3>1, <3>2 DEF SampleMove
    <2> QED BY <1>3, <2>1 DEF Uncharted
  <1>8. ASSUME LatePolls = {}, NEW i \in 1..MaxPolls, WillChart(i)
        PROVE  WillChart(i)' \/ (PollSave(i) /\ Uncharted' = {})
    <2>1. Uncharted' \subseteq Uncharted /\ Uncharted \subseteq Trading
      BY <1>7, <1>8 DEF Uncharted
    <2>2. polls[i].at = "poll" /\ \A p \in Uncharted : Row(p) \in polls[i].pairs \/ polls[i].pair = p
      BY <1>8 DEF WillChart
    <2>3. ASSUME polls'[i].at = "poll",
                 \A p \in Uncharted' : Row(p) \in polls'[i].pairs \/ polls'[i].pair = p
          PROVE  WillChart(i)'
      BY <1>3, <1>4, <2>1, <2>3 DEF WillChart
    <2>4. CASE polls'[i] = polls[i]
      BY <2>1, <2>2, <2>3, <2>4
    <2>5. ASSUME NEW r \in polls[i].pairs, PollTakes(i, r) PROVE WillChart(i)'
      <3>1. ASSUME NEW p \in Uncharted' PROVE Row(p) \in polls'[i].pairs \/ polls'[i].pair = p
        <4>1. p \in Uncharted /\ p \in Trading /\ p # "none"
          BY <1>4, <2>1
        <4>2. Row(p) \in polls[i].pairs
          BY <2>2, <2>5, <4>1 DEF PollTakes
        <4> QED BY <1>5, <2>5, <4>1, <4>2 DEF PollTakes
      <3> QED BY <2>3, <2>5, <3>1 DEF PollTakes
    <2>6. CASE PollWrites(i)
      <3>1. ASSUME NEW p \in Uncharted' PROVE Row(p) \in polls'[i].pairs
        <4>1. p \in Uncharted /\ p \in Trading /\ p \in Pairs
          BY <1>4, <2>1
        <4>2. polls[i].pair # p
          <5> SUFFICES ASSUME polls[i].pair = p PROVE FALSE
            OBVIOUS
          <5>1. polls[i].got = value[p]
            BY <1>4, <1>8, <4>1 DEF LatePolls
          <5>2. p \in DOMAIN series
            BY <4>1 DEF SiteInv, SamplesInv, Keys
          <5>3. series'[p] = value[p]
            BY <2>6, <5>1, <5>2 DEF PollWrites
          <5>4. series'[p] # value[p]
            BY <1>3 DEF Uncharted
          <5> QED BY <5>3, <5>4
        <4> QED BY <2>2, <2>6, <4>1, <4>2 DEF PollWrites
      <3> QED BY <2>3, <2>6, <3>1 DEF PollWrites
    <2>7. CASE PollSave(i)
      <3>1. polls[i].pairs = {} /\ polls[i].pair = "none"
        BY <2>7 DEF PollSave
      <3>2. Uncharted = {}
        BY <1>4, <2>1, <2>2, <3>1
      <3> QED BY <2>1, <2>7, <3>2
    <2>8. ~PollBegins(i)
      BY <2>2 DEF PollBegins
    <2> QED BY <1>1, <2>4, <2>5, <2>6, <2>7, <2>8 DEF PollMove
  <1>9. ASSUME Mislisted' = {}, NEW i \in 1..MaxPolls, polls[i].at = "idle"
        PROVE  polls'[i].at = "idle" \/ WillChart(i)'
    <2>1. CASE PollBegins(i)
      <3>1. ASSUME NEW p \in Trading PROVE Row(p) \in RowsOf(registry')
        <4>1. registry'[p] = Listing(Label(p)', "triangle")
          BY <1>3, <1>9 DEF Mislisted, Listing
        <4>2. registry'[p].pools = "triangle" /\ registry'[p] # NotListed
          BY <4>1 DEF Listing, NotListed
        <4>3. p \in Pairs /\ Row(p) = [pair |-> p, pools |-> registry'[p].pools]
          BY <1>4, <4>2 DEF Row, Trading
        <4> QED BY <4>2, <4>3 DEF RowsOf, ListedIn
      <3>2. Uncharted' \subseteq Trading
        BY <1>3 DEF Uncharted
      <3>3. polls'[i].at = "poll" /\ polls'[i].pairs = RowsOf(registry')
        BY <2>1 DEF PollBegins
      <3> QED BY <1>3, <1>4, <3>1, <3>2, <3>3 DEF WillChart
    <2>2. CASE polls'[i] = polls[i]
      BY <1>9, <2>2
    <2>3. ~PollWrites(i) /\ ~PollSave(i) /\ \A r \in polls[i].pairs : ~PollTakes(i, r)
      BY <1>9 DEF PollWrites, PollSave, PollTakes
    <2> QED BY <1>1, <2>1, <2>2, <2>3 DEF PollMove
  <1> QED BY <1>6, <1>7, <1>8, <1>9 DEF PollsHeal

(* What ListedAndCharted rests on, for any number of pairs, polls at once  *)
(* and refreshes, beside launches, scripts, tools and users that do what   *)
(* they like to what the server does not read.                             *)
THEOREM QuietServerHeals == Spec => ServerHeals
  <1>1. SiteInv /\ RefreshInv /\ [Next]_vars =>
            [ServerUndisturbed /\ up => RefreshesHeal /\ PollsHeal]_vars
    BY RefreshesHealStep, PollsHealStep
  <1> QED BY <1>1, SiteKept, RefreshKept, PTL DEF Spec, ServerHeals

=============================================================================
