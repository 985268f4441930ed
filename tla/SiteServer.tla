------------------------------ MODULE SiteServer ------------------------------
(***************************************************************************)
(* The site's server (server.js): the registry of pairs it reads from the  *)
(* chain now and then, the polls that take a sample of every pair, and the *)
(* samples it keeps in a file.  Timers, requests, RPC answers and crashes  *)
(* come in any order.                                                      *)
(***************************************************************************)
EXTENDS PairNames

CONSTANTS Symbol,     \* the symbol of each pair's receipt, not always its own
          MaxPolls,   \* polls at work at once
          MaxValue    \* a pair's price level runs up to this

ASSUME SiteServerAssumption ==
    MaxPolls \in Nat \ {0} /\ MaxValue \in Nat /\ "none" \notin Pairs

VARIABLES up,         \* the process is running
          registry,   \* REGISTRY: each pair's label, and the pools its config had
          refresh,    \* the refresh at work
          timers,     \* timers that start polls
          polls,      \* polls at work
          series,     \* SERIES: the last sample under a key
          disk,       \* series.json
          value,      \* what a reading of the pair would give now
          left        \* what may still happen from outside

serverVars == <<up, registry, refresh, timers, polls, series, disk, value, left>>

Keys == Pairs \cup {Symbol[p] : p \in Pairs}
NoSeries == MaxValue + 1
EmptySeries == [k \in Keys |-> NoSeries]
TornFile == [k \in Keys |-> MaxValue + 2]

Row(p) == [pair |-> p, pools |-> config[p].pools]
Unread == {[pair |-> "unread", pools |-> "none"]}
Listing(label, pools) == [label |-> label, pools |-> pools]
NotListed == Listing("absent", "none")
Unlisted == [p \in Pairs |-> NotListed]
ListedIn(reg) == {p \in Pairs : reg[p] # NotListed}
RowsOf(reg) == {[pair |-> p, pools |-> reg[p].pools] : p \in ListedIn(reg)}
NoRefresh == [at |-> "idle", small |-> Unread, large |-> Unread, boot |-> FALSE]
NoPoll == [at |-> "idle", pairs |-> {}, pair |-> "none", got |-> NoSeries]
NoPolls == [i \in 1..MaxPolls |-> NoPoll]

(* One of the things that may still happen is used up. *)
Spend(what) == left[what] > 0 /\ left' = [left EXCEPT ![what] = @ - 1]

(* labelsFromLegs: a pair's label is the name of its receipt, made up of   *)
(* A's if it has none, and of the leverage if neither has.                 *)
Label(p) ==
    CASE names[p].receipt # NoName -> names[p].receipt
      [] names[p].receipt = NoName /\ names[p].A # NoName -> names[p].A
      [] OTHER -> "bare"

(* A running server that lists the pairs, or one that has yet to start and *)
(* has a file of the days when samples were kept under symbols.            *)
ServerInit(listed, running) ==
    /\ up = running
    /\ registry = [p \in Pairs |-> IF p \in listed THEN Listing(Label(p), "triangle")
                                  ELSE NotListed]
    /\ refresh = NoRefresh
    /\ timers = 0
    /\ polls = NoPolls
    /\ disk \in IF running THEN {EmptySeries}
               ELSE {EmptySeries, [k \in Keys |-> IF k \in Pairs THEN NoSeries ELSE 0]}
    /\ series = [k \in Keys |-> IF k \in listed THEN 0 ELSE NoSeries]
    /\ value = [p \in Pairs |-> 0]

-----------------------------------------------------------------------------
(* Starting and stopping. *)

(* Mutant: the file is not read. *)
LoadSeriesNothing == EmptySeries

(* A file that cannot be parsed is no file. *)
LoadSeries == IF disk = TornFile THEN EmptySeries ELSE disk

Start ==
    /\ ~up /\ left.timers > 0
    /\ up' = TRUE
    /\ series' = LoadSeries
    /\ registry' = Unlisted
    /\ refresh' = [NoRefresh EXCEPT !.at = "rows", !.boot = TRUE]
    /\ timers' = 0
    /\ polls' = NoPolls
    /\ UNCHANGED <<disk, value, left>>

(* The process ends; in the middle of a save it leaves half a file. *)
Crash ==
    /\ up
    /\ Spend("crashes")
    /\ up' = FALSE
    /\ \/ UNCHANGED disk
       \/ /\ \E i \in 1..MaxPolls : polls[i].at = "poll" /\ polls[i].pairs = {}
          /\ disk' = TornFile
    /\ UNCHANGED <<registry, refresh, timers, polls, series, value>>

-----------------------------------------------------------------------------
(* refreshRegistryFromGpa. *)

(* From its timer, or a request that finds the registry empty or old. *)
RefreshStart ==
    /\ up /\ left.timers > 0
    /\ refresh.at = "idle"
    /\ refresh' = [NoRefresh EXCEPT !.at = "rows"]
    /\ UNCHANGED <<up, registry, timers, polls, series, disk, value, left>>

(* Configs of the two sizes are asked for at once and answered in any      *)
(* order; a config that grows in between is in neither answer, or in both. *)
ReadSmallRows ==
    /\ up /\ refresh.at = "rows" /\ refresh.small = Unread
    /\ refresh' = [refresh EXCEPT !.small = {Row(p) : p \in {q \in Pairs : config[q].size = Legacy}}]
    /\ UNCHANGED <<up, registry, timers, polls, series, disk, value, left>>

ReadLargeRows ==
    /\ up /\ refresh.at = "rows" /\ refresh.large = Unread
    /\ refresh' = [refresh EXCEPT !.large = {Row(p) : p \in {q \in Pairs : config[q].size = Full}}]
    /\ UNCHANGED <<up, registry, timers, polls, series, disk, value, left>>

(* Mutant: the flag stays up when the RPC fails. *)
RefreshAfterErrorBusy == [refresh EXCEPT !.at = "stuck"]

RefreshAfterError == NoRefresh

(* The registry stays what it was. *)
RefreshFails ==
    /\ up /\ refresh.at = "rows"
    /\ Spend("faults")
    /\ refresh' = RefreshAfterError
    /\ UNCHANGED <<up, registry, timers, polls, series, disk, value>>

(* enrichPair; metadata that cannot be read is none.  Of a pair that is in *)
(* both answers the smaller config counts.                                 *)
Labelled(small, large, unreadable) ==
    LET rows == small \cup {r \in large : ~\E q \in small : q.pair = r.pair}
    IN  [p \in Pairs |->
            IF \A r \in rows : r.pair # p THEN NotListed
            ELSE Listing(IF p \in unreadable THEN "bare" ELSE Label(p),
                         (CHOOSE r \in rows : r.pair = p).pools)]

(* migrateSeriesKeys: a pair without samples inherits those kept under its *)
(* symbol, if no other listed pair has that symbol.                        *)
Migrated(reg, ser) ==
    [k \in Keys |->
        IF /\ k \in Pairs /\ reg[k].label = "own"
           /\ ser[k] = NoSeries
           /\ {p \in Pairs : reg[p].label = "own" /\ Symbol[p] = Symbol[k]} = {k}
        THEN ser[Symbol[k]] ELSE ser[k]]

(* Polls that begin now, each over the registry it finds; more than        *)
(* MaxPolls at once are left out.                                          *)
Begun(jobs, n, reg) ==
    LET free == {i \in 1..MaxPolls : jobs[i].at = "idle"}
        rank(i) == Cardinality({j \in free : j < i})
    IN  [i \in 1..MaxPolls |->
            IF i \in free /\ rank(i) < n
            THEN [NoPoll EXCEPT !.at = "poll", !.pairs = RowsOf(reg)] ELSE jobs[i]]

(* A first refresh that lists a pair starts the timer of the polls and a   *)
(* poll; the first of the process starts another of both.                  *)
RefreshEnds ==
    /\ up /\ refresh.at = "rows" /\ Unread \notin {refresh.small, refresh.large}
    /\ LET rows == {r.pair : r \in refresh.small \cup refresh.large}
       IN  \E unreadable \in SUBSET rows :
              /\ IF unreadable = {} THEN UNCHANGED left ELSE Spend("faults")
              /\ registry' = Labelled(refresh.small, refresh.large, unreadable)
              /\ series' = Migrated(registry', series)
              /\ IF rows = {} THEN UNCHANGED <<timers, polls>>
                 ELSE LET more == IF refresh.boot THEN 1 ELSE 0
                      IN  /\ timers' = (IF timers = 0 THEN 1 ELSE timers) + more
                          /\ polls' = Begun(polls, 1 + more, registry')
    /\ refresh' = NoRefresh
    /\ UNCHANGED <<up, disk, value>>

(* backfill-metadata writes the label it is given into the listed pair,    *)
(* before the transactions are built that the pair's admin may send; it    *)
(* takes the listed label if it is given none.                             *)
BackfillMetadata(p) ==
    /\ up /\ p \in ListedIn(registry)
    /\ Spend("labels")
    /\ \E label \in {"given", registry[p].label} :
          /\ registry' = [registry EXCEPT ![p].label = label]
          /\ namers' = namers \cup {Namer("backfill", p, label, NameSlots)}
    /\ UNCHANGED <<pairVars, renames, up, refresh, timers, polls, series, disk, value>>

-----------------------------------------------------------------------------
(* poll. *)

PollStart ==
    /\ up /\ timers > 0 /\ left.timers > 0
    /\ \E i \in 1..MaxPolls : polls[i].at = "idle"
    /\ polls' = Begun(polls, 1, registry)
    /\ UNCHANGED <<up, registry, refresh, timers, series, disk, value, left>>

(* A pair is read; one that was listed without its pools, or whose reading *)
(* fails, is left out.                                                     *)
PollRead(i) ==
    /\ up /\ polls[i].at = "poll" /\ polls[i].pair = "none"
    /\ \E r \in polls[i].pairs :
          \/ /\ r.pools = "triangle"
             /\ polls' = [polls EXCEPT ![i].pair = r.pair, ![i].got = value[r.pair],
                                       ![i].pairs = @ \ {r}]
             /\ UNCHANGED left
          \/ /\ polls' = [polls EXCEPT ![i].pairs = @ \ {r}]
             /\ IF r.pools = "triangle" THEN Spend("faults") ELSE UNCHANGED left
    /\ UNCHANGED <<up, registry, refresh, timers, series, disk, value>>

PollPush(i) ==
    /\ up /\ polls[i].at = "poll" /\ polls[i].pair # "none"
    /\ series' = [series EXCEPT ![polls[i].pair] = polls[i].got]
    /\ polls' = [polls EXCEPT ![i].pair = "none", ![i].got = NoSeries]
    /\ UNCHANGED <<up, registry, refresh, timers, disk, value, left>>

(* saveSeries writes all it has, in place. *)
PollSave(i) ==
    /\ up /\ polls[i].at = "poll" /\ polls[i].pairs = {} /\ polls[i].pair = "none"
    /\ disk' = series
    /\ polls' = [polls EXCEPT ![i] = NoPoll]
    /\ UNCHANGED <<up, registry, refresh, timers, series, value, left>>

PollStep(i) == PollRead(i) \/ PollPush(i) \/ PollSave(i)

-----------------------------------------------------------------------------
(* Meanwhile on the chain. *)

PriceMoves(p) ==
    /\ config[p].pools = "triangle" /\ value[p] < MaxValue
    /\ Spend("trades")
    /\ value' = [value EXCEPT ![p] = @ + 1]
    /\ UNCHANGED <<up, registry, refresh, timers, polls, series, disk>>

ServerStep ==
    \/ Start \/ Crash \/ RefreshStart \/ ReadSmallRows \/ ReadLargeRows \/ RefreshFails
    \/ RefreshEnds \/ PollStart
    \/ \E i \in 1..MaxPolls : PollStep(i)
    \/ \E p \in Pairs : PriceMoves(p)

(* The process is restarted, its timers go on, and answers come. *)
ServerFairness ==
    /\ WF_serverVars(Start)
    /\ WF_serverVars(RefreshStart)
    /\ WF_serverVars(ReadSmallRows) /\ WF_serverVars(ReadLargeRows) /\ WF_serverVars(RefreshEnds)
    /\ WF_serverVars(PollStart)
    /\ \A i \in 1..MaxPolls : WF_serverVars(PollStep(i))

-----------------------------------------------------------------------------
(* No save loses a history the file has, of a pair that is listed or not,  *)
(* also across restarts; only a crash in the middle of a save does.        *)
HistoryKept ==
    [][disk # TornFile /\ disk' # TornFile =>
        \A k \in Keys : disk[k] # NoSeries => disk'[k] # NoSeries]_<<disk>>

(* Whatever failed, grew, was launched or was renamed meanwhile: in the    *)
(* end every pair is listed under the label its tokens give it, with a     *)
(* sample of what it is worth now, though polls overlap and a late one may *)
(* write an older sample behind a newer one.                               *)
ListedAndCharted ==
    left.timers > 0 => <>[](\A p \in Pairs :
        config[p].pools = "triangle" => registry[p].label = Label(p) /\ series[p] = value[p])
=============================================================================
