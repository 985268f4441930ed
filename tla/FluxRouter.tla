------------------------------ MODULE FluxRouter ------------------------------
(***************************************************************************)
(* A swap request to the flux router service, served from the index while  *)
(* the index's own handlers go on.  The request makes the index fresh,     *)
(* picks a route, refreshes its pools, picks again, and refreshes and      *)
(* quotes what it picked before it builds the transaction.                 *)
(*                                                                         *)
(* Which route is best depends on amounts, which the index abstracts, so   *)
(* the pick is any route of one or two live pools.  An error is an answer, *)
(* except in the server's own ensureFresh: nobody catches it there, and    *)
(* the process ends and is started again.                                  *)
(***************************************************************************)
EXTENDS FluxIndexer

VARIABLES
    at,             \* where the request is
    route,          \* the pools of its pick
    asked           \* history: the chain's versions when it was made

request == <<at, route, asked>>
routerVars == <<chain, pools, reserve, bootstrapped, booting, gpaBusy, gpaFull, page,
                reserveBusy, jobs, cache, errors, restarts, at, route, asked>>

(* "ensure" is the server's ensureFresh and "again" that of buildSwapTx,   *)
(* "boot" and "bootAgain" the bootstrapFast within them.                   *)
Places == {"idle", "ensure", "boot", "again", "bootAgain", "pick", "picked", "final", "built"}

RouterTypeOK ==
    /\ TypeOK
    /\ at \in Places
    /\ route \in SUBSET Pools
    /\ asked \in [Pools -> 1..MaxVersion]

Waiting == \E job \in jobs : ~Own(job)

(* Its own refresh is through. *)
Ready(job) == job \in jobs /\ ~Own(job) /\ AllRead(job)

Live(res, p) == p \in pools /\ res[p].a > 0 /\ res[p].b > 0

(* A direct hop, or two by way of a hub. *)
Routes(res) ==
    {{p, q} : p, q \in {r \in Pools : Live(res, r)}}

(* A receipt's transfer hook gets no accounts from the swap. *)
Routable(r) == r \cap Hooked = {}

-----------------------------------------------------------------------------
Ask ==
    /\ at \in {"idle", "built"}
    /\ at' = "ensure" /\ asked' = chain
    /\ UNCHANGED route
    /\ UNCHANGED vars

Stale == \E p \in pools : p \in Hooked /\ reserve[p] = Empty

NeedsBoot == ~bootstrapped /\ pools = {}

(* ensureFresh boots an index that has nothing. *)
NeedBoot ==
    /\ at \in {"ensure", "again"} /\ ~Waiting
    /\ NeedsBoot
    /\ at' = IF at = "ensure" THEN "boot" ELSE "bootAgain"
    /\ UNCHANGED vars /\ UNCHANGED <<route, asked>>

EnsureBoot ==
    /\ at \in {"boot", "bootAgain"} /\ ~Waiting
    /\ pools' = pools \cup Hot
    /\ bootstrapped' = TRUE
    /\ jobs' = jobs \cup Started("requestBoot", Hot)
    /\ UNCHANGED <<chain, reserve, booting, gpaBusy, gpaFull, page, reserveBusy, cache,
                   bounds, request>>

(* It waits for the hot pools if one with a hook has nothing. *)
EnsureHot ==
    /\ at \in {"ensure", "again"} /\ ~Waiting
    /\ ~NeedsBoot /\ Stale
    /\ jobs' = jobs \cup {NewJob("request", pools \cap Hot)}
    /\ UNCHANGED <<chain, pools, reserve, bootstrapped, booting, gpaBusy, gpaFull, page,
                   reserveBusy, cache, bounds, request>>

(* The request ends, with a transaction or without. *)
Answer(how) == at' = how /\ route' = {} /\ asked' = [p \in Pools |-> 1]

(* ensureFresh is over: the server's is followed by that of buildSwapTx.   *)
Ensured == at' = IF at = "ensure" THEN "again" ELSE "pick"

(* The index will do.  A refresh of everything may be due, and is not      *)
(* waited for.                                                             *)
EnsureOthers ==
    /\ at \in {"ensure", "again"} /\ ~Waiting
    /\ ~NeedsBoot /\ ~Stale
    /\ Ensured
    /\ UNCHANGED vars /\ UNCHANGED <<route, asked>>

(* buildSwapTx picks a route and has its pools refreshed. *)
Pick ==
    /\ at = "pick"
    /\ \/ Routes(reserve) = {} /\ Answer("idle") /\ UNCHANGED jobs
       \/ \E r \in Routes(reserve) :
            /\ at' = "picked" /\ route' = r /\ UNCHANGED asked
            /\ jobs' = jobs \cup {NewJob("request", r)}
    /\ UNCHANGED <<chain, pools, reserve, bootstrapped, booting, gpaBusy, gpaFull, page,
                   reserveBusy, cache, bounds>>

(* Mutant: only one hop is refreshed again. *)
OneHop(r) == {CHOOSE p \in r : TRUE}

LastRefresh(r) == r

(* buildTxFromHops has the metadata of the mints, and refreshes. *)
RefreshPick ==
    /\ at = "final" /\ ~Waiting
    /\ jobs' = jobs \cup {NewJob("request", LastRefresh(route))}
    /\ UNCHANGED <<chain, pools, reserve, bootstrapped, booting, gpaBusy, gpaFull, page,
                   reserveBusy, cache, bounds, request>>

(* The request goes on, in the step in which its refresh writes. *)
Continue(by) ==
    \/ /\ by = "requestBoot"
       /\ at' = IF at = "boot" THEN "ensure" ELSE "again"
       /\ UNCHANGED <<route, asked>>
    \/ /\ by = "request" /\ at \in {"ensure", "again"}
       /\ Ensured /\ UNCHANGED <<route, asked>>
    \/ /\ by = "request" /\ at = "picked"
       /\ \/ /\ Routes(reserve') = {} \/ \E r \in Routes(reserve') : ~Routable(r)
             /\ Answer("idle")
          \/ \E r \in Routes(reserve') :
             /\ Routable(r)
             /\ at' = "final" /\ route' = r /\ UNCHANGED asked
    \/ /\ by = "request" /\ at = "final"
       /\ Answer(IF \A p \in route : Live(reserve', p) THEN "built" ELSE "idle")

RequestWrite(job) ==
    /\ Ready(job)
    /\ reserve' = Written(job)
    /\ jobs' = jobs \ {job}
    /\ Continue(job.by)
    /\ UNCHANGED <<chain, pools, bootstrapped, booting, gpaBusy, gpaFull, page,
                   reserveBusy, cache, bounds>>

(* A call fails, and with it the request, or the process. *)
RequestFails ==
    /\ Waiting \/ at \in {"boot", "bootAgain", "final"}
    /\ errors < MaxErrors /\ errors' = errors + 1
    /\ Answer("idle")
    /\ IF at \in {"ensure", "boot"} THEN Start(cache)
       ELSE /\ jobs' = {j \in jobs : Own(j)}
            /\ UNCHANGED <<pools, reserve, bootstrapped, booting, gpaBusy, gpaFull,
                           page, reserveBusy, cache>>
    /\ UNCHANGED <<chain, restarts>>

(* A restart of the process ends the request too. *)
IndexStep ==
    /\ IndexNext
    /\ IF restarts' = restarts THEN UNCHANGED request ELSE Answer("idle")

RequestStep ==
    \/ Ask
    \/ NeedBoot \/ EnsureBoot \/ EnsureHot \/ EnsureOthers \/ Pick
    \/ RefreshPick
    \/ \E job \in jobs : RequestWrite(job)
    \/ RequestFails

Init ==
    /\ IndexInit
    /\ at = "idle" /\ route = {} /\ asked = [p \in Pools |-> 1]

Next == IndexStep \/ RequestStep

Spec == Init /\ [][Next]_routerVars

FairSpec == Spec /\ IndexFairness

-----------------------------------------------------------------------------
(* A transaction is built from reserves no older than the request for      *)
(* every hop, whatever older refreshes wrote in the meantime.              *)
BuiltOnFreshReserves ==
    [][at # "built" /\ at' = "built" =>
        \A p \in route :
            reserve'[p].a >= asked[p] /\ reserve'[p].b >= asked[p]]_routerVars
=============================================================================
