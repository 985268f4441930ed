------------------------------- MODULE MCSite ---------------------------------
(***************************************************************************)
(* The site for TLC: two pairs of one symbol, n to be launched and o of    *)
(* the legacy size, and the scenes of the run.                             *)
(***************************************************************************)
EXTENDS SitePage

CONSTANTS n, o

OneSymbol == [p \in {n, o} |-> "X"]
Scene == [legacy |-> {o}, launched |-> {}, label |-> "own", boxes |-> {}, scripts |-> 0,
          renames |-> 0, listed |-> {},
          connected |-> {NoWallet}, timers |-> 0, crashes |-> 0, faults |-> 0, edits |-> 0,
          labels |-> 0, trades |-> 0, clicks |-> 0, others |-> {}]

Served == [Scene EXCEPT !.launched = {n}, !.timers = 1, !.faults = 1]

AllScenes ==
    {[Scene EXCEPT !.others = {n, o}, !.scripts = 2, !.boxes = {"legacy"}],
     [Scene EXCEPT !.listed = {o}, !.timers = 1, !.others = {n, o}],
     [Scene EXCEPT !.listed = {o}, !.timers = 1, !.label = "none", !.labels = 1, !.faults = 1],
     [Scene EXCEPT !.label = "none", !.renames = 2],
     [Scene EXCEPT !.label = "none", !.renames = 1, !.others = {n, o}],
     [Served EXCEPT !.faults = 0, !.crashes = 1],
     [Scene EXCEPT !.legacy = {}, !.timers = 1, !.others = {n}],
     [Served EXCEPT !.trades = 1],
     [Served EXCEPT !.edits = 1],
     [Scene EXCEPT !.launched = {n}, !.listed = {n}, !.connected = Wallets, !.clicks = 3,
                   !.faults = 1],
     [Scene EXCEPT !.listed = {o}, !.timers = 1, !.connected = Wallets, !.crashes = 1,
                   !.clicks = 1],
     [Scene EXCEPT !.listed = {o}, !.connected = Wallets, !.clicks = 3]}
=============================================================================
