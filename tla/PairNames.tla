------------------------------- MODULE PairNames ------------------------------
(***************************************************************************)
(* The names of a pair's three tokens, and the tools an operator puts them *)
(* right with: backfill.js and the site's backfill-metadata give a name to *)
(* tokens that have none, patch-metadata.js changes the names that differ. *)
(* A tool reads, has all its transactions built, and sends them one by     *)
(* one; several may be at work on a pair.                                  *)
(***************************************************************************)
EXTENDS HookList, FiniteSets

VARIABLES namers,    \* tools at work
          renames    \* runs of tools to come

nameVars == <<namers, renames>>

NamesInit(runs) == namers = {} /\ renames = runs

-----------------------------------------------------------------------------
(* pairLabels: what the tools call a pair.  Two pairs they know; another   *)
(* is called what the operator says, or after its leverage.                *)
PairLabels(p) == {"given", IF p \in Boot THEN "own" ELSE "bare"}

(* mintHasMetadata *)
Missing(p, t) == names[p][t] = NoName

(* metaNeedsPatch *)
NeedsPatch(p, t, label) == names[p][t] # label

(* A tool that has nothing read yet, for these tokens. *)
Namer(of, p, label, tokens) ==
    [of |-> of, pair |-> p, label |-> label, unread |-> tokens, todo |-> {}, run |-> renames]

(* backfill.js, for the three tokens or one of them. *)
StartBackfill(p) ==
    /\ renames > 0 /\ HasConfig(p)
    /\ renames' = renames - 1
    /\ \E label \in PairLabels(p), tokens \in {NameSlots} \cup {{t} : t \in NameSlots} :
          namers' = namers \cup {Namer("backfill", p, label, tokens)}
    /\ UNCHANGED pairVars

(* patch-metadata.js, for what differs or by force. *)
StartPatch(p) ==
    /\ renames > 0 /\ HasConfig(p)
    /\ renames' = renames - 1
    /\ \E label \in PairLabels(p), of \in {"patch", "force"} :
          namers' = namers \cup {Namer(of, p, label, NameSlots)}
    /\ UNCHANGED pairVars

Replaced(w, v) == (namers \ {w}) \cup (IF v.unread \cup v.todo = {} THEN {} ELSE {v})

(* The tool reads the tokens' metadata, and is at its end if there is      *)
(* nothing to do for any.                                                  *)
ReadName(w, t) ==
    /\ t \in w.unread
    /\ LET wanted == CASE w.of = "backfill" -> Missing(w.pair, t)
                       [] w.of = "patch" -> NeedsPatch(w.pair, t, w.label)
                       [] w.of = "force" -> TRUE
       IN  namers' = Replaced(w, [w EXCEPT !.unread = @ \ {t},
                                           !.todo = IF wanted THEN @ \cup {t} ELSE @])
    /\ UNCHANGED <<pairVars, renames>>

(* The transactions are for A, B and the receipt, in this order. *)
IsNext(w, t) ==
    /\ w.unread = {} /\ t \in w.todo
    /\ t = "B" => "A" \notin w.todo
    /\ t = "receipt" => w.todo = {"receipt"}

(* backfill_metaplex and backfill_receipt_t22 create a name, in the name   *)
(* of the program, which must have been handed the mint; Metaplex and      *)
(* update_metadata change one that is there.                               *)
CanName(w, t) ==
    IF w.of = "backfill" THEN Missing(w.pair, t) /\ HandedOver(w.pair)
    ELSE ~Missing(w.pair, t)

LandName(w, t) ==
    /\ IsNext(w, t) /\ CanName(w, t)
    /\ names' = [names EXCEPT ![w.pair][t] = w.label]
    /\ namers' = Replaced(w, [w EXCEPT !.todo = @ \ {t}])
    /\ UNCHANGED <<config, crawl, table, list, page, script, scripts, renames>>

(* A transaction that fails, or is lost, is the tool's last. *)
NamerStops(w) ==
    /\ namers' = namers \ {w}
    /\ UNCHANGED <<pairVars, renames>>

NamesStep ==
    \/ \E p \in Pairs : StartBackfill(p) \/ StartPatch(p)
    \/ \E w \in namers :
          \/ \E t \in NameSlots : ReadName(w, t) \/ LandName(w, t)
          \/ NamerStops(w)
=============================================================================
