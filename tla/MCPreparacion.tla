----------------------------- MODULE MCPreparacion -----------------------------
(***************************************************************************)
(* Small instances of Preparacion for TLC.                                 *)
(***************************************************************************)
EXTENDS Preparacion

CONSTANTS p1, p2

Base == [tabs |-> {p1}, menu |-> {}, lotes |-> 1, photos |-> 1, steps |-> 0, asks |-> 0, ages |-> 0,
         faults |-> 0, logouts |-> 0, logins |-> 0, reloads |-> 0, rivals |-> 0, freezes |-> 0]

\* One tab: two requests meet an expired token while the user leaves and comes back; or
\* something is lost.
Returning == [Base EXCEPT !.asks = 2, !.ages = 1, !.logouts = 1, !.logins = 1]
Stumbling == [Base EXCEPT !.asks = 1, !.ages = 1, !.faults = 1, !.logouts = 1, !.logins = 1]

\* Two tabs with the same pair; one of them may be reloaded.
TwoTabs == [Base EXCEPT !.tabs = {p1, p2}, !.asks = 3, !.ages = 1, !.reloads = 1]

\* The list of two lotes: moves, copies and deletions; with a fault or an expired token.
Ordering == [Base EXCEPT !.menu = {"list"}, !.lotes = 2, !.steps = 3, !.faults = 1]
Expiring == [Base EXCEPT !.menu = {"list"}, !.lotes = 2, !.steps = 2, !.ages = 1]

\* The panel: new lotes with their photos, and new numbers.
Creating == [Base EXCEPT !.menu = {"new"}, !.steps = 3, !.faults = 1]
Editing  == [Base EXCEPT !.menu = {"new", "edit"}, !.steps = 4]
Renewing == [Base EXCEPT !.menu = {"new"}, !.steps = 3, !.ages = 1]

\* A lote less, then one more.
Replacing == [Base EXCEPT !.menu = {"list", "new"}, !.lotes = 2, !.steps = 3]

\* The photos of a lote.
Gallery  == [Base EXCEPT !.menu = {"photos"}, !.steps = 4]
Breaking == [Base EXCEPT !.menu = {"photos"}, !.steps = 3, !.faults = 1]

\* The galleries of two lotes, one after the other.
Galleries == [Base EXCEPT !.menu = {"upload"}, !.lotes = 2, !.steps = 5]

\* The remate starts while its lotes are being prepared.
Freezing == [Base EXCEPT !.menu = {"list", "new", "edit", "photos"}, !.steps = 3, !.freezes = 1]

\* Another tab works on the same catalogue.
Rivalry == [Base EXCEPT !.tabs = {p1, p2}, !.menu = {"list", "new"}, !.lotes = 2, !.steps = 2, !.rivals = 1]

MCPlans == {Returning, Stumbling, TwoTabs, Ordering, Expiring, Freezing, Creating, Editing, Renewing,
            Replacing, Gallery, Galleries, Breaking, Rivalry}
================================================================================
