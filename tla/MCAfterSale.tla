------------------------------ MODULE MCAfterSale ------------------------------
(***************************************************************************)
(* Small instances of AfterSale for TLC.                                   *)
(***************************************************************************)
EXTENDS AfterSale, TLC

CONSTANTS b1, b2, n1, n2

Base == [start |-> (b1 :> "active" @@ b2 :> "none"), sells |-> {b1}, moves |-> {"end"}, targets |-> {},
         replicas |-> {n1}, creates |-> 0, asks |-> 0, faults |-> 0]

\* Two buyers with a guarantee; one replica, and one thing fails.
OneReplica == [Base EXCEPT !.start = (b1 :> "active" @@ b2 :> "active"), !.sells = Buyers, !.faults = 1]

\* Two replicas, with two guarantees or with one and another that comes later.
TwoReplicas == [Base EXCEPT !.start = (b1 :> "active" @@ b2 :> "active"), !.replicas = {n1, n2}]
OneMore     == [Base EXCEPT !.replicas = {n1, n2}, !.creates = 1]

\* The first guarantee, from two tabs.
Retrying(s) == [Base EXCEPT !.sells = {}, !.start = (b1 :> s @@ b2 :> "none"), !.moves = {"late", "hook"},
                            !.creates = 2, !.faults = 1]

\* The scheduler against the end and another guarantee; notifications and payments that
\* run out against the release of two.
Expiring == [Base EXCEPT !.moves = {"end", "clock"}, !.creates = 1]
Lapsing  == [Base EXCEPT !.start = (b1 :> "active" @@ b2 :> "active"), !.moves = {"end", "hook", "lapse"}]

\* The dialog of one buyer.
Dialog == [Base EXCEPT !.sells = {}, !.start = (b1 :> "none" @@ b2 :> "none"), !.moves = {"modal", "late", "hook"},
                       !.creates = 1, !.faults = 1]
DialogAgain == [Dialog EXCEPT !.moves = {"modal"}, !.creates = 2, !.faults = 0]

\* The staff moves a case, alone or together with a colleague, and attaches documents.
Staff == [Base EXCEPT !.start = (b1 :> "none" @@ b2 :> "none"), !.moves = {"desk"},
                      !.targets = {2, 6}, !.asks = 3]
Papers == [Staff EXCEPT !.moves = {"desk", "docs"}, !.targets = {3}, !.asks = 2, !.faults = 1]

MCPlans == {OneReplica, TwoReplicas, OneMore, Retrying("none"), Retrying("failed"), Expiring, Lapsing, Dialog, DialogAgain, Staff, Papers}
==============================================================================
