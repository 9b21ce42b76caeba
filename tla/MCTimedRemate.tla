---------------------------- MODULE MCTimedRemate ----------------------------
(***************************************************************************)
(* Small instances of TimedRemate for TLC.                                 *)
(***************************************************************************)
EXTENDS TimedRemate

CONSTANTS l1, l2

With(first, kinds) ==
    [first |-> first, starts |-> 1, window |-> 1, duration |-> 2, offered |-> kinds, last |-> 3]

\* The catalogue and the status of the remate change about its start.
Catalogue == With({l1}, {"create", "delete", "cancel"})
Early     == [With({l1}, {"create", "resume", "pause"}) EXCEPT !.last = 2]

\* Two lotes, whose countdowns are paused, extended or run out.
Pauses  == [With({l1, l2}, {"pause", "resume"}) EXCEPT !.last = 2]
Bids    == [With({l1, l2}, {"bid", "pause"}) EXCEPT !.last = 2]
Hurried == [With({l1}, {"bid", "resume"}) EXCEPT !.starts = 0, !.window = 2, !.duration = 1]

\* A base price is changed about the start, and bids are made at the old one.
Edits   == [With({l1}, {"edit", "bid"}) EXCEPT !.last = 2]

\* The ways in which a remate and a lote end.
Ends    == [With({l1}, {"pause", "cancel", "finish", "cancel_lote"}) EXCEPT !.last = 4]

MCPlans == {Catalogue, Early, Pauses, Bids, Hurried, Edits, Ends}
==============================================================================
