-------------------------------- MODULE MCSala --------------------------------
(***************************************************************************)
(* Small instances of Sala for TLC.                                        *)
(***************************************************************************)
EXTENDS Sala

CONSTANTS l1, l2

\* Entering while a lote opens and a rival bids.
Entering == [inside |-> {}, moves |-> {"open", "rival"}, ver |-> 3,
             amount |-> 1, tokens |-> 0, faults |-> 0]

\* Entering while a lote opens; one thing fails.
Stumbling == [inside |-> {}, moves |-> {"open"}, ver |-> 2,
              amount |-> 1, tokens |-> 0, faults |-> 1]

\* Watching: the remate and the countdown move, the lote is called off and another
\* opens; one thing fails.
Watching == [inside |-> {l1}, moves |-> {"remate", "open", "cancel", "timer"},
             ver |-> 3, amount |-> 1, tokens |-> 0, faults |-> 1]

\* A lote without a sale comes back for another round.
Returning == [inside |-> {l1}, moves |-> {"open", "unsold", "requeue", "rival"},
              ver |-> 4, amount |-> 1, tokens |-> 0, faults |-> 0]

\* Losing the connection and being refused on the way back.
Rejoining == [inside |-> {l1}, moves |-> {"timer"}, ver |-> 1, amount |-> 1,
              tokens |-> 0, faults |-> 2]

\* From one lote to the next: a bid, its sale, the opening of the other lote.
MovingOn == [inside |-> {l1}, moves |-> {"open", "sold"}, ver |-> 4, amount |-> 1,
             tokens |-> 1, faults |-> 1]

\* Bidding against a rival.
Bidding == [inside |-> {l1}, moves |-> {"rival"}, ver |-> 2, amount |-> 2,
            tokens |-> 2, faults |-> 1]

\* The sale of a lote to whoever leads it.
Selling == [inside |-> {l1}, moves |-> {"rival", "sold"}, ver |-> 2, amount |-> 1,
            tokens |-> 1, faults |-> 0]

MCPlans == {Entering, Stumbling, Watching, Returning, Rejoining, MovingOn, Bidding, Selling}
==============================================================================
