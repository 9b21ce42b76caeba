------------------------------- MODULE LoteBook -------------------------------
(***************************************************************************)
(* What a lote promises to those who bid on it, whatever requests, locks   *)
(* and schedulers do behind: the best offer only rises, by the increment   *)
(* at least, and only while the lote is open; the price of a sale is fixed *)
(* at the instant the lote closes and stays until the lote is opened       *)
(* again; a sale made by the clock is made at the best offer.              *)
(***************************************************************************)
EXTENDS Integers

CONSTANTS Lotes, MinIncrement

VARIABLES
    open,       \* whether each lote takes bids
    best,       \* amount of the offer that leads it, 0 when there is none
    price,      \* price of its sale, 0 when it is not sold
    byClock     \* whether the countdown made the sale

book == <<open, best, price, byClock>>

Init ==
    /\ open    = [l \in Lotes |-> FALSE]
    /\ best    = [l \in Lotes |-> 0]
    /\ price   = [l \in Lotes |-> 0]
    /\ byClock = [l \in Lotes |-> FALSE]

Start(l) ==
    /\ ~open[l]
    /\ open'    = [open EXCEPT ![l] = TRUE]
    /\ price'   = [price EXCEPT ![l] = 0]
    /\ byClock' = [byClock EXCEPT ![l] = FALSE]
    /\ UNCHANGED best

Raise(l) ==
    /\ open[l]
    /\ best' = [best EXCEPT ![l] = best'[l]]
    /\ IF best[l] = 0 THEN best'[l] > 0 ELSE best'[l] >= best[l] + MinIncrement
    /\ UNCHANGED <<open, price, byClock>>

\* The operator declares a price, which need not be the best offer.
SellByHand(l) ==
    /\ open[l]
    /\ open' = [open EXCEPT ![l] = FALSE]
    /\ price' = [price EXCEPT ![l] = price'[l]] /\ price'[l] > 0
    /\ UNCHANGED <<best, byClock>>

SellByClock(l) ==
    /\ open[l] /\ best[l] # 0
    /\ open'    = [open EXCEPT ![l] = FALSE]
    /\ price'   = [price EXCEPT ![l] = best[l]]
    /\ byClock' = [byClock EXCEPT ![l] = TRUE]
    /\ UNCHANGED best

\* Closed without a sale, or cancelled.
Withdraw(l) ==
    /\ open[l]
    /\ open' = [open EXCEPT ![l] = FALSE]
    /\ UNCHANGED <<best, price, byClock>>

Next ==
    \E l \in Lotes : Start(l) \/ Raise(l) \/ SellByHand(l) \/ SellByClock(l) \/ Withdraw(l)

Spec == Init /\ [][Next]_book
==============================================================================
