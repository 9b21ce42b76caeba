------------------------- MODULE RemateLiveRefinement -------------------------
(***************************************************************************)
(* RemateLive implements LoteBook: every commit of a handler or of the     *)
(* scheduler is, for those who bid, one step of the book of one lote, or   *)
(* no step at all.                                                         *)
(***************************************************************************)
EXTENDS RemateLiveProofs

------------------------------------------------------------------------------
(* The book of a lote, one lote at a time.                                  *)

IsOpen(l)  == lote[l].status = "OPEN"
PriceOf(l) == IF Sold(l) THEN lote[l].final ELSE 0
ByClock(l) == Sold(l) /\ winner[l] # NoKey

PriceKept(l) ==
    /\ PriceOf(l)' = PriceOf(l)
    /\ ByClock(l)' <=> ByClock(l)

Kept(l) ==
    /\ IsOpen(l)' <=> IsOpen(l)
    /\ Best(l)' = Best(l)
    /\ PriceKept(l)

OthersKept(l) == \A m \in Lotes \ {l} : Kept(m)

\* A step that keeps the entries of every lote is a stutter of the book.
LEMMA Stutter == ASSUME \A l \in Lotes : Kept(l) PROVE UNCHANGED Book!book
  BY DEF Kept, PriceKept, IsOpen, PriceOf, ByClock, Book!book

\* The entries of one lote that make a step of the book: it starts,
LEMMA Starts ==
    ASSUME NEW l \in Lotes, OthersKept(l), ~IsOpen(l), IsOpen(l)', Best(l)' = Best(l),
           PriceOf(l)' = 0, ~ByClock(l)'
    PROVE  Book!Next
  BY DEF OthersKept, Kept, PriceKept, IsOpen, PriceOf, ByClock, Book!Next, Book!Start

\* its best offer rises,
LEMMA Raises ==
    ASSUME NEW l \in Lotes, OthersKept(l), IsOpen(l), IsOpen(l)', PriceKept(l),
           IF Best(l) = 0 THEN Best(l)' > 0 ELSE Best(l)' >= Best(l) + MinIncrement
    PROVE  Book!Next
  BY DEF OthersKept, Kept, PriceKept, IsOpen, PriceOf, ByClock, Book!Next, Book!Raise

\* it is sold at a declared price,
LEMMA SellsByHand ==
    ASSUME NEW l \in Lotes, OthersKept(l), IsOpen(l), ~IsOpen(l)', Best(l)' = Best(l),
           PriceOf(l)' > 0, ByClock(l)' <=> ByClock(l)
    PROVE  Book!Next
  BY DEF OthersKept, Kept, PriceKept, IsOpen, PriceOf, ByClock, Book!Next, Book!SellByHand

\* it is sold by the clock at its best offer,
LEMMA SellsByClock ==
    ASSUME NEW l \in Lotes, OthersKept(l), IsOpen(l), ~IsOpen(l)', Best(l)' = Best(l),
           Best(l) # 0, PriceOf(l)' = Best(l), ByClock(l)'
    PROVE  Book!Next
  BY DEF OthersKept, Kept, PriceKept, IsOpen, PriceOf, ByClock, Book!Next, Book!SellByClock

\* or it is withdrawn.
LEMMA Withdraws ==
    ASSUME NEW l \in Lotes, OthersKept(l), IsOpen(l), ~IsOpen(l)', Best(l)' = Best(l),
           PriceKept(l)
    PROVE  Book!Next
  BY DEF OthersKept, Kept, PriceKept, IsOpen, PriceOf, ByClock, Book!Next, Book!Withdraw

------------------------------------------------------------------------------
(* Prices are positive: 0 stands for "no offer" and "no sale" in the book.  *)

PricesPositive ==
    /\ \A p \in Procs : req[p].kind \in {"bid", "close_sold"} => req[p].arg > 0
    /\ \A k \in Keys : ofertas[k].status = "ACCEPTED" => ofertas[k].amount > 0

\* A bid and a sale by hand arrive with an amount, which is positive.
LEMMA ArrivalKeepsPositive ==
    ASSUME LockInv, PricesPositive, (\E w \in Workers : Arrive(w)) \/ BeginAutoClose
    PROVE  PricesPositive'
<1>1. ASSUME NEW p \in Procs, NEW r, req' = [req EXCEPT ![p] = r], ofertas' = ofertas,
             r.kind \in {"bid", "close_sold"} => r.arg > 0
      PROVE  PricesPositive'
  <2>1. ASSUME NEW q \in Procs, req'[q].kind \in {"bid", "close_sold"} PROVE req'[q].arg > 0
    <3>1. req'[q] = IF q = p THEN r ELSE req[q]
      BY <1>1 DEF LockInv, TypeOK
    <3> QED  BY <1>1, <2>1, <3>1 DEF PricesPositive
  <2>2. ASSUME NEW k \in Keys, ofertas'[k].status = "ACCEPTED" PROVE ofertas'[k].amount > 0
    BY <1>1, <2>2 DEF PricesPositive
  <2> QED  BY <2>1, <2>2 DEF PricesPositive
<1>2. ASSUME NEW p \in Procs,
             \E r, row, at : /\ Begin(p, r, row, at)
                             /\ r.kind \in {"bid", "close_sold"} => r.arg > 0
      PROVE  PricesPositive'
  <2>1. PICK r, row, at : Begin(p, r, row, at) /\ (r.kind \in {"bid", "close_sold"} => r.arg > 0)
    BY <1>2
  <2>2. req' = [req EXCEPT ![p] = r] /\ ofertas' = ofertas
    BY <2>1 DEF Begin, data
  <2> QED  BY <1>1, <2>1, <2>2
<1>3. ASSUME NEW w \in Workers, Arrive(w) PROVE PricesPositive'
  <2>1. w \in Procs
    BY DEF Procs
  <2>2. CASE BeginBid(w)
    BY <1>2, <2>1, <2>2, DataAssumption DEF BeginBid
  <2>3. CASE BeginLocked(w)
    <3>1. \A l \in Lotes, a \in Amounts : Ask("close_sold", l, a).arg > 0
      BY DataAssumption DEF Ask
    <3>2. \A l \in Lotes, n \in Nat, kind \in {"open", "close_unsold", "cancel_lote", "requeue"} :
            Ask(kind, l, n).kind \notin {"bid", "close_sold"}
      BY DEF Ask
    <3>3. Bases \subseteq Nat /\ 0 \in Nat
      BY DataAssumption
    <3>4. \E r, row, at : /\ Begin(w, r, row, at)
                          /\ r.kind \in {"bid", "close_sold"} => r.arg > 0
      BY <2>3, <3>1, <3>2, <3>3 DEF BeginLocked
    <3> QED  BY <1>2, <2>1, <3>4
  <2>4. CASE BeginOpenNext(w)
    BY <1>2, <2>1, <2>4 DEF BeginOpenNext, Ask
  <2>5. CASE BeginTimer(w)
    BY <1>2, <2>1, <2>5 DEF BeginTimer, Ask, TimerKinds
  <2>6. CASE BeginRemate(w)
    BY <1>2, <2>1, <2>6 DEF BeginRemate, Ask, RemateKinds
  <2>7. CASE FindsVacant(w)
    BY <2>7 DEF FindsVacant, data, PricesPositive
  <2>8. CASE ChooseNext(w)
    BY <1>1, <2>1, <2>8 DEF ChooseNext, Ask, data
  <2> QED  BY <1>3, <2>2, <2>3, <2>4, <2>5, <2>6, <2>7, <2>8 DEF Arrive
<1>4. CASE BeginAutoClose
  BY <1>2, <1>4 DEF BeginAutoClose, Ask, Procs
<1> QED  BY <1>3, <1>4

\* The amount of an accepted oferta is that of its request.
LEMMA ServeKeepsPositive ==
    ASSUME LockInv, PricesPositive, NEW p \in Procs, Serve(p)
    PROVE  PricesPositive'
<1>1. \A q \in Procs : req'[q] = req[q] \/ req'[q] = NoReq
  <2>1. CASE Done(p)
    BY <2>1 DEF Done, LockInv, TypeOK
  <2>2. CASE Acquire(p)
    BY <2>2 DEF Acquire
  <2> QED  BY <2>1, <2>2 DEF Serve, AcceptBid, RejectBid, DuplicateBid, Open, Close, CancelLote,
                            Requeue, AutoClose, AdjustTimer, ChangeRemate, Refuse
<1>2. \A q \in Procs : req'[q].kind \in {"bid", "close_sold"} => req'[q].arg > 0
  BY <1>1 DEF NoReq, PricesPositive
<1>3. ASSUME NEW k \in Keys, ofertas'[k].status = "ACCEPTED" PROVE ofertas'[k].amount > 0
  <2>1. CASE ofertas' = ofertas
    BY <1>3, <2>1 DEF PricesPositive
  <2>2. CASE AcceptBid(p)
    <3>1. CASE k = req[p].key
      BY <2>2, <3>1 DEF AcceptBid, PricesPositive
    <3>2. CASE k # req[p].key /\ k \in seen[p].leaders
      <4>1. ofertas'[k] = [ofertas[k] EXCEPT !.status = "OUTBID"] /\ ofertas[k] \in OfertaRow
        BY <2>2, <3>2 DEF AcceptBid, LockInv, TypeOK
      <4> QED  BY <1>3, <4>1 DEF OfertaRow
    <3>3. CASE k # req[p].key /\ k \notin seen[p].leaders
      BY <1>3, <2>2, <3>3 DEF AcceptBid, PricesPositive
    <3> QED  BY <3>1, <3>2, <3>3
  <2>3. CASE RejectBid(p)
    BY <1>3, <2>3 DEF RejectBid, PricesPositive, LockInv, TypeOK
  <2> QED  BY <2>1, <2>2, <2>3 DEF Serve, Acquire, DuplicateBid, Open, Close, CancelLote,
                                  Requeue, AutoClose, AdjustTimer, ChangeRemate, Refuse, data
<1> QED  BY <1>2, <1>3 DEF PricesPositive

\* The invariant of the prices is inductive.
LEMMA PositiveStep == LockInv /\ PricesPositive /\ [Next]_vars => PricesPositive'
<1> SUFFICES ASSUME LockInv, PricesPositive, [Next]_vars PROVE PricesPositive'
  OBVIOUS
<1>1. CASE Tick \/ Quiet \/ UNCHANGED vars
  BY <1>1 DEF Tick, Quiet, vars, data, PricesPositive
<1> QED  BY <1>1, ArrivalKeepsPositive, ServeKeepsPositive DEF Next

\* At first there is neither a request nor an oferta.
LEMMA PositiveInit == Init => PricesPositive
  BY DEF Init, PricesPositive, NoReq, NoOferta

------------------------------------------------------------------------------
(* The steps of the remate in the book.                                     *)

\* Only an accepted bid moves the best offer of its lote.
LEMMA BestKept ==
    ASSUME LockInv, [Next]_vars, NEW l \in Lotes,
           \A p \in Procs : AcceptBid(p) => req[p].lote # l
    PROVE  Best(l)' = Best(l)
<1>1. Leaders(l)' = Leaders(l) /\ \A k \in Leaders(l) : ofertas'[k] = ofertas[k]
  BY LeadersKept
<1>2. CASE Leaders(l) = {}
  BY <1>1, <1>2 DEF Best
<1>3. CASE Leaders(l) # {}
  <2> DEFINE k == CHOOSE j \in Leaders(l) : TRUE
  <2>1. k \in Leaders(l)
    BY <1>3
  <2>2. Best(l) = ofertas[k].amount
    BY <1>3 DEF Best, LeadingPrice
  <2>3. Best(l)' = ofertas'[k].amount
    BY <1>1, <1>3 DEF Best, LeadingPrice
  <2> QED  BY <1>1, <2>1, <2>2, <2>3
<1> QED  BY <1>2, <1>3

\* The best offer of a lote is the amount of one that leads it, and positive.
LEMMA BestOfLeaders ==
    ASSUME TypeOK, PricesPositive, NEW l \in Lotes
    PROVE  /\ Leaders(l) = {} <=> Best(l) = 0
           /\ Leaders(l) # {} => /\ Best(l) = LeadingPrice(Leaders(l))
                                 /\ \E k \in Leaders(l) : Best(l) = ofertas[k].amount
<1>1. CASE Leaders(l) = {}
  BY <1>1 DEF Best
<1>2. CASE Leaders(l) # {}
  <2> DEFINE k == CHOOSE j \in Leaders(l) : TRUE
  <2>1. k \in Leaders(l) /\ Best(l) = ofertas[k].amount
    BY <1>2 DEF Best, LeadingPrice
  <2>2. ofertas[k].amount > 0 /\ ofertas[k].amount \in Nat
    BY <2>1 DEF Leaders, PricesPositive, TypeOK, OfertaRow
  <2> QED  BY <1>2, <2>1, <2>2 DEF Best
<1> QED  BY <1>1, <1>2

\* A row whose status and price do not change keeps its entry.
LEMMA RowKeptInBook ==
    ASSUME NEW l \in Lotes, RowKept(l), winner'[l] = winner[l]
    PROVE  (IsOpen(l)' <=> IsOpen(l)) /\ PriceKept(l)
  BY DEF RowKept, IsOpen, PriceKept, PriceOf, ByClock, Sold

\* A bid and an operator's timer action keep every row in these columns.
LEMMA BidAndTimerKeepRows ==
    ASSUME LockInv, NEW p \in Procs, AcceptBid(p) \/ AdjustTimer(p), NEW l \in Lotes
    PROVE  RowKept(l) /\ winner'[l] = winner[l]
<1>1. winner' = winner
  BY DEF AcceptBid, AdjustTimer
<1>2. seen[p].row \in LoteRow /\ seen[p].row.status \in LoteStatus
  BY DEF LockInv, TypeOK, Reading, LoteRow
<1>3. ASSUME NEW row, Update(p, row), row.status = seen[p].row.status,
             row.base = seen[p].row.base, row.final = seen[p].row.final
      PROVE  RowKept(l)
  <2>1. CASE l = req[p].lote
    <3>1. lote'[l] = Flush(lote[l], seen[p].row, row, req[p].kind)
      BY <1>3, <2>1 DEF Update, LockInv, TypeOK
    <3> QED  BY <1>3, <3>1, FlushKeeps DEF RowKept
  <2>2. CASE l # req[p].lote
    BY <1>3, <2>2 DEF Update, RowKept, LockInv, TypeOK
  <2> QED  BY <2>1, <2>2
<1>4. CASE AcceptBid(p)
  <2> DEFINE new == [seen[p].row EXCEPT !.ends = seen[p].at + Extension]
  <2>1. /\ new.status = seen[p].row.status /\ new.base = seen[p].row.base
        /\ new.final = seen[p].row.final
    BY <1>2 DEF LoteRow
  <2>2. lote' = lote \/ Update(p, new)
    BY <1>4 DEF AcceptBid
  <2>3. CASE lote' = lote
    BY <1>1, <2>3 DEF RowKept
  <2> QED  BY <1>1, <1>3, <2>1, <2>2, <2>3
<1>5. CASE AdjustTimer(p)
  <2> DEFINE new == Adjusted(req[p].kind, seen[p].row, req[p].arg, seen[p].at)
  <2>1. /\ new.status = seen[p].row.status /\ new.base = seen[p].row.base
        /\ new.final = seen[p].row.final
    BY <1>2, <1>5 DEF Adjusted, AdjustTimer, LoteRow, TimerKinds
  <2>2. Update(p, new)
    BY <1>5 DEF AdjustTimer
  <2> QED  BY <1>1, <1>3, <2>1, <2>2
<1> QED  BY <1>1, <1>4, <1>5

\* An accepted bid raises the best offer, by the increment at least.
LEMMA BidRaises ==
    ASSUME LockInv, PricesPositive, [Next]_vars, NEW p \in Procs, AcceptBid(p)
    PROVE  Book!Next
<1>0. PICK l \in Lotes, key \in Keys : l = req[p].lote /\ key = req[p].key
  BY LockedLote DEF AcceptBid, LockInv
<1>1. /\ pc[p] = "locked" /\ req[p].kind = "bid"
      /\ req[p].arg \in Nat /\ req[p].arg > 0
  BY LockedLote DEF AcceptBid, LockInv, PricesPositive
<1>2. lote[l].status = "OPEN" /\ seen[p].leaders = Leaders(l)
  BY <1>1, <1>0 DEF AcceptBid, BidIsValid, LockInv, LockedReadsAreCurrent
<1>3. ASSUME NEW q \in Procs, AcceptBid(q) PROVE q = p
  <2>1. Done(p) /\ Done(q) /\ pc[p] = "locked" /\ pc[q] = "locked"
    BY <1>3 DEF AcceptBid
  <2> QED  BY <2>1 DEF Done, LockInv, TypeOK
<1>4. ASSUME NEW m \in Lotes \ {l} PROVE Kept(m)
  <2>1. Best(m)' = Best(m)
    BY <1>0, <1>3, <1>4, BestKept
  <2> QED  BY <2>1, <1>4, BidAndTimerKeepRows, RowKeptInBook DEF Kept
<1>5. IsOpen(l) /\ IsOpen(l)' /\ PriceKept(l)
  BY <1>1, <1>2, BidAndTimerKeepRows, RowKeptInBook DEF IsOpen
<1>6. Best(l)' = req[p].arg
  <2>1. ofertas'[key] = [status |-> "ACCEPTED", lote |-> l, amount |-> req[p].arg]
    BY <1>0 DEF AcceptBid
  <2>2. Leaders(l)' = {key}
    BY <1>0, <2>1, AcceptedLeadsAlone DEF Leaders
  <2>3. (CHOOSE k \in {key} : TRUE) = key
    OBVIOUS
  <2> QED  BY <2>1, <2>2, <2>3 DEF Best, LeadingPrice
<1>7. IF Best(l) = 0 THEN Best(l)' > 0 ELSE Best(l)' >= Best(l) + MinIncrement
  <2>1. CASE Best(l) = 0
    BY <1>1, <1>6, <2>1
  <2>2. CASE Best(l) # 0
    <3>1. PICK k \in Leaders(l) : Best(l) = ofertas[k].amount
      BY <1>1, <2>2, BestOfLeaders DEF LockInv
    <3>2. req[p].arg >= ofertas[k].amount + MinIncrement
      BY <1>2, <3>1 DEF AcceptBid, BidIsValid
    <3> QED  BY <1>6, <2>2, <3>1, <3>2
  <2> QED  BY <2>1, <2>2
<1>8. OthersKept(l)
  BY <1>4 DEF OthersKept
<1> QED  BY <1>1, <1>5, <1>7, <1>8, Raises

\* Opening starts the lote; an open_next that lost its race to another opening of the
\* same lote changes nothing of the book.
LEMMA OpeningStarts ==
    ASSUME LockInv, [Next]_vars, NEW p \in Procs, Open(p)
    PROVE  Book!Next \/ UNCHANGED Book!book
<1> DEFINE new == Opened(seen[p].row, seen[p].at)
<1>1. seen[p].row \in LoteRow /\ Update(p, new) /\ winner' = winner
  BY DEF Open, LockInv, TypeOK, Reading
<1>2. /\ new.status = "OPEN" /\ new.base = seen[p].row.base /\ new.final = seen[p].row.final
  BY <1>1 DEF Opened, LoteRow
<1>3. \A l \in Lotes : Best(l)' = Best(l)
  <2>1. \A q \in Procs : ~AcceptBid(q)
    <3> SUFFICES ASSUME NEW q \in Procs, AcceptBid(q) PROVE FALSE
      OBVIOUS
    <3>1. Done(p) /\ Done(q) /\ pc[q] = "locked" /\ req[q].kind = "bid" /\ pc[p] # "idle"
      BY DEF Open, CanOpen, AcceptBid
    <3>2. p = q
      BY <3>1 DEF Done, LockInv, TypeOK
    <3> QED  BY <3>1, <3>2 DEF Open, CanOpen
  <2> QED  BY <2>1, BestKept
<1>4. ASSUME NEW m \in Lotes, m # req[p].lote PROVE Kept(m)
  <2>1. RowKept(m)
    BY <1>1, <1>4 DEF Update, RowKept, LockInv, TypeOK
  <2> QED  BY <1>1, <1>3, <2>1, RowKeptInBook DEF Kept
<1>5. CASE req[p].lote \in Lotes
  <2>1. PICK l \in Lotes : l = req[p].lote
    BY <1>5
  <2>2. lote'[l] = Flush(lote[l], seen[p].row, new, req[p].kind)
    BY <1>1, <2>1 DEF Update, LockInv, TypeOK
  <2>3. lote'[l].final = lote[l].final /\ lote'[l].base = lote[l].base
        /\ lote'[l].status \in {"OPEN", lote[l].status}
    BY <1>2, <2>2, FlushKeeps
  <2>4. CASE lote'[l].status = lote[l].status
    <3>1. RowKept(l)
      BY <2>3, <2>4 DEF RowKept
    <3>2. Kept(l)
      BY <1>1, <1>3, <3>1, RowKeptInBook DEF Kept
    <3> QED  BY <1>4, <2>1, <3>2, Stutter
  <2>5. CASE lote'[l].status # lote[l].status
    <3>1. OthersKept(l)
      BY <1>4, <2>1 DEF OthersKept
    <3>2. ~IsOpen(l) /\ IsOpen(l)' /\ PriceOf(l)' = 0 /\ ~ByClock(l)'
      BY <2>3, <2>5 DEF IsOpen, PriceOf, ByClock, Sold
    <3> QED  BY <1>3, <3>1, <3>2, Starts
  <2> QED  BY <2>4, <2>5
<1>6. CASE req[p].lote \notin Lotes
  BY <1>4, <1>6, Stutter
<1> QED  BY <1>5, <1>6

\* What a close, a cancellation and a requeue do to the book, but for the price of a sale.
LEMMA LockedMoveInBook ==
    ASSUME LockInv, [Next]_vars, NEW p \in Procs,
           Close(p) \/ CancelLote(p) \/ Requeue(p) \/ AutoClose(p)
    PROVE  \E l \in Lotes :
              /\ l = req[p].lote /\ OthersKept(l) /\ Best(l)' = Best(l)
              /\ lote[l] \in LoteRow /\ seen[p].row = lote[l]
              /\ <<lote[l].status, lote'[l].status>> \in LoteMoves
              /\ \A n \in LoteRow : Update(p, n) => lote'[l] = n
<1>1. PICK l \in Lotes, new \in LoteRow :
        /\ l = req[p].lote /\ lote' = [lote EXCEPT ![l] = new]
        /\ <<lote[l].status, new.status>> \in LoteMoves
  BY LockedMove
<1>2. pc[p] = "locked" /\ req[p].kind # "bid" /\ Done(p)
  BY DEF Close, CancelLote, Requeue, AutoClose, CanCloseByHand, CanCancelLote, CanRequeue,
         CanAutoClose
<1>3. \A m \in Lotes : Best(m)' = Best(m)
  <2>1. \A q \in Procs : ~AcceptBid(q)
    <3> SUFFICES ASSUME NEW q \in Procs, AcceptBid(q) PROVE FALSE
      OBVIOUS
    <3>1. Done(q) /\ pc[q] = "locked" /\ req[q].kind = "bid"
      BY DEF AcceptBid
    <3>2. p = q
      BY <1>2, <3>1 DEF Done, LockInv, TypeOK
    <3> QED  BY <1>2, <3>1, <3>2
  <2> QED  BY <2>1, BestKept
<1>4. winner' = winner \/ \E w : winner' = [winner EXCEPT ![l] = w]
  BY <1>1 DEF Close, CancelLote, Requeue, AutoClose
<1>5. ASSUME NEW m \in Lotes \ {l} PROVE Kept(m)
  <2>1. RowKept(m) /\ winner'[m] = winner[m]
    BY <1>1, <1>4, <1>5 DEF RowKept, LockInv, TypeOK
  <2> QED  BY <1>3, <2>1, RowKeptInBook DEF Kept
<1>6. lote'[l] = new
  BY <1>1 DEF LockInv, TypeOK
<1>7. seen[p].row = lote[l]
  BY <1>1, <1>2 DEF LockInv, LockedReadsAreCurrent
<1>8. ASSUME NEW n \in LoteRow, Update(p, n) PROVE lote'[l] = n
  <2>1. lote' = [lote EXCEPT ![l] = n]
    BY <1>1, <1>2, <1>8, LockedUpdate
  <2> QED  BY <2>1 DEF LockInv, TypeOK
<1>9. lote[l] \in LoteRow
  BY DEF LockInv, TypeOK
<1> QED  BY <1>1, <1>3, <1>5, <1>6, <1>7, <1>8, <1>9 DEF OthersKept

\* A lote that is not sold, neither before nor after, keeps its entry but for being open.
LEMMA UnsoldInBook ==
    ASSUME NEW l \in Lotes, OthersKept(l), Best(l)' = Best(l), ~Sold(l), ~Sold(l)', ~IsOpen(l)'
    PROVE  Book!Next \/ UNCHANGED Book!book
<1>1. PriceKept(l)
  BY DEF PriceKept, PriceOf, ByClock
<1>2. CASE IsOpen(l)
  BY <1>1, <1>2, Withdraws
<1>3. CASE ~IsOpen(l)
  BY <1>1, <1>3, Stutter DEF Kept, OthersKept
<1> QED  BY <1>2, <1>3

\* A cancellation withdraws the lote if it is open, and a requeue is not in the book.
LEMMA CancelAndRequeueInBook ==
    ASSUME LockInv, [Next]_vars, NEW p \in Procs, CancelLote(p) \/ Requeue(p)
    PROVE  Book!Next \/ UNCHANGED Book!book
<1>1. PICK l \in Lotes :
        /\ l = req[p].lote /\ OthersKept(l) /\ Best(l)' = Best(l)
        /\ lote[l] \in LoteRow /\ seen[p].row = lote[l]
        /\ <<lote[l].status, lote'[l].status>> \in LoteMoves
        /\ \A n \in LoteRow : Update(p, n) => lote'[l] = n
  BY LockedMoveInBook
<1>2. req[p].arg \in Nat /\ seen[p].order \in Nat
  BY LockedLote DEF LockInv, TypeOK, Reading, CancelLote, CanCancelLote, Requeue, CanRequeue
<1>3. lote'[l].status \in {"CANCELLED", "PENDING"}
  <2>1. CASE CancelLote(p)
    <3> DEFINE n == [lote[l] EXCEPT !.status = "CANCELLED"]
    <3>1. n \in LoteRow /\ n.status = "CANCELLED" /\ Update(p, n)
      BY <1>1, <2>1 DEF CancelLote, LoteRow, LoteStatus
    <3> QED  BY <1>1, <3>1
  <2>2. CASE Requeue(p)
    <3> DEFINE n == [lote[l] EXCEPT !.status = "PENDING", !.base = req[p].arg, !.final = NULL,
                                    !.order = seen[p].order, !.round = lote[l].round + 1]
    <3>1. lote[l].round + 1 \in Nat
      BY <1>1 DEF LoteRow
    <3>2. n \in LoteRow /\ n.status = "PENDING"
      BY <1>1, <1>2, <3>1 DEF LoteRow, LoteStatus, Nullable
    <3>3. Update(p, n)
      BY <1>1, <2>2 DEF Requeue
    <3> QED  BY <1>1, <3>2, <3>3
  <2> QED  BY <2>1, <2>2
<1>4. lote[l].status # "CLOSED_SOLD"
  BY <1>1 DEF LoteMoves
<1> QED  BY <1>1, <1>3, <1>4, UnsoldInBook DEF Sold, IsOpen

\* The operator's close sells the lote at the price declared, or withdraws it.
LEMMA CloseInBook ==
    ASSUME LockInv, PricesPositive, [Next]_vars, NEW p \in Procs, Close(p)
    PROVE  Book!Next \/ UNCHANGED Book!book
<1>1. PICK l \in Lotes :
        /\ l = req[p].lote /\ OthersKept(l) /\ Best(l)' = Best(l)
        /\ lote[l] \in LoteRow /\ seen[p].row = lote[l]
        /\ <<lote[l].status, lote'[l].status>> \in LoteMoves
        /\ \A n \in LoteRow : Update(p, n) => lote'[l] = n
  BY LockedMoveInBook
<1> DEFINE t == CloseTarget(req[p].kind)
           n == IF req[p].kind = "close_sold" THEN req[p].arg ELSE NULL
<1>2. /\ req[p].arg \in Nat /\ req[p].kind \in {"close_sold", "close_unsold"}
      /\ t \in LoteStatus /\ n \in Nullable /\ Update(p, Closed(lote[l], t, n))
      /\ winner'[l] = NoKey
  BY <1>1, LockedLote DEF Close, CanCloseByHand, CloseTarget, LoteStatus, Nullable, LockInv, TypeOK
<1>3. lote'[l].status = t /\ lote'[l].final = n
  <2>1. /\ Closed(lote[l], t, n) \in LoteRow
        /\ Closed(lote[l], t, n).status = t /\ Closed(lote[l], t, n).final = n
    BY ZenonT(60), <1>1, <1>2, RowTypes DEF Closed, LoteRow
  <2> QED  BY <1>1, <1>2, <2>1
<1>4. CASE req[p].kind = "close_sold"
  <2>1. t = "CLOSED_SOLD" /\ n = req[p].arg /\ n > 0
    BY <1>4 DEF CloseTarget, PricesPositive
  <2>2. lote[l].status = "OPEN"
    BY <1>1, <1>3, <2>1 DEF LoteMoves
  <2>3. IsOpen(l) /\ ~IsOpen(l)' /\ PriceOf(l)' > 0 /\ ~ByClock(l) /\ ~ByClock(l)'
    BY <1>2, <1>3, <2>1, <2>2 DEF IsOpen, PriceOf, ByClock, Sold
  <2> QED  BY <1>1, <2>3, SellsByHand
<1>5. CASE req[p].kind = "close_unsold"
  <2>1. t = "CLOSED_UNSOLD"
    BY <1>5 DEF CloseTarget
  <2>2. lote[l].status = "OPEN"
    BY <1>1, <1>3, <2>1 DEF LoteMoves
  <2> QED  BY <1>1, <1>3, <2>1, <2>2, UnsoldInBook DEF Sold, IsOpen
<1> QED  BY <1>2, <1>4, <1>5

\* The clock sells the lote at its best offer, or withdraws it when it has none.
LEMMA AutoCloseInBook ==
    ASSUME LockInv, PricesPositive, [Next]_vars, NEW p \in Procs, AutoClose(p)
    PROVE  Book!Next \/ UNCHANGED Book!book
<1>1. PICK l \in Lotes :
        /\ l = req[p].lote /\ OthersKept(l) /\ Best(l)' = Best(l)
        /\ lote[l] \in LoteRow /\ seen[p].row = lote[l]
        /\ <<lote[l].status, lote'[l].status>> \in LoteMoves
        /\ \A n \in LoteRow : Update(p, n) => lote'[l] = n
  BY LockedMoveInBook
<1>2. seen[p].leaders = Leaders(l) /\ Leaders(l) \in SUBSET Keys
  BY <1>1 DEF AutoClose, CanAutoClose, LockInv, LockedReadsAreCurrent, Leaders
<1> DEFINE t == AutoTarget(Leaders(l))
           n == LeadingPrice(Leaders(l))
           w == CHOOSE k \in Leaders(l) : TRUE
<1>3. /\ t \in LoteStatus /\ n \in Nullable /\ Update(p, Closed(lote[l], t, n))
      /\ winner'[l] = IF Leaders(l) = {} THEN NoKey ELSE w
  BY <1>1, <1>2, LeadingPriceType DEF AutoClose, AutoTarget, LoteStatus, LockInv, TypeOK
<1>4. lote'[l].status = t /\ lote'[l].final = n
  <2>1. /\ Closed(lote[l], t, n) \in LoteRow
        /\ Closed(lote[l], t, n).status = t /\ Closed(lote[l], t, n).final = n
    BY <1>1, <1>3, RowTypes DEF Closed, LoteRow
  <2> QED  BY <1>1, <1>3, <2>1
<1>5. CASE Leaders(l) # {}
  <2>1. t = "CLOSED_SOLD" /\ n = Best(l) /\ Best(l) # 0
    BY <1>5, BestOfLeaders DEF AutoTarget, LockInv
  <2>2. lote[l].status = "OPEN"
    BY <1>1, <1>4, <2>1 DEF LoteMoves
  <2>3. winner'[l] # NoKey
    BY <1>2, <1>3, <1>5, ProcsAssumption
  <2>4. IsOpen(l) /\ ~IsOpen(l)' /\ PriceOf(l)' = Best(l) /\ ByClock(l)'
    BY <1>4, <2>1, <2>2, <2>3 DEF IsOpen, PriceOf, ByClock, Sold
  <2> QED  BY <1>1, <2>1, <2>4, SellsByClock
<1>6. CASE Leaders(l) = {}
  <2>1. t = "CLOSED_UNSOLD"
    BY <1>6 DEF AutoTarget
  <2>2. lote[l].status = "OPEN"
    BY <1>1, <1>4, <2>1 DEF LoteMoves
  <2> QED  BY <1>1, <1>4, <2>1, <2>2, UnsoldInBook DEF Sold, IsOpen
<1> QED  BY <1>5, <1>6

\* The other steps write no column of a lote and no accepted oferta.
LEMMA OtherStepsStutter ==
    ASSUME LockInv, [Next]_vars,
           \A p \in Procs : ~(\/ AcceptBid(p) \/ Open(p) \/ Close(p) \/ CancelLote(p)
                              \/ Requeue(p) \/ AutoClose(p))
    PROVE  UNCHANGED Book!book
<1>1. \A l \in Lotes : Best(l)' = Best(l)
  BY BestKept
<1>2. (lote' = lote /\ winner' = winner) \/ \E p \in Procs : AdjustTimer(p)
  <2>1. CASE (\E w \in Workers : Arrive(w)) \/ BeginAutoClose
    BY <2>1, ArrivalBegins DEF Begin, FindsVacant, ChooseNext, data
  <2>2. CASE \E p \in Procs : Serve(p)
    BY <2>2 DEF Serve, Acquire, RejectBid, DuplicateBid, ChangeRemate, Refuse, data
  <2>3. CASE Tick \/ Quiet \/ UNCHANGED vars
    BY <2>3 DEF Tick, Quiet, vars, data
  <2> QED  BY <2>1, <2>2, <2>3 DEF Next
<1>3. ASSUME NEW l \in Lotes PROVE RowKept(l) /\ winner'[l] = winner[l]
  <2>1. CASE lote' = lote /\ winner' = winner
    BY <2>1 DEF RowKept
  <2>2. CASE \E p \in Procs : AdjustTimer(p)
    BY <2>2, BidAndTimerKeepRows
  <2> QED  BY <1>2, <2>1, <2>2
<1> QED  BY <1>1, <1>3, RowKeptInBook, Stutter DEF Kept

\* Each lote of the remate keeps the promise of LoteBook, for any number of lotes,
\* buyers, tokens and handlers: the best offer only rises, and only while the lote is
\* open; a sale has the price it was made at; the clock sells at the best offer.
THEOREM BookIsKept == Spec => KeepsItsBook
<1> DEFINE Inv == LockInv /\ PricesPositive
<1>1. Init => Inv
  BY LockInvInit, PositiveInit
<1>2. Inv /\ [Next]_vars => Inv'
  BY LockInvStep, PositiveStep
<1>3. Init => Book!Init
  <2> SUFFICES ASSUME Init PROVE Book!Init
    OBVIOUS
  <2>1. ASSUME NEW l \in Lotes PROVE lote[l].status = "PENDING" /\ Best(l) = 0
    <3>1. lote[l].status = "PENDING"
      BY DEF Init, NewLote
    <3>2. Leaders(l) = {}
      BY DEF Init, Leaders, NoOferta
    <3> QED  BY <3>1, <3>2 DEF Best
  <2> QED  BY <2>1 DEF Book!Init, Sold
<1>4. Inv /\ [Next]_vars => [Book!Next]_(Book!book)
  <2> SUFFICES ASSUME LockInv, PricesPositive, [Next]_vars
               PROVE  Book!Next \/ UNCHANGED Book!book
    OBVIOUS
  <2>1. ASSUME NEW p \in Procs, AcceptBid(p) PROVE Book!Next
    BY <2>1, BidRaises
  <2>2. ASSUME NEW p \in Procs, Open(p) PROVE Book!Next \/ UNCHANGED Book!book
    BY <2>2, OpeningStarts
  <2>3. ASSUME NEW p \in Procs, Close(p) PROVE Book!Next \/ UNCHANGED Book!book
    BY <2>3, CloseInBook
  <2>4. ASSUME NEW p \in Procs, CancelLote(p) \/ Requeue(p)
        PROVE  Book!Next \/ UNCHANGED Book!book
    BY <2>4, CancelAndRequeueInBook
  <2>5. ASSUME NEW p \in Procs, AutoClose(p) PROVE Book!Next \/ UNCHANGED Book!book
    BY <2>5, AutoCloseInBook
  <2> QED  BY <2>1, <2>2, <2>3, <2>4, <2>5, OtherStepsStutter
<1> QED  BY <1>1, <1>2, <1>3, <1>4, PTL DEF Spec, KeepsItsBook, Book!Spec

==============================================================================
