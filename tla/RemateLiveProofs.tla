--------------------------- MODULE RemateLiveProofs ---------------------------
(***************************************************************************)
(* Theorems about RemateLive for every remate: any lotes, buyers, tokens,  *)
(* workers, amounts and timer settings, and no bound on the clock or on    *)
(* the rounds other than the constants MaxTime and MaxRound.               *)
(***************************************************************************)
EXTENDS RemateLive, TLAPS

------------------------------------------------------------------------------
(* Rows.                                                                    *)

\* The first readings and the empty request have their types.
LEMMA ConstantTypes ==
    /\ NewLote \in LoteRow
    /\ NoOferta \in OfertaRow
    /\ NoReq \in Request
    /\ NoSeen \in Reading
<1>1. NewLote \in LoteRow
  BY DataAssumption DEF NewLote, LoteRow, LoteStatus, Nullable, NULL
<1>2. NoOferta \in OfertaRow
  BY DEF NoOferta, OfertaRow
<1>3. NoReq \in Request
  BY DEF NoReq, Request
<1>4. NoSeen \in Reading
  BY <1>1, DataAssumption DEF NoSeen, Reading
<1> QED  BY <1>1, <1>2, <1>3, <1>4

\* UPDATE of a row by the transaction that holds it: the ORM writes the columns it
\* has changed over the row it has read, and the result is the row in memory.
LEMMA FlushCurrent ==
    ASSUME NEW row \in LoteRow, NEW new \in LoteRow, NEW kind
    PROVE  Flush(row, row, new, kind) = new
  BY DEF Flush, Column, LoteRow

\* UPDATE of a row that may have changed since it was read is a row all the same.
LEMMA FlushType ==
    ASSUME NEW current \in LoteRow, NEW loaded \in LoteRow, NEW new \in LoteRow, NEW kind
    PROVE  Flush(current, loaded, new, kind) \in LoteRow
<1>1. /\ Column(loaded.status, new.status, current.status) \in LoteStatus
      /\ Column(loaded.base, new.base, current.base) \in Nat
      /\ Column(loaded.final, new.final, current.final) \in Nullable
      /\ Column(loaded.round, new.round, current.round) \in Nat
      /\ Column(loaded.order, new.order, current.order) \in Nat
      /\ Column(loaded.ends, new.ends, current.ends) \in Nullable
      /\ Column(loaded.paused, new.paused, current.paused) \in Nullable
      /\ Column(loaded.auto, new.auto, current.auto) \in BOOLEAN
  BY DEF Column, LoteRow
<1> QED  BY <1>1 DEF Flush, LoteRow

\* The price at which the clock closes a lote.
LEMMA LeadingPriceType ==
    ASSUME TypeOK, NEW leaders \in SUBSET Keys
    PROVE  /\ LeadingPrice(leaders) \in Nullable
           /\ leaders # {} => (CHOOSE k \in leaders : TRUE) \in leaders
<1>1. ASSUME leaders # {} PROVE (CHOOSE k \in leaders : TRUE) \in leaders
  BY <1>1
<1>2. CASE leaders = {}
  BY <1>2 DEF LeadingPrice, Nullable
<1>3. CASE leaders # {}
  <2> DEFINE k == CHOOSE j \in leaders : TRUE
  <2>1. k \in Keys
    BY <1>1, <1>3
  <2>2. ofertas[k].amount \in Nat
    BY <2>1 DEF TypeOK, OfertaRow
  <2> QED  BY <1>1, <1>3, <2>2 DEF LeadingPrice, Nullable
<1> QED  BY <1>2, <1>3

\* The rows that the handlers leave in memory.
LEMMA RowTypes ==
    ASSUME NEW row \in LoteRow, NEW at \in Nat
    PROVE  /\ Opened(row, at) \in LoteRow
           /\ \A t \in LoteStatus, n \in Nullable : Closed(row, t, n) \in LoteRow
           /\ \A kind \in TimerKinds, n \in Nat : Adjusted(kind, row, n, at) \in LoteRow
<1> USE DEF NULL, Nullable
<1>a. /\ row = [status |-> row.status, base |-> row.base, final |-> row.final,
                round |-> row.round, order |-> row.order, ends |-> row.ends,
                paused |-> row.paused, auto |-> row.auto]
      /\ row.status \in LoteStatus /\ row.auto \in BOOLEAN
      /\ row.base \in Nat /\ row.round \in Nat /\ row.order \in Nat
      /\ row.final \in Nullable /\ row.ends \in Nullable /\ row.paused \in Nullable
  BY DEF LoteRow
<1>b. LoteTimer \in Nat /\ at + LoteTimer \in Nat
  BY DataAssumption
<1>1. Opened(row, at) \in LoteRow
  <2>1. CASE LoteTimer = 0
    BY <2>1 DEF Opened, LoteRow, LoteStatus
  <2>2. CASE LoteTimer # 0
    <3>1. Opened(row, at) = [status |-> "OPEN", base |-> row.base, final |-> row.final,
                round |-> row.round, order |-> row.order, ends |-> at + LoteTimer,
                paused |-> NULL, auto |-> TRUE]
      BY <2>2, <1>a DEF Opened
    <3> QED  BY <3>1, <1>a, <1>b DEF LoteRow, LoteStatus
  <2> QED  BY <2>1, <2>2
<1>2. ASSUME NEW t \in LoteStatus, NEW n \in Nullable PROVE Closed(row, t, n) \in LoteRow
  BY <1>2 DEF Closed, LoteRow, LoteStatus, Nullable, NULL
<1>3. ASSUME NEW kind \in TimerKinds, NEW n \in Nat
      PROVE  Adjusted(kind, row, n, at) \in LoteRow
  <2>1. CASE kind = "timer_pause"
    <3>1. row.ends \in Int
      BY <1>a
    <3>2. Max0(row.ends - at) \in Nat
      BY <3>1 DEF Max0
    <3>3. Adjusted(kind, row, n, at) = [row EXCEPT !.paused = Max0(row.ends - at), !.ends = NULL]
      BY <2>1 DEF Adjusted
    <3> QED  BY <3>2, <3>3 DEF LoteRow
  <2>2. CASE kind = "timer_resume"
    <3>1. at + row.paused \in Nat \/ at + row.paused = -1
      <4>1. row.paused \in Nat \/ row.paused = -1
        BY <1>a
      <4> QED  BY <4>1
    <3>2. Adjusted(kind, row, n, at) = [row EXCEPT !.ends = at + row.paused, !.paused = NULL]
      BY <2>2 DEF Adjusted
    <3> QED  BY <3>1, <3>2 DEF LoteRow
  <2>3. CASE kind = "timer_reset"
    <3>1. Adjusted(kind, row, n, at) = [row EXCEPT !.ends = at + LoteTimer, !.paused = NULL]
      BY <2>3 DEF Adjusted
    <3> QED  BY <3>1, <1>b DEF LoteRow
  <2>4. CASE kind = "timer_set"
    <3>1. at + n \in Nat
      OBVIOUS
    <3>2. \/ Adjusted(kind, row, n, at) = [row EXCEPT !.ends = at + n]
          \/ Adjusted(kind, row, n, at) = [row EXCEPT !.paused = n]
      BY <2>4 DEF Adjusted
    <3> QED  BY <3>1, <3>2 DEF LoteRow
  <2>5. CASE kind = "timer_auto"
    BY <2>5 DEF Adjusted, LoteRow, Nullable, NULL
  <2> QED  BY <1>3, <2>1, <2>2, <2>3, <2>4, <2>5 DEF TimerKinds
<1> QED  BY <1>1, <1>2, <1>3

------------------------------------------------------------------------------
(* Types.                                                                   *)

\* A transaction that begins is well typed.
LEMMA BeginType ==
    ASSUME TypeOK, NEW p \in Procs, NEW r \in Request, NEW row \in LoteRow, NEW at \in Nat,
           Begin(p, r, row, at)
    PROVE  TypeOK'
<1>1. [NoSeen EXCEPT !.remate = remate, !.row = row, !.at = at] \in Reading
  BY ConstantTypes DEF TypeOK, Reading
<1> QED  BY <1>1 DEF TypeOK, Begin, data

\* A transaction that ends leaves the processes and the locks well typed.
LEMMA DoneType ==
    ASSUME TypeOK, NEW p \in Procs, Done(p)
    PROVE  /\ lock' \in [Lotes -> Procs \cup {NoProc}]
           /\ pc' \in [Procs -> {"idle", "asked", "vacant", "read", "locked"}]
           /\ req' \in [Procs -> Request]
           /\ seen' \in [Procs -> Reading]
  BY ConstantTypes DEF TypeOK, Done

\* An UPDATE leaves the rows well typed.
LEMMA UpdateType ==
    ASSUME TypeOK, NEW p \in Procs, NEW new \in LoteRow, Update(p, new)
    PROVE  lote' \in [Lotes -> LoteRow]
<1> DEFINE l == req[p].lote
<1>1. seen[p].row \in LoteRow
  BY DEF TypeOK, Reading
<1>2. CASE l \in Lotes
  <2>1. Flush(lote[l], seen[p].row, new, req[p].kind) \in LoteRow
    BY <1>1, <1>2, FlushType DEF TypeOK
  <2> QED  BY <2>1, <1>2 DEF Update, TypeOK
<1>3. CASE l \notin Lotes
  BY <1>3 DEF Update, TypeOK
<1> QED  BY <1>2, <1>3

\* Every request of a worker or of the scheduler is one.
LEMMA ArrivalType ==
    ASSUME TypeOK, (\E w \in Workers : Arrive(w)) \/ BeginAutoClose
    PROVE  TypeOK'
<1>1. /\ \A l \in Lotes, kind \in Kinds \ {"bid"}, n \in Nat : Ask(kind, l, n) \in Request
      /\ \A kind \in RemateKinds : Ask(kind, NoLote, 0) \in Request
  BY DEF Ask, Request, Kinds, RemateKinds
<1>2. NewLote \in LoteRow
  BY ConstantTypes
<1>3. ASSUME NEW w \in Workers, BeginBid(w) PROVE TypeOK'
  <2>1. PICK l \in Lotes, k \in Keys, a \in Amounts :
            Begin(w, [kind |-> "bid", lote |-> l, key |-> k, arg |-> a], NewLote, 0)
    BY <1>3 DEF BeginBid
  <2>2. [kind |-> "bid", lote |-> l, key |-> k, arg |-> a] \in Request
    BY DataAssumption DEF Request, Kinds, LockedKinds
  <2> QED  BY <2>1, <2>2, <1>2, BeginType DEF Procs
<1>4. ASSUME NEW w \in Workers, BeginLocked(w) PROVE TypeOK'
  <2>1. PICK l \in Lotes, kind \in Kinds \ {"bid"}, n \in Nat : Begin(w, Ask(kind, l, n), NewLote, 0)
    BY <1>4, DataAssumption DEF BeginLocked, Kinds, LockedKinds
  <2> QED  BY <2>1, <1>1, <1>2, BeginType DEF Procs
<1>5. ASSUME NEW w \in Workers, BeginOpenNext(w) PROVE TypeOK'
  <2>1. Ask("open_next", NoLote, 0) \in Request
    BY DEF Ask, Request, Kinds
  <2> QED  BY <1>5, <2>1, <1>2, BeginType DEF BeginOpenNext, Procs
<1>6. ASSUME NEW w \in Workers, BeginTimer(w) PROVE TypeOK'
  <2>1. PICK l \in Lotes, kind \in TimerKinds, n \in Nat : Begin(w, Ask(kind, l, n), lote[l], now)
    BY <1>6, DataAssumption DEF BeginTimer
  <2>2. Ask(kind, l, n) \in Request
    BY <1>1 DEF Kinds, TimerKinds
  <2> QED  BY <2>1, <2>2, BeginType DEF Procs, TypeOK
<1>7. ASSUME NEW w \in Workers, BeginRemate(w) PROVE TypeOK'
  <2>1. PICK kind \in RemateKinds : Begin(w, Ask(kind, NoLote, 0), NewLote, 0)
    BY <1>7 DEF BeginRemate
  <2>2. Ask(kind, NoLote, 0) \in Request
    BY <1>1 DEF Kinds
  <2> QED  BY <2>1, <2>2, <1>2, BeginType DEF Procs
<1>8. ASSUME BeginAutoClose PROVE TypeOK'
  <2>1. PICK l \in Lotes : Begin(Scheduler, Ask("auto_close", l, 0), NewLote, 0)
    BY <1>8 DEF BeginAutoClose
  <2>2. Ask("auto_close", l, 0) \in Request
    BY <1>1 DEF Kinds
  <2> QED  BY <2>1, <2>2, <1>2, BeginType DEF Procs
<1>9. ASSUME NEW w \in Workers, FindsVacant(w) PROVE TypeOK'
  BY <1>9 DEF FindsVacant, TypeOK, data
<1>10. ASSUME NEW w \in Workers, ChooseNext(w) PROVE TypeOK'
  <2>1. PICK l \in Lotes :
          /\ pc' = [pc EXCEPT ![w] = "read"]
          /\ req' = [req EXCEPT ![w] = Ask("open_next", l, 0)]
          /\ seen' = [seen EXCEPT ![w] = [@ EXCEPT !.row = lote[l], !.at = now]]
          /\ UNCHANGED <<now, lock, data>>
    BY <1>10 DEF ChooseNext
  <2>2. Ask("open_next", l, 0) \in Request
    BY <1>1 DEF Kinds
  <2>3. [seen[w] EXCEPT !.row = lote[l], !.at = now] \in Reading
    BY DEF TypeOK, Reading, Procs
  <2> QED  BY <2>1, <2>2, <2>3 DEF TypeOK, data
<1> QED  BY <1>3, <1>4, <1>5, <1>6, <1>7, <1>8, <1>9, <1>10 DEF Arrive

\* Every step of a handler keeps the types.
LEMMA ServeType ==
    ASSUME TypeOK, NEW p \in Procs, Serve(p)
    PROVE  TypeOK'
<1> DEFINE r == req[p]
           s == seen[p]
<1>1. /\ r \in Request /\ s \in Reading /\ s.row \in LoteRow /\ s.at \in Nat
      /\ r.arg \in Nat /\ s.leaders \in SUBSET Keys
  BY DEF TypeOK, Request, Reading
<1>2. ASSUME Acquire(p) PROVE TypeOK'
  <2>1. r.lote \in Lotes /\ lote[r.lote] \in LoteRow
    BY <1>1, <1>2 DEF Acquire, TypeOK, Request, LockedKinds, RemateKinds
  <2>2. PICK n \in {m.order + 1 : m \in {lote[l] : l \in Lotes}} :
            seen' = [seen EXCEPT ![p] =
              [remate  |-> IF r.kind = "auto_close" THEN remate ELSE s.remate,
               row     |-> lote[r.lote],
               leaders |-> IF r.kind \in {"bid", "auto_close"} THEN Leaders(r.lote) ELSE {},
               open    |-> r.kind = "open" /\ HasOpenLote,
               order   |-> IF r.kind = "requeue" THEN n ELSE 0,
               at      |-> now]]
    BY <1>2 DEF Acquire
  <2>3. n \in Nat
    BY DEF TypeOK, LoteRow
  <2>4. (r.kind = "open" /\ HasOpenLote) \in BOOLEAN /\ Leaders(r.lote) \in SUBSET Keys
    BY DEF Leaders
  <2>5. seen' \in [Procs -> Reading]
    BY <1>1, <2>1, <2>2, <2>3, <2>4 DEF TypeOK, Reading
  <2>6. lock' \in [Lotes -> Procs \cup {NoProc}] /\ pc' \in [Procs -> {"idle", "asked", "vacant", "read", "locked"}]
    BY <1>2 DEF Acquire, LockRow, TypeOK
  <2> QED  BY <1>2, <2>5, <2>6 DEF Acquire, TypeOK, data
<1>3. ASSUME AcceptBid(p) PROVE TypeOK'
  <2>1. s.at + Extension \in Nat
    BY <1>1, DataAssumption
  <2>2. [s.row EXCEPT !.ends = s.at + Extension] \in LoteRow
    BY <1>1, <2>1 DEF LoteRow, Nullable
  <2>3. lote' \in [Lotes -> LoteRow] /\ extended' \in [Lotes -> Nullable]
    BY <1>3, <2>1, <2>2, UpdateType DEF AcceptBid, TypeOK, Nullable
  <2>4. ofertas' \in [Keys -> OfertaRow]
    <3>1. ASSUME NEW k \in Keys
          PROVE  /\ [ofertas[k] EXCEPT !.status = "OUTBID"] \in OfertaRow
                 /\ ofertas[k] \in OfertaRow
      BY DEF TypeOK, OfertaRow
    <3>2. [status |-> "ACCEPTED", lote |-> r.lote, amount |-> r.arg] \in OfertaRow
      BY <1>1 DEF OfertaRow, Request
    <3> QED  BY <1>3, <3>1, <3>2 DEF AcceptBid
  <2> QED  BY <1>3, <2>3, <2>4, DoneType DEF AcceptBid, TypeOK
<1>4. ASSUME RejectBid(p) PROVE TypeOK'
  <2>1. ofertas' \in [Keys -> OfertaRow]
    BY <1>4, <1>1 DEF RejectBid, TypeOK, OfertaRow, Request
  <2> QED  BY <1>4, <2>1, DoneType DEF RejectBid, TypeOK
<1>5. ASSUME DuplicateBid(p) PROVE TypeOK'
  BY <1>5, DoneType DEF DuplicateBid, TypeOK, data
<1>6. ASSUME Open(p) PROVE TypeOK'
  <2>1. lote' \in [Lotes -> LoteRow]
    BY <1>6, <1>1, RowTypes, UpdateType DEF Open
  <2> QED  BY <1>6, <2>1, DoneType DEF Open, TypeOK, Nullable
<1>7. ASSUME Close(p) PROVE TypeOK'
  <2>1. lote' \in [Lotes -> LoteRow]
    <3>1. CloseTarget(r.kind) \in LoteStatus
      BY DEF CloseTarget, LoteStatus
    <3>2. (IF r.kind = "close_sold" THEN r.arg ELSE NULL) \in Nullable
      BY <1>1 DEF Nullable
    <3> QED  BY <1>7, <1>1, <3>1, <3>2, RowTypes, UpdateType DEF Close
  <2> QED  BY <1>7, <2>1, DoneType DEF Close, TypeOK
<1>8. ASSUME CancelLote(p) PROVE TypeOK'
  <2>1. [s.row EXCEPT !.status = "CANCELLED"] \in LoteRow
    BY <1>1 DEF LoteRow, LoteStatus
  <2> QED  BY <1>8, <2>1, UpdateType, DoneType DEF CancelLote, TypeOK
<1>9. ASSUME Requeue(p) PROVE TypeOK'
  <2>1. [s.row EXCEPT !.status = "PENDING", !.base = r.arg, !.final = NULL,
                      !.order = s.order, !.round = s.row.round + 1] \in LoteRow
    <3>1. s.row.round + 1 \in Nat /\ s.order \in Nat
      BY <1>1 DEF LoteRow, Reading
    <3> QED  BY <1>1, <3>1 DEF LoteRow, LoteStatus, Nullable
  <2> QED  BY <1>9, <2>1, UpdateType, DoneType DEF Requeue, TypeOK
<1>10. ASSUME AutoClose(p) PROVE TypeOK'
  <2>1. AutoTarget(s.leaders) \in LoteStatus
    BY DEF AutoTarget, LoteStatus
  <2>2. lote' \in [Lotes -> LoteRow]
    BY <1>10, <1>1, <2>1, LeadingPriceType, RowTypes, UpdateType DEF AutoClose
  <2>3. winner' \in [Lotes -> Keys \cup {NoKey}]
    BY <1>10, <1>1, LeadingPriceType DEF AutoClose, TypeOK
  <2> QED  BY <1>10, <2>2, <2>3, DoneType DEF AutoClose, TypeOK
<1>11. ASSUME AdjustTimer(p) PROVE TypeOK'
  <2>1. lote' \in [Lotes -> LoteRow]
    BY <1>11, <1>1, RowTypes, UpdateType DEF AdjustTimer
  <2> QED  BY <1>11, <2>1, DoneType DEF AdjustTimer, TypeOK, Nullable
<1>12. ASSUME ChangeRemate(p) PROVE TypeOK'
  <2>1. remate' \in RemateStatus
    BY <1>12 DEF ChangeRemate, Target, RemateKinds, RemateStatus
  <2> QED  BY <1>12, <2>1, DoneType DEF ChangeRemate, TypeOK
<1>13. ASSUME Refuse(p) PROVE TypeOK'
  BY <1>13, DoneType DEF Refuse, TypeOK, data
<1> QED  BY <1>2, <1>3, <1>4, <1>5, <1>6, <1>7, <1>8, <1>9, <1>10, <1>11, <1>12, <1>13 DEF Serve

\* The initial state is well typed.
LEMMA InitType == Init => TypeOK
<1> SUFFICES ASSUME Init PROVE TypeOK
  OBVIOUS
<1>1. lote \in [Lotes -> LoteRow]
  <2>1. \A l \in Lotes : [NewLote EXCEPT !.order = l] \in LoteRow
    BY ConstantTypes, ProcsAssumption DEF LoteRow
  <2> QED  BY <2>1 DEF Init
<1> QED  BY <1>1, ConstantTypes, DataAssumption DEF Init, TypeOK, Nullable

\* Every variable keeps its type in every behaviour, whatever the constants are.
THEOREM TypeCorrect == Spec => []TypeOK
<1>1. Init => TypeOK
  BY InitType
<1>2. TypeOK /\ [Next]_vars => TypeOK'
  <2> SUFFICES ASSUME TypeOK, [Next]_vars PROVE TypeOK'
    OBVIOUS
  <2>1. CASE (\E w \in Workers : Arrive(w)) \/ BeginAutoClose
    BY <2>1, ArrivalType
  <2>2. CASE \E p \in Procs : Serve(p)
    BY <2>2, ServeType
  <2>3. CASE Tick
    BY <2>3 DEF Tick, TypeOK, data
  <2>4. CASE Quiet \/ UNCHANGED vars
    BY <2>4 DEF Quiet, TypeOK, vars
  <2> QED  BY <2>1, <2>2, <2>3, <2>4 DEF Next
<1> QED  BY <1>1, <1>2, PTL DEF Spec

------------------------------------------------------------------------------
(* The row lock.                                                            *)

\* A process past Acquire holds the row it asked for: no two hold the same one.
Holders ==
    \A p \in Procs : pc[p] = "locked" =>
        /\ lock[req[p].lote] = p
        /\ req[p].kind \in LockedKinds \cup {"auto_close"}

\* The inductive invariant: what a transaction has read under its lock stays current
\* because whoever writes the row, or adds a leader to it, holds or waits for the lock.
LockInv == TypeOK /\ Holders /\ LockedReadsAreCurrent

\* A request under its lock names a lote.
LEMMA LockedLote ==
    ASSUME TypeOK, Holders, NEW p \in Procs, pc[p] = "locked"
    PROVE  /\ req[p].lote \in Lotes
           /\ lock[req[p].lote] = p
           /\ seen[p].row \in LoteRow /\ seen[p].at \in Nat /\ req[p].arg \in Nat
           /\ seen[p].leaders \in SUBSET Keys
           /\ req[p].kind = "bid" => req[p].key \in Keys
  BY DEF TypeOK, Holders, Request, Reading, LockedKinds, RemateKinds

\* An UPDATE under the lock stores the row as it is in memory.
LEMMA LockedUpdate ==
    ASSUME LockInv, NEW p \in Procs, pc[p] = "locked", NEW new \in LoteRow, Update(p, new)
    PROVE  lote' = [lote EXCEPT ![req[p].lote] = new]
<1>1. req[p].lote \in Lotes /\ seen[p].row \in LoteRow /\ seen[p].row = lote[req[p].lote]
  BY LockedLote DEF LockInv, LockedReadsAreCurrent
<1>2. Flush(lote[req[p].lote], seen[p].row, new, req[p].kind) = new
  BY <1>1, FlushCurrent
<1> QED  BY <1>2 DEF Update

\* What a step of p leaves alone: the rows and the bids of the lotes that others hold.
OthersKeep(p) ==
    \A l \in Lotes : lock[l] \notin {p, NoProc} =>
        /\ lote'[l] = lote[l]
        /\ Leaders(l)' = Leaders(l)

\* A step that ends p's transaction keeps the invariant if it disturbs no holder.
LEMMA DoneKeepsHolders ==
    ASSUME LockInv, TypeOK', NEW p \in Procs, Done(p), OthersKeep(p)
    PROVE  LockInv'
<1> SUFFICES ASSUME NEW q \in Procs, pc'[q] = "locked"
             PROVE  /\ lock'[req'[q].lote] = q
                    /\ req'[q].kind \in LockedKinds \cup {"auto_close"}
                    /\ seen'[q].row = lote'[req'[q].lote]
                    /\ req'[q].kind \in {"bid", "auto_close"} =>
                          seen'[q].leaders = {k \in Keys : /\ ofertas'[k].lote = req'[q].lote
                                                           /\ ofertas'[k].status = "ACCEPTED"}
  BY DEF LockInv, Holders, LockedReadsAreCurrent, Leaders
<1>1. q # p /\ pc[q] = "locked" /\ req'[q] = req[q] /\ seen'[q] = seen[q]
  BY DEF Done, LockInv, TypeOK
<1>2. req[q].lote \in Lotes /\ lock[req[q].lote] = q /\ q # NoProc
  BY <1>1, LockedLote, ProcsAssumption DEF LockInv
<1>3. lock'[req[q].lote] = q
  BY <1>1, <1>2 DEF Done
<1>4. PICK l \in Lotes : l = req[q].lote
  BY <1>2
<1>5. lote'[l] = lote[l] /\ Leaders(l)' = Leaders(l)
  BY <1>1, <1>2, <1>4 DEF OthersKeep
<1>6. req[q].kind \in {"bid", "auto_close"} => seen[q].leaders = Leaders(l)
  BY <1>1, <1>4 DEF LockInv, LockedReadsAreCurrent
<1>7. seen[q].row = lote[l]
  BY <1>1, <1>4 DEF LockInv, LockedReadsAreCurrent
<1> QED  BY <1>1, <1>3, <1>4, <1>5, <1>6, <1>7 DEF LockInv, Holders, Leaders

\* A step that writes the row of p's lote, and no bid, disturbs no other holder.
LEMMA UpdateKeepsOthers ==
    ASSUME TypeOK, NEW p \in Procs, NEW new, Update(p, new), Writable(p), ofertas' = ofertas
    PROVE  OthersKeep(p)
  BY DEF TypeOK, Update, Writable, OthersKeep, Leaders

\* Every step of a handler that ends its transaction disturbs no other holder.
LEMMA ServeKeepsOthers ==
    ASSUME LockInv, NEW p \in Procs, Serve(p), ~Acquire(p)
    PROVE  OthersKeep(p)
<1> DEFINE r == req[p]
<1>1. pc[p] = "locked" => r.lote \in Lotes /\ Writable(p)
  BY LockedLote DEF LockInv, Writable
<1>2. CASE AcceptBid(p)
  <2>1. pc[p] = "locked" /\ r.kind = "bid" /\ r.lote \in Lotes /\ lock[r.lote] = p
    BY <1>2, LockedLote DEF AcceptBid, LockInv
  <2>2. seen[p].leaders = Leaders(r.lote)
    BY <2>1 DEF LockInv, LockedReadsAreCurrent
  <2> SUFFICES ASSUME NEW l \in Lotes, l # r.lote
               PROVE  lote'[l] = lote[l] /\ Leaders(l)' = Leaders(l)
    BY <2>1 DEF OthersKeep
  <2>3. lote'[l] = lote[l]
    BY <1>2, <2>1 DEF AcceptBid, Update, LockInv, TypeOK
  <2>4. ofertas[r.key].status = "NONE"
    BY <1>2 DEF AcceptBid, TokenIsFree
  <2>5. ASSUME NEW k \in Keys
        PROVE  /\ (ofertas'[k].lote = l /\ ofertas'[k].status = "ACCEPTED")
                    <=> (ofertas[k].lote = l /\ ofertas[k].status = "ACCEPTED")
    <3>1. CASE k = r.key
      BY <1>2, <2>4, <3>1 DEF AcceptBid
    <3>2. CASE k # r.key /\ k \in seen[p].leaders
      <4>1. ofertas[k].lote = r.lote
        BY <2>2, <3>2 DEF Leaders
      <4>2. ofertas'[k] = [ofertas[k] EXCEPT !.status = "OUTBID"]
        BY <1>2, <3>2 DEF AcceptBid
      <4>3. ofertas[k] \in OfertaRow
        BY DEF LockInv, TypeOK
      <4> QED  BY <4>1, <4>2, <4>3 DEF OfertaRow
    <3>3. CASE k # r.key /\ k \notin seen[p].leaders
      BY <1>2, <3>3 DEF AcceptBid
    <3> QED  BY <3>1, <3>2, <3>3
  <2> QED  BY <2>3, <2>5 DEF Leaders
<1>3. CASE RejectBid(p)
  <2>1. r.key \in Keys /\ ofertas[r.key].status = "NONE"
    BY <1>3, LockedLote DEF RejectBid, TokenIsFree, LockInv
  <2>2. ofertas' = [ofertas EXCEPT ![r.key] =
                      [status |-> "REJECTED", lote |-> r.lote, amount |-> r.arg]]
    BY <1>3 DEF RejectBid
  <2>3. \A l \in Lotes : Leaders(l)' = Leaders(l)
    BY <2>1, <2>2 DEF Leaders, LockInv, TypeOK
  <2> QED  BY <1>3, <2>3 DEF RejectBid, OthersKeep
<1>4. CASE DuplicateBid(p) \/ Refuse(p) \/ ChangeRemate(p)
  BY <1>4 DEF DuplicateBid, Refuse, ChangeRemate, OthersKeep, Leaders, data
<1>5. CASE Open(p) \/ AdjustTimer(p)
  <2>1. PICK new : Update(p, new)
    BY <1>5 DEF Open, AdjustTimer
  <2> QED  BY <1>5, <2>1, UpdateKeepsOthers DEF Open, AdjustTimer, LockInv
<1>6. CASE Close(p) \/ CancelLote(p) \/ Requeue(p) \/ AutoClose(p)
  <2>1. PICK new : Update(p, new)
    BY <1>6 DEF Close, CancelLote, Requeue, AutoClose
  <2>2. Writable(p) /\ ofertas' = ofertas
    BY <1>1, <1>6 DEF Close, CancelLote, Requeue, AutoClose,
                      CanCloseByHand, CanCancelLote, CanRequeue, CanAutoClose
  <2> QED  BY <2>1, <2>2, UpdateKeepsOthers DEF LockInv
<1> QED  BY <1>2, <1>3, <1>4, <1>5, <1>6 DEF Serve

\* Acquire reads, under the lock it takes, what is committed.
LEMMA AcquireKeepsLockInv ==
    ASSUME LockInv, TypeOK', NEW p \in Procs, Acquire(p)
    PROVE  LockInv'
<1> SUFFICES ASSUME NEW q \in Procs, pc'[q] = "locked"
             PROVE  /\ lock'[req[q].lote] = q
                    /\ req[q].kind \in LockedKinds \cup {"auto_close"}
                    /\ seen'[q].row = lote[req[q].lote]
                    /\ req[q].kind \in {"bid", "auto_close"} =>
                          seen'[q].leaders = Leaders(req[q].lote)
  BY DEF LockInv, Holders, LockedReadsAreCurrent, Leaders, Acquire, data
<1>1. CASE q = p
  <2>1. req[p].lote \in Lotes
    BY DEF Acquire, LockInv, TypeOK, Request, LockedKinds, RemateKinds
  <2> QED  BY <1>1, <2>1 DEF Acquire, LockRow, LockInv, TypeOK
<1>2. CASE q # p
  <2>1. pc[q] = "locked" /\ seen'[q] = seen[q]
    BY <1>2 DEF Acquire, LockInv, TypeOK
  <2>2. lock[req[q].lote] = q /\ req[q].lote # req[p].lote
    BY <2>1, LockedLote, ProcsAssumption DEF LockInv, Acquire, LockRow
  <2>3. lock'[req[q].lote] = q
    BY <2>1, <2>2, LockedLote DEF Acquire, LockRow, LockInv, TypeOK
  <2> QED  BY <2>1, <2>3 DEF LockInv, Holders, LockedReadsAreCurrent
<1> QED  BY <1>1, <1>2

\* Every arrival takes no lock and writes no row: it is a Begin, or a step of open_next.
LEMMA ArrivalBegins ==
    ASSUME (\E w \in Workers : Arrive(w)) \/ BeginAutoClose
    PROVE  \E p \in Procs : \/ \E r, row, at : Begin(p, r, row, at)
                           \/ FindsVacant(p) \/ ChooseNext(p)
  BY DEF Arrive, BeginBid, BeginLocked, BeginOpenNext, BeginTimer, BeginRemate, BeginAutoClose,
         Procs

\* It is the business of one transaction, which does not decide in it.
LEMMA ArrivalReads ==
    ASSUME TypeOK, (\E w \in Workers : Arrive(w)) \/ BeginAutoClose
    PROVE  /\ UNCHANGED <<now, lock, data>>
           /\ \E p \in Procs : /\ pc'[p] \notin {"idle", "locked"}
                              /\ \A q \in Procs \ {p} : /\ pc'[q] = pc[q] /\ req'[q] = req[q]
                                                       /\ seen'[q] = seen[q]
<1>1. PICK p \in Procs : (\E r, row, at : Begin(p, r, row, at)) \/ FindsVacant(p) \/ ChooseNext(p)
  BY ArrivalBegins
<1>2. UNCHANGED <<now, lock, data>>
  BY <1>1 DEF Begin, FindsVacant, ChooseNext
<1>3. /\ pc'[p] \notin {"idle", "locked"}
      /\ \A q \in Procs \ {p} : pc'[q] = pc[q] /\ req'[q] = req[q] /\ seen'[q] = seen[q]
  BY <1>1 DEF Begin, FindsVacant, ChooseNext, TypeOK
<1> QED  BY <1>2, <1>3

\* A request that arrives does not disturb the holders.
LEMMA ArrivalKeepsLockInv ==
    ASSUME LockInv, TypeOK', (\E w \in Workers : Arrive(w)) \/ BeginAutoClose
    PROVE  LockInv'
<1>1. \A q \in Procs : pc'[q] = "locked" => pc[q] = "locked" /\ req'[q] = req[q] /\ seen'[q] = seen[q]
  BY ArrivalReads DEF LockInv
<1>2. lock' = lock /\ lote' = lote /\ ofertas' = ofertas
  BY ArrivalReads DEF LockInv, data
<1> QED  BY <1>1, <1>2 DEF LockInv, Holders, LockedReadsAreCurrent, Leaders

\* The invariant of the row lock is inductive.
LEMMA LockInvStep == LockInv /\ [Next]_vars => LockInv'
<1> SUFFICES ASSUME LockInv, [Next]_vars PROVE LockInv'
  OBVIOUS
<1>1. CASE (\E w \in Workers : Arrive(w)) \/ BeginAutoClose
  BY <1>1, ArrivalType, ArrivalKeepsLockInv DEF LockInv
<1>2. ASSUME NEW p \in Procs, Serve(p) PROVE LockInv'
  <2>1. TypeOK'
    BY <1>2, ServeType DEF LockInv
  <2>2. CASE Acquire(p)
    BY <2>1, <2>2, AcquireKeepsLockInv
  <2>3. CASE ~Acquire(p)
    <3>1. Done(p)
      BY <1>2, <2>3 DEF Serve, AcceptBid, RejectBid, DuplicateBid, Open, Close, CancelLote,
                        Requeue, AutoClose, AdjustTimer, ChangeRemate, Refuse
    <3> QED  BY <1>2, <2>1, <2>3, <3>1, ServeKeepsOthers, DoneKeepsHolders
  <2> QED  BY <2>2, <2>3
<1>3. CASE Tick
  BY <1>3 DEF Tick, data, LockInv, TypeOK, Holders, LockedReadsAreCurrent, Leaders
<1>4. CASE Quiet \/ UNCHANGED vars
  BY <1>4 DEF Quiet, vars, LockInv, TypeOK, Holders, LockedReadsAreCurrent, Leaders
<1> QED  BY <1>1, <1>2, <1>3, <1>4 DEF Next

\* Nothing is locked at first.
LEMMA LockInvInit == Init => LockInv
<1> SUFFICES ASSUME Init PROVE LockInv
  OBVIOUS
<1>1. \A p \in Procs : pc[p] # "locked"
  BY DEF Init
<1>2. TypeOK
  BY InitType
<1> QED  BY <1>1, <1>2 DEF LockInv, Holders, LockedReadsAreCurrent

\* ADR-004 for any number of handlers: a transaction decides on the row, and on the
\* leading oferta, that are committed when it decides.
THEOREM ReadsAreCurrent == Spec => []LockedReadsAreCurrent
<1>1. LockInv => LockedReadsAreCurrent
  BY DEF LockInv
<1> QED  BY <1>1, LockInvInit, LockInvStep, PTL DEF Spec

------------------------------------------------------------------------------
(* Bids and sales.                                                          *)

\* AcceptBid leaves its oferta as the only leader of its lote.
LEMMA AcceptedLeadsAlone ==
    ASSUME LockInv, NEW p \in Procs, AcceptBid(p)
    PROVE  \A k \in Keys : ofertas'[k].lote = req[p].lote /\ ofertas'[k].status = "ACCEPTED"
                              => k = req[p].key
<1>1. pc[p] = "locked" /\ req[p].kind = "bid"
  BY DEF AcceptBid
<1>2. seen[p].leaders = Leaders(req[p].lote)
  BY <1>1 DEF LockInv, LockedReadsAreCurrent
<1> SUFFICES ASSUME NEW k \in Keys, k # req[p].key,
                    ofertas'[k].lote = req[p].lote, ofertas'[k].status = "ACCEPTED"
             PROVE  FALSE
  OBVIOUS
<1>3. CASE k \in seen[p].leaders
  <2>1. ofertas'[k] = [ofertas[k] EXCEPT !.status = "OUTBID"] /\ ofertas[k] \in OfertaRow
    BY <1>3 DEF AcceptBid, LockInv, TypeOK
  <2> QED  BY <2>1 DEF OfertaRow
<1>4. CASE k \notin seen[p].leaders
  BY <1>2, <1>4 DEF AcceptBid, Leaders
<1> QED  BY <1>3, <1>4

\* Only a bid writes rows of ofertas.
LEMMA BidStep ==
    ASSUME [Next]_vars
    PROVE  \/ ofertas' = ofertas
           \/ \E p \in Procs : AcceptBid(p) \/ RejectBid(p)
<1>1. CASE (\E w \in Workers : Arrive(w)) \/ BeginAutoClose
  BY <1>1, ArrivalBegins DEF Begin, FindsVacant, ChooseNext, data
<1>2. CASE \E p \in Procs : Serve(p)
  BY <1>2 DEF Serve, Acquire, DuplicateBid, Open, Close, CancelLote,
              Requeue, AutoClose, AdjustTimer, ChangeRemate, Refuse, data
<1>3. CASE Tick \/ Quiet \/ UNCHANGED vars
  BY <1>3 DEF Tick, Quiet, vars, data
<1> QED  BY <1>1, <1>2, <1>3 DEF Next

\* Only AcceptBid touches the leaders of a lote.
LEMMA LeadersKept ==
    ASSUME LockInv, [Next]_vars, NEW l \in Lotes,
           \A p \in Procs : AcceptBid(p) => req[p].lote # l
    PROVE  /\ Leaders(l)' = Leaders(l)
           /\ \A k \in Leaders(l) : ofertas'[k] = ofertas[k]
<1>1. CASE ofertas' = ofertas
  BY <1>1 DEF Leaders
<1>2. ASSUME NEW p \in Procs, AcceptBid(p)
      PROVE  /\ Leaders(l)' = Leaders(l)
             /\ \A k \in Leaders(l) : ofertas'[k] = ofertas[k]
  <2>1. pc[p] = "locked" /\ req[p].kind = "bid"
    BY <1>2 DEF AcceptBid
  <2>2. seen[p].leaders = Leaders(req[p].lote) /\ req[p].lote # l
    BY <1>2, <2>1 DEF LockInv, LockedReadsAreCurrent
  <2>3. ofertas[req[p].key].status = "NONE"
    BY <1>2 DEF AcceptBid, TokenIsFree
  <2>4. ASSUME NEW k \in Keys
        PROVE  /\ k \in Leaders(l)' <=> k \in Leaders(l)
               /\ k \in Leaders(l) => ofertas'[k] = ofertas[k]
    <3>1. CASE k = req[p].key
      BY <1>2, <2>2, <2>3, <3>1 DEF AcceptBid, Leaders
    <3>2. CASE k # req[p].key /\ k \in seen[p].leaders
      <4>1. ofertas'[k] = [ofertas[k] EXCEPT !.status = "OUTBID"] /\ ofertas[k] \in OfertaRow
        BY <1>2, <3>2 DEF AcceptBid, LockInv, TypeOK
      <4> QED  BY <2>2, <3>2, <4>1 DEF Leaders, OfertaRow
    <3>3. CASE k # req[p].key /\ k \notin seen[p].leaders
      BY <1>2, <3>3 DEF AcceptBid, Leaders
    <3> QED  BY <3>1, <3>2, <3>3
  <2> QED  BY <2>4 DEF Leaders
<1>3. ASSUME NEW p \in Procs, RejectBid(p)
      PROVE  /\ Leaders(l)' = Leaders(l)
             /\ \A k \in Leaders(l) : ofertas'[k] = ofertas[k]
  <2>1. req[p].key \in Keys /\ ofertas[req[p].key].status = "NONE"
    BY <1>3, LockedLote DEF RejectBid, TokenIsFree, LockInv
  <2> QED  BY <1>3, <2>1 DEF RejectBid, Leaders, LockInv, TypeOK
<1> QED  BY <1>1, <1>2, <1>3, BidStep

\* At most one ACCEPTED oferta per lote, for any number of buyers, tokens and workers.
THEOREM LeaderIsUnique == Spec => []OneLeader
<1> DEFINE Inv == LockInv /\ OneLeader
<1>1. Init => Inv
  <2> SUFFICES ASSUME Init PROVE OneLeader
    BY LockInvInit
  <2> QED  BY DEF Init, OneLeader, Leaders, NoOferta
<1>2. Inv /\ [Next]_vars => Inv'
  <2> SUFFICES ASSUME LockInv, OneLeader, [Next]_vars, NEW l \in Lotes
               PROVE  \A j, k \in Leaders(l)' : j = k
    BY LockInvStep DEF OneLeader, Leaders
  <2>1. CASE \E p \in Procs : AcceptBid(p) /\ req[p].lote = l
    BY <2>1, AcceptedLeadsAlone DEF Leaders
  <2>2. CASE \A p \in Procs : AcceptBid(p) => req[p].lote # l
    BY <2>2, LeadersKept DEF OneLeader
  <2> QED  BY <2>1, <2>2
<1>3. Inv => OneLeader
  OBVIOUS
<1> QED  BY <1>1, <1>2, <1>3, PTL DEF Spec

\* An UPDATE that does not assign status, base_price nor final_price keeps them as
\* they are committed, and one that assigns OPEN changes no other of them.
LEMMA FlushKeeps ==
    ASSUME NEW current, NEW loaded, NEW new, NEW kind,
           new.base = loaded.base, new.final = loaded.final
    PROVE  /\ Flush(current, loaded, new, kind).base = current.base
           /\ Flush(current, loaded, new, kind).final = current.final
           /\ new.status = loaded.status =>
                 Flush(current, loaded, new, kind).status = current.status
           /\ Flush(current, loaded, new, kind).status \in {new.status, current.status}
  BY DEF Flush, Column

\* What each step does to the row of a lote, in the terms of a sale.
RowKept(l) ==
    /\ lote'[l].status = lote[l].status
    /\ lote'[l].base = lote[l].base
    /\ lote'[l].final = lote[l].final

SoldByHand(l) ==
    /\ lote'[l].status = "CLOSED_SOLD" /\ lote'[l].final >= lote'[l].base
    /\ winner'[l] = NoKey

SoldByClock(l) ==
    /\ lote'[l].status = "CLOSED_SOLD" /\ lote'[l].final >= lote'[l].base
    /\ winner'[l] \in Leaders(l) /\ lote'[l].final = ofertas[winner'[l]].amount

\* A lote changes by being opened or withdrawn, by a sale, or not in these columns.
LEMMA LoteStep ==
    ASSUME LockInv, [Next]_vars, NEW l \in Lotes
    PROVE  \/ lote'[l].status \in LoteStatus \ {"CLOSED_SOLD", "OPEN"} /\ ofertas' = ofertas
           \/ (\E p \in Procs : Open(p)) /\ lote'[l].status = "OPEN" /\ ofertas' = ofertas
           \/ RowKept(l) /\ winner'[l] = winner[l] /\ ofertas' = ofertas
           \/ SoldByHand(l) /\ ofertas' = ofertas
           \/ SoldByClock(l) /\ ofertas' = ofertas
           \/ /\ RowKept(l) /\ winner'[l] = winner[l]
              /\ \A p \in Procs : AcceptBid(p) /\ req[p].lote = l => lote[l].status = "OPEN"
<1> USE DEF LoteStatus
<1>1. CASE lote' = lote /\ winner' = winner /\ ofertas' = ofertas
  BY <1>1 DEF RowKept
<1>2. ASSUME NEW p \in Procs, AcceptBid(p) \/ RejectBid(p)
      PROVE  /\ RowKept(l) /\ winner'[l] = winner[l]
             /\ \A q \in Procs : AcceptBid(q) /\ req[q].lote = l => lote[l].status = "OPEN"
  <2>1. ASSUME NEW q \in Procs, AcceptBid(q)
        PROVE  /\ req[q].lote \in Lotes /\ seen[q].row = lote[req[q].lote]
               /\ seen[q].row \in LoteRow /\ seen[q].row.status = "OPEN"
               /\ seen[q].at + Extension \in Nat
    BY <2>1, LockedLote, DataAssumption DEF AcceptBid, BidIsValid, LockInv, LockedReadsAreCurrent
  <2>2. RowKept(l)
    <3>1. CASE lote' = lote
      BY <3>1 DEF RowKept
    <3>2. CASE AcceptBid(p) /\ Update(p, [seen[p].row EXCEPT !.ends = seen[p].at + Extension])
      <4>1. [seen[p].row EXCEPT !.ends = seen[p].at + Extension] \in LoteRow
        BY <3>2, <2>1 DEF LoteRow, Nullable
      <4>2. lote' = [lote EXCEPT ![req[p].lote] =
                        [seen[p].row EXCEPT !.ends = seen[p].at + Extension]]
        BY <3>2, <4>1, LockedUpdate DEF AcceptBid
      <4> QED  BY <3>2, <4>2, <2>1 DEF RowKept, LockInv, TypeOK, LoteRow
    <3> QED  BY <1>2, <3>1, <3>2 DEF AcceptBid, RejectBid
  <2>3. winner' = winner
    BY <1>2 DEF AcceptBid, RejectBid
  <2> QED  BY <2>1, <2>2, <2>3
<1>3. ASSUME NEW p \in Procs, Open(p) \/ AdjustTimer(p)
      PROVE  \/ Open(p) /\ lote'[l].status = "OPEN" /\ ofertas' = ofertas
             \/ RowKept(l) /\ winner'[l] = winner[l] /\ ofertas' = ofertas
  <2> DEFINE new == IF Open(p) THEN Opened(seen[p].row, seen[p].at)
                    ELSE Adjusted(req[p].kind, seen[p].row, req[p].arg, seen[p].at)
  <2>1. seen[p].row \in LoteRow
    BY DEF LockInv, TypeOK, Reading
  <2>2. Update(p, new) /\ ofertas' = ofertas /\ winner' = winner
    BY <1>3 DEF Open, AdjustTimer
  <2>3. new.base = seen[p].row.base /\ new.final = seen[p].row.final
    BY <1>3, <2>1 DEF Opened, Adjusted, AdjustTimer, LoteRow, TimerKinds
  <2>4. new.status = seen[p].row.status \/ (Open(p) /\ new.status = "OPEN")
    <3>1. CASE Open(p)
      <4>1. Opened(seen[p].row, seen[p].at).status = "OPEN"
        BY <2>1 DEF Opened, LoteRow
      <4>2. new = Opened(seen[p].row, seen[p].at)
        BY <3>1
      <4>3. new.status = "OPEN"
        BY <4>1, <4>2
      <4> QED  BY <3>1, <4>3, Zenon
    <3>2. CASE ~Open(p)
      <4>1. new.status = seen[p].row.status
        BY <1>3, <3>2, <2>1 DEF Adjusted, AdjustTimer, LoteRow, TimerKinds
      <4> QED  BY <4>1
    <3> QED  BY <3>1, <3>2
  <2>5. CASE l = req[p].lote
    <3>1. lote'[l] = Flush(lote[l], seen[p].row, new, req[p].kind)
      BY <2>2, <2>5 DEF Update, LockInv, TypeOK
    <3>2. CASE new.status = seen[p].row.status
      BY <3>1, <3>2, <2>2, <2>3, FlushKeeps DEF RowKept
    <3>3. CASE Open(p) /\ new.status = "OPEN"
      BY <3>1, <3>3, <2>2, <2>3, FlushKeeps DEF RowKept
    <3> QED  BY <3>2, <3>3, <2>4
  <2>6. CASE l # req[p].lote
    BY <2>2, <2>6 DEF Update, RowKept, LockInv, TypeOK
  <2> QED  BY <2>5, <2>6
<1>4. ASSUME NEW p \in Procs, Close(p)
      PROVE  \/ lote'[l].status = "CLOSED_UNSOLD" /\ ofertas' = ofertas
             \/ RowKept(l) /\ winner'[l] = winner[l] /\ ofertas' = ofertas
             \/ SoldByHand(l) /\ ofertas' = ofertas
  <2> DEFINE t == CloseTarget(req[p].kind)
             n == IF req[p].kind = "close_sold" THEN req[p].arg ELSE NULL
  <2>1. /\ pc[p] = "locked" /\ req[p].kind \in {"close_sold", "close_unsold"}
        /\ CanClose(seen[p].row, t, req[p].arg)
    BY <1>4 DEF Close, CanCloseByHand
  <2>2. /\ req[p].lote \in Lotes /\ seen[p].row \in LoteRow /\ req[p].arg \in Nat
        /\ t \in LoteStatus /\ n \in Nullable
    BY <2>1, LockedLote DEF LockInv, CloseTarget, Nullable
  <2>3. Closed(seen[p].row, t, n) \in LoteRow
    BY <2>2, RowTypes, LockedLote, <2>1 DEF LockInv
  <2>4. lote' = [lote EXCEPT ![req[p].lote] = Closed(seen[p].row, t, n)]
    BY <1>4, <2>1, <2>3, LockedUpdate DEF Close
  <2>5. ofertas' = ofertas /\ winner' = [winner EXCEPT ![req[p].lote] = NoKey]
    BY <1>4 DEF Close
  <2>6. CASE l # req[p].lote
    BY <2>4, <2>5, <2>6 DEF RowKept, LockInv, TypeOK
  <2>7. CASE l = req[p].lote
    <3>1. lote'[l] = Closed(seen[p].row, t, n) /\ winner'[l] = NoKey
      BY <2>4, <2>5, <2>7 DEF LockInv, TypeOK
    <3>2. /\ Closed(seen[p].row, t, n).status = t
          /\ Closed(seen[p].row, t, n).final = n
          /\ Closed(seen[p].row, t, n).base = seen[p].row.base
      BY <2>2 DEF Closed, LoteRow
    <3>3. CASE req[p].kind = "close_sold"
      <4>1. t = "CLOSED_SOLD" /\ n = req[p].arg /\ req[p].arg >= seen[p].row.base
        BY <3>3, <2>1 DEF CloseTarget, CanClose
      <4> QED  BY <3>1, <3>2, <4>1, <2>5 DEF SoldByHand
    <3>4. CASE req[p].kind = "close_unsold"
      <4>1. t = "CLOSED_UNSOLD"
        BY <3>4 DEF CloseTarget
      <4> QED  BY <3>1, <3>2, <4>1, <2>5
    <3> QED  BY <2>1, <3>3, <3>4
  <2> QED  BY <2>6, <2>7
<1>5. ASSUME NEW p \in Procs, CancelLote(p) \/ Requeue(p)
      PROVE  \/ lote'[l].status \in {"CANCELLED", "PENDING"} /\ ofertas' = ofertas
             \/ RowKept(l) /\ winner'[l] = winner[l] /\ ofertas' = ofertas
  <2>1. pc[p] = "locked" /\ ofertas' = ofertas /\ winner' = winner
    BY <1>5 DEF CancelLote, Requeue, CanCancelLote, CanRequeue
  <2>2. req[p].lote \in Lotes /\ seen[p].row \in LoteRow /\ req[p].arg \in Nat
        /\ seen[p].order \in Nat
    BY <2>1, LockedLote DEF LockInv, TypeOK, Reading
  <2>3. PICK new \in LoteRow : new.status \in {"CANCELLED", "PENDING"} /\ Update(p, new)
    <3>1. CASE CancelLote(p)
      <4>1. [seen[p].row EXCEPT !.status = "CANCELLED"] \in LoteRow
        BY <2>2 DEF LoteRow
      <4> QED  BY <3>1, <4>1, <2>2 DEF CancelLote, LoteRow
    <3>2. CASE Requeue(p)
      <4> DEFINE new == [seen[p].row EXCEPT !.status = "PENDING", !.base = req[p].arg,
                            !.final = NULL, !.order = seen[p].order,
                            !.round = seen[p].row.round + 1]
      <4>1. new \in LoteRow /\ new.status = "PENDING"
        <5>1. seen[p].row.round + 1 \in Nat
          BY <2>2 DEF LoteRow
        <5> QED  BY <2>2, <5>1 DEF LoteRow, Nullable
      <4>2. Update(p, new)
        BY <3>2 DEF Requeue
      <4> QED  BY <4>1, <4>2
    <3> QED  BY <1>5, <3>1, <3>2
  <2>4. lote' = [lote EXCEPT ![req[p].lote] = new]
    BY <2>1, <2>3, LockedUpdate
  <2> QED  BY <2>1, <2>2, <2>3, <2>4 DEF RowKept, LockInv, TypeOK
<1>6. ASSUME NEW p \in Procs, AutoClose(p)
      PROVE  \/ lote'[l].status = "CLOSED_UNSOLD" /\ ofertas' = ofertas
             \/ RowKept(l) /\ winner'[l] = winner[l] /\ ofertas' = ofertas
             \/ SoldByClock(l) /\ ofertas' = ofertas
  <2> DEFINE ks == seen[p].leaders
             t  == AutoTarget(ks)
             n  == LeadingPrice(ks)
             w  == CHOOSE k \in ks : TRUE
  <2>1. /\ pc[p] = "locked" /\ req[p].kind = "auto_close"
        /\ CanClose(seen[p].row, t, n)
    BY <1>6 DEF AutoClose, CanAutoClose
  <2>2. /\ req[p].lote \in Lotes /\ seen[p].row \in LoteRow /\ ks \in SUBSET Keys
        /\ t \in LoteStatus /\ n \in Nullable /\ seen[p].at \in Nat
        /\ ks # {} => w \in ks
    BY <2>1, LockedLote, LeadingPriceType DEF LockInv, AutoTarget
  <2>3. Closed(seen[p].row, t, n) \in LoteRow
    BY <2>2, RowTypes
  <2>4. lote' = [lote EXCEPT ![req[p].lote] = Closed(seen[p].row, t, n)]
    BY <1>6, <2>1, <2>3, LockedUpdate DEF AutoClose
  <2>5. ofertas' = ofertas /\ winner' = [winner EXCEPT ![req[p].lote] =
                                            IF ks = {} THEN NoKey ELSE w]
    BY <1>6 DEF AutoClose
  <2>6. CASE l # req[p].lote
    BY <2>4, <2>5, <2>6 DEF RowKept, LockInv, TypeOK
  <2>7. CASE l = req[p].lote
    <3>1. lote'[l] = Closed(seen[p].row, t, n)
      BY <2>4, <2>7 DEF LockInv, TypeOK
    <3>2. /\ lote'[l].status = t /\ lote'[l].final = n
          /\ lote'[l].base = seen[p].row.base
      BY <2>2, <3>1 DEF Closed, LoteRow
    <3>3. CASE ks = {}
      BY <3>2, <3>3, <2>5 DEF AutoTarget
    <3>4. CASE ks # {}
      <4>1. t = "CLOSED_SOLD" /\ n = ofertas[w].amount /\ n >= seen[p].row.base
        BY <3>4, <2>1 DEF AutoTarget, LeadingPrice, CanClose
      <4>2. winner'[l] = w /\ w \in Leaders(l)
        BY <3>4, <2>1, <2>2, <2>5, <2>7 DEF LockInv, TypeOK, LockedReadsAreCurrent
      <4> QED  BY <3>2, <4>1, <4>2, <2>5 DEF SoldByClock
    <3> QED  BY <3>3, <3>4
  <2> QED  BY <2>6, <2>7
<1>7. \/ lote' = lote /\ winner' = winner /\ ofertas' = ofertas
      \/ \E p \in Procs : \/ AcceptBid(p) \/ RejectBid(p) \/ Open(p) \/ AdjustTimer(p)
                          \/ Close(p) \/ CancelLote(p) \/ Requeue(p) \/ AutoClose(p)
  <2>1. CASE (\E w \in Workers : Arrive(w)) \/ BeginAutoClose
    BY <2>1, ArrivalBegins DEF Begin, FindsVacant, ChooseNext, data
  <2>2. CASE \E p \in Procs : Serve(p)
    BY <2>2 DEF Serve, Acquire, DuplicateBid, ChangeRemate, Refuse, data
  <2>3. CASE Tick \/ Quiet \/ UNCHANGED vars
    BY <2>3 DEF Tick, Quiet, vars, data
  <2> QED  BY <2>1, <2>2, <2>3 DEF Next
<1> QED  BY <1>1, <1>2, <1>3, <1>4, <1>5, <1>6, <1>7

\* No sale is below the base price of its round, whoever makes it and whatever races.
THEOREM SalesCoverTheBase == Spec => []SoldAtLeastBase
<1> DEFINE Inv == LockInv /\ SoldAtLeastBase
<1>1. Init => Inv
  <2> SUFFICES ASSUME Init PROVE SoldAtLeastBase
    BY LockInvInit
  <2>1. \A l \in Lotes : lote[l].status = "PENDING"
    BY DEF Init, NewLote
  <2> QED  BY <2>1 DEF SoldAtLeastBase
<1>2. Inv /\ [Next]_vars => Inv'
  <2> SUFFICES ASSUME LockInv, SoldAtLeastBase, [Next]_vars, NEW l \in Lotes,
                      lote'[l].status = "CLOSED_SOLD"
               PROVE  lote'[l].final >= lote'[l].base
    BY LockInvStep DEF SoldAtLeastBase
  <2>1. RowKept(l) \/ SoldByHand(l) \/ SoldByClock(l)
    BY LoteStep
  <2> QED  BY <2>1 DEF RowKept, SoldByHand, SoldByClock, SoldAtLeastBase
<1>3. Inv => SoldAtLeastBase
  OBVIOUS
<1> QED  BY <1>1, <1>2, <1>3, PTL DEF Spec

\* The winner announced for a lote sold by the clock stays the oferta that leads it, at
\* the price of the sale: no bid is accepted on the lote after its close.
THEOREM WinnerIsTheLeader == Spec => []SaleIsTheLeader
<1> DEFINE Inv == LockInv /\ SaleIsTheLeader
<1>1. Init => Inv
  <2> SUFFICES ASSUME Init PROVE SaleIsTheLeader
    BY LockInvInit
  <2>1. \A l \in Lotes : lote[l].status = "PENDING"
    BY DEF Init, NewLote
  <2> QED  BY <2>1 DEF SaleIsTheLeader
<1>2. Inv /\ [Next]_vars => Inv'
  <2> SUFFICES ASSUME LockInv, SaleIsTheLeader, [Next]_vars, NEW l \in Lotes,
                      lote'[l].status = "CLOSED_SOLD", winner'[l] # NoKey
               PROVE  /\ winner'[l] \in Leaders(l)'
                      /\ lote'[l].final = ofertas'[winner'[l]].amount
    BY LockInvStep DEF SaleIsTheLeader, Leaders
  <2>1. CASE SoldByClock(l) /\ ofertas' = ofertas
    BY <2>1 DEF SoldByClock, Leaders
  <2>2. CASE /\ RowKept(l) /\ winner'[l] = winner[l]
             /\ \A p \in Procs : AcceptBid(p) => req[p].lote # l
    <3>1. /\ winner[l] \in Leaders(l)
          /\ lote[l].final = ofertas[winner[l]].amount
      BY <2>2 DEF RowKept, SaleIsTheLeader
    <3>2. /\ Leaders(l)' = Leaders(l)
          /\ ofertas'[winner[l]] = ofertas[winner[l]]
      BY <2>2, <3>1, LeadersKept
    <3> QED  BY <2>2, <3>1, <3>2 DEF RowKept
  <2>3. CASE RowKept(l) /\ winner'[l] = winner[l] /\ ofertas' = ofertas
    BY <2>3 DEF RowKept, SaleIsTheLeader, Leaders
  <2>4. CASE /\ RowKept(l) /\ winner'[l] = winner[l]
             /\ \A p \in Procs : AcceptBid(p) /\ req[p].lote = l => lote[l].status = "OPEN"
    BY <2>2, <2>4 DEF RowKept
  <2>5. ~SoldByHand(l)
    BY DEF SoldByHand
  <2> QED  BY <2>1, <2>3, <2>4, <2>5, LoteStep
<1>3. Inv => SaleIsTheLeader
  OBVIOUS
<1> QED  BY <1>1, <1>2, <1>3, PTL DEF Spec

\* No retry, race or round rewrites an oferta: it only goes from ACCEPTED to OUTBID.
THEOREM OfertasAreKept == Spec => OfertasAreHistory
<1>1. LockInv /\ [Next]_vars =>
        [\A k \in Keys : ofertas[k].status # "NONE" =>
            \/ ofertas'[k] = ofertas[k]
            \/ /\ ofertas[k].status = "ACCEPTED"
               /\ ofertas'[k] = [ofertas[k] EXCEPT !.status = "OUTBID"]]_vars
  <2> SUFFICES ASSUME LockInv, [Next]_vars, NEW k \in Keys, ofertas[k].status # "NONE"
               PROVE  \/ ofertas'[k] = ofertas[k]
                      \/ /\ ofertas[k].status = "ACCEPTED"
                         /\ ofertas'[k] = [ofertas[k] EXCEPT !.status = "OUTBID"]
    OBVIOUS
  <2>1. CASE ofertas' = ofertas
    BY <2>1
  <2>2. ASSUME NEW p \in Procs, AcceptBid(p)
        PROVE  \/ ofertas'[k] = ofertas[k]
               \/ /\ ofertas[k].status = "ACCEPTED"
                  /\ ofertas'[k] = [ofertas[k] EXCEPT !.status = "OUTBID"]
    <3>1. seen[p].leaders = Leaders(req[p].lote)
      BY <2>2 DEF AcceptBid, LockInv, LockedReadsAreCurrent
    <3>2. k # req[p].key
      BY <2>2 DEF AcceptBid, TokenIsFree
    <3> QED  BY <2>2, <3>1, <3>2 DEF AcceptBid, Leaders
  <2>3. ASSUME NEW p \in Procs, RejectBid(p) PROVE ofertas'[k] = ofertas[k]
    BY <2>3 DEF RejectBid, TokenIsFree, LockInv, TypeOK
  <2> QED  BY <2>1, <2>2, <2>3, BidStep
<1> QED  BY <1>1, LockInvInit, LockInvStep, PTL DEF Spec, OfertasAreHistory

\* Two lotes are never OPEN at once, though open_next does not lock the one it opens.
THEOREM OpenIsUnique == Spec => []OneOpenLote
<1> DEFINE Inv == LockInv /\ OneOpenLote
<1>1. Init => Inv
  <2> SUFFICES ASSUME Init PROVE OneOpenLote
    BY LockInvInit
  <2>1. \A l \in Lotes : lote[l].status = "PENDING"
    BY DEF Init, NewLote
  <2> QED  BY <2>1 DEF OneOpenLote
<1>2. Inv /\ [Next]_vars => Inv'
  <2> SUFFICES ASSUME LockInv, OneOpenLote, [Next]_vars PROVE OneOpenLote'
    BY LockInvStep
  <2>1. CASE \A l \in Lotes : lote'[l].status = "OPEN" => lote[l].status = "OPEN"
    BY <2>1 DEF OneOpenLote
  <2>2. ASSUME NEW p \in Procs, Open(p) PROVE OneOpenLote'
    <3>1. \A l \in Lotes \ {req[p].lote} : lote[l].status # "OPEN" /\ lote'[l] = lote[l]
      BY <2>2 DEF Open, CanOpen, OpenIndexAdmits, Update, LockInv, TypeOK
    <3> QED  BY <3>1 DEF OneOpenLote
  <2>3. ASSUME NEW l \in Lotes
        PROVE  \/ \E p \in Procs : Open(p)
               \/ lote'[l].status = "OPEN" => lote[l].status = "OPEN"
    BY LoteStep DEF RowKept, SoldByHand, SoldByClock
  <2> QED  BY <2>1, <2>2, <2>3
<1>3. Inv => OneOpenLote
  OBVIOUS
<1> QED  BY <1>1, <1>2, <1>3, PTL DEF Spec

------------------------------------------------------------------------------
(* The table of a lote and its clock.                                       *)

\* The handlers that lock a lote and change its status do so along the table, and
\* leave its deadline as it is or clear it.
LEMMA LockedMove ==
    ASSUME LockInv, NEW p \in Procs,
           Close(p) \/ CancelLote(p) \/ Requeue(p) \/ AutoClose(p)
    PROVE  /\ req[p].lote \in Lotes
           /\ \E new \in LoteRow :
                /\ lote' = [lote EXCEPT ![req[p].lote] = new]
                /\ <<lote[req[p].lote].status, new.status>> \in LoteMoves
                /\ new.ends \in {lote[req[p].lote].ends, NULL}
<1>1. pc[p] = "locked"
  BY DEF Close, CancelLote, Requeue, AutoClose, CanCloseByHand, CanCancelLote, CanRequeue,
         CanAutoClose
<1> DEFINE row == seen[p].row
<1>2. /\ req[p].lote \in Lotes /\ row \in LoteRow /\ row = lote[req[p].lote]
      /\ req[p].arg \in Nat /\ seen[p].order \in Nat /\ seen[p].at \in Nat
      /\ seen[p].leaders \in SUBSET Keys
  BY <1>1, LockedLote DEF LockInv, LockedReadsAreCurrent, TypeOK, Reading
<1>3. ASSUME NEW new \in LoteRow, Update(p, new), <<row.status, new.status>> \in LoteMoves,
             new.ends \in {row.ends, NULL}
      PROVE  \E n \in LoteRow :
                /\ lote' = [lote EXCEPT ![req[p].lote] = n]
                /\ <<lote[req[p].lote].status, n.status>> \in LoteMoves
                /\ n.ends \in {lote[req[p].lote].ends, NULL}
  BY <1>1, <1>2, <1>3, LockedUpdate
<1>4. ASSUME NEW t \in LoteStatus, NEW n \in Nullable
      PROVE  /\ Closed(row, t, n) \in LoteRow
             /\ Closed(row, t, n).status = t /\ Closed(row, t, n).ends = NULL
  BY <1>2, RowTypes DEF Closed, LoteRow
<1>5. CASE Close(p)
  <2>1. CloseTarget(req[p].kind) \in LoteStatus
    BY DEF CloseTarget, LoteStatus
  <2>2. (IF req[p].kind = "close_sold" THEN req[p].arg ELSE NULL) \in Nullable
    BY <1>2 DEF Nullable
  <2>3. <<row.status, CloseTarget(req[p].kind)>> \in LoteMoves
    BY <1>5 DEF Close, CanCloseByHand, CanClose
  <2> QED  BY <1>2, <1>3, <1>4, <1>5, <2>1, <2>2, <2>3 DEF Close
<1>6. CASE AutoClose(p)
  <2>1. AutoTarget(seen[p].leaders) \in LoteStatus
    BY DEF AutoTarget, LoteStatus
  <2>2. LeadingPrice(seen[p].leaders) \in Nullable
    BY <1>2, LeadingPriceType DEF LockInv
  <2>3. <<row.status, AutoTarget(seen[p].leaders)>> \in LoteMoves
    BY <1>6 DEF AutoClose, CanAutoClose, CanClose
  <2> QED  BY <1>2, <1>3, <1>4, <1>6, <2>1, <2>2, <2>3 DEF AutoClose
<1>7. CASE CancelLote(p)
  <2> DEFINE new == [row EXCEPT !.status = "CANCELLED"]
  <2>1. new \in LoteRow /\ new.status = "CANCELLED" /\ new.ends = row.ends
    BY <1>2 DEF LoteRow, LoteStatus
  <2>2. <<row.status, "CANCELLED">> \in LoteMoves /\ Update(p, new)
    BY <1>7 DEF CancelLote, CanCancelLote
  <2> QED  BY <1>2, <1>3, <2>1, <2>2
<1>8. CASE Requeue(p)
  <2> DEFINE new == [row EXCEPT !.status = "PENDING", !.base = req[p].arg, !.final = NULL,
                                !.order = seen[p].order, !.round = row.round + 1]
  <2>1. row.round + 1 \in Nat
    BY <1>2 DEF LoteRow
  <2>2. new \in LoteRow /\ new.status = "PENDING" /\ new.ends = row.ends
    BY <1>2, <2>1 DEF LoteRow, LoteStatus, Nullable
  <2>3. <<row.status, "PENDING">> \in LoteMoves /\ Update(p, new)
    BY <1>8 DEF Requeue, CanRequeue
  <2> QED  BY <1>2, <1>3, <2>2, <2>3
<1> QED  BY <1>5, <1>6, <1>7, <1>8

\* The other steps leave the status of every lote alone.
LEMMA StatusKept ==
    ASSUME LockInv, [Next]_vars, NEW l \in Lotes,
           \A p \in Procs : ~(Open(p) \/ Close(p) \/ CancelLote(p) \/ Requeue(p) \/ AutoClose(p))
    PROVE  lote'[l].status = lote[l].status
<1>1. CASE lote' = lote
  BY <1>1
<1>2. ASSUME NEW p \in Procs, NEW new, Update(p, new), new.status = seen[p].row.status
      PROVE  lote'[l].status = lote[l].status
  BY <1>2 DEF Update, Flush, Column, LockInv, TypeOK
<1>3. ASSUME NEW p \in Procs, AcceptBid(p) PROVE lote'[l].status = lote[l].status
  <2>1. [seen[p].row EXCEPT !.ends = seen[p].at + Extension].status = seen[p].row.status
    BY DEF LockInv, TypeOK, Reading, LoteRow
  <2> QED  BY <1>1, <1>2, <1>3, <2>1 DEF AcceptBid
<1>4. ASSUME NEW p \in Procs, AdjustTimer(p) PROVE lote'[l].status = lote[l].status
  <2>1. Adjusted(req[p].kind, seen[p].row, req[p].arg, seen[p].at).status = seen[p].row.status
    BY <1>4 DEF AdjustTimer, Adjusted, TimerKinds, LockInv, TypeOK, Reading, LoteRow
  <2> QED  BY <1>2, <1>4, <2>1 DEF AdjustTimer
<1>5. \/ lote' = lote
      \/ \E p \in Procs : AcceptBid(p) \/ AdjustTimer(p)
  <2>1. CASE (\E w \in Workers : Arrive(w)) \/ BeginAutoClose
    BY <2>1, ArrivalBegins DEF Begin, FindsVacant, ChooseNext, data
  <2>2. CASE \E p \in Procs : Serve(p)
    BY <2>2 DEF Serve, Acquire, RejectBid, DuplicateBid, ChangeRemate, Refuse, data
  <2>3. CASE Tick \/ Quiet \/ UNCHANGED vars
    BY <2>3 DEF Tick, Quiet, vars, data
  <2> QED  BY <2>1, <2>2, <2>3 DEF Next
<1> QED  BY <1>1, <1>3, <1>4, <1>5

\* Who serves what, when it has read, and which deadline stands after an extension.
ClockInv ==
    /\ \A p \in Procs : pc[p] = "idle" => req[p].kind = "none"
    /\ req[Scheduler].kind \in {"none", "auto_close"}
    /\ \A p \in Procs : seen[p].at <= now
    /\ \A l \in Lotes : extended[l] # NULL => lote[l].ends \in {extended[l], NULL}

\* An arrival reads the clock, and only the scheduler's tick is an automatic close.
LEMMA ArrivalKeepsClock ==
    ASSUME LockInv, ClockInv, (\E w \in Workers : Arrive(w)) \/ BeginAutoClose
    PROVE  ClockInv'
<1>1. PICK p \in Procs : /\ pc'[p] # "idle"
                         /\ \A q \in Procs \ {p} : /\ pc'[q] = pc[q] /\ req'[q] = req[q]
                                                  /\ seen'[q] = seen[q]
  BY ArrivalReads DEF LockInv
<1>2. now \in Nat /\ UNCHANGED <<now, lote, extended>>
  BY ArrivalReads DEF LockInv, TypeOK, data
<1>3. \A q \in Procs : seen'[q].at <= now
  <2>1. ASSUME NEW w \in Workers, Arrive(w)
        PROVE  \/ \E at \in {0, now} : \E r, row : Begin(w, r, row, at)
               \/ FindsVacant(w) \/ ChooseNext(w)
    BY <2>1 DEF Arrive, BeginBid, BeginLocked, BeginOpenNext, BeginTimer, BeginRemate
  <2>2. CASE BeginAutoClose
    BY <1>2, <2>2 DEF BeginAutoClose, Begin, NoSeen, ClockInv, LockInv, TypeOK
  <2>3. ASSUME NEW w \in Procs, NEW at \in {0, now}, \E r, row : Begin(w, r, row, at)
        PROVE  \A q \in Procs : seen'[q].at <= now
    BY <1>2, <2>3 DEF Begin, NoSeen, ClockInv, LockInv, TypeOK
  <2>4. ASSUME NEW w \in Procs, FindsVacant(w) \/ ChooseNext(w)
        PROVE  \A q \in Procs : seen'[q].at <= now
    <3>1. ASSUME NEW q \in Procs PROVE seen'[q].at \in {seen[q].at, now}
      <4>1. CASE FindsVacant(w)
        BY <4>1 DEF FindsVacant
      <4>2. CASE ChooseNext(w)
        <5>1. PICK l \in Lotes :
                seen' = [seen EXCEPT ![w] = [@ EXCEPT !.row = lote[l], !.at = now]]
          BY <4>2 DEF ChooseNext
        <5>2. /\ seen[w] \in Reading /\ seen \in [Procs -> Reading]
              /\ [seen[w] EXCEPT !.row = lote[l], !.at = now].at = now
          BY DEF LockInv, TypeOK, Reading
        <5> QED  BY <5>1, <5>2
      <4> QED  BY <2>4, <4>1, <4>2
    <3> QED  BY <1>2, <3>1 DEF ClockInv
  <2>5. ASSUME NEW w \in Workers, Arrive(w) PROVE \A q \in Procs : seen'[q].at <= now
    <3>1. w \in Procs
      BY DEF Procs
    <3>2. CASE \E at \in {0, now} : \E r, row : Begin(w, r, row, at)
      BY <2>3, <3>1, <3>2
    <3> QED  BY <2>1, <2>4, <2>5, <3>1, <3>2
  <2> QED  BY <2>2, <2>5
<1>4. req'[Scheduler].kind \in {"none", "auto_close"}
  <2>1. CASE BeginAutoClose
    BY <2>1 DEF BeginAutoClose, Begin, Ask, LockInv, TypeOK, Procs
  <2>2. ASSUME NEW w \in Workers, Arrive(w) PROVE req'[Scheduler] = req[Scheduler]
    <3>1. w # Scheduler
      BY ProcsAssumption
    <3> QED  BY <2>2, <3>1 DEF Arrive, BeginBid, BeginLocked, BeginOpenNext, BeginTimer,
                BeginRemate, Begin, FindsVacant, ChooseNext, LockInv, TypeOK, Procs
  <2> QED  BY <2>1, <2>2 DEF ClockInv
<1> QED  BY <1>1, <1>2, <1>3, <1>4 DEF ClockInv

\* A handler ends with no request, or acquires a row and reads the clock.
LEMMA ServeKeepsProcs ==
    ASSUME LockInv, ClockInv, NEW p \in Procs, Serve(p)
    PROVE  /\ \A q \in Procs : pc'[q] = "idle" => req'[q].kind = "none"
           /\ req'[Scheduler].kind \in {"none", "auto_close"}
           /\ \A q \in Procs : seen'[q].at <= now'
<1>1. now' = now /\ now \in Nat
  BY DEF LockInv, TypeOK, Serve, Acquire, AcceptBid, RejectBid, DuplicateBid, Open, Close,
         CancelLote, Requeue, AutoClose, AdjustTimer, ChangeRemate, Refuse
<1>2. CASE Done(p)
  BY <1>1, <1>2 DEF Done, NoReq, NoSeen, ClockInv, LockInv, TypeOK, Procs
<1>3. CASE Acquire(p)
  BY <1>1, <1>3 DEF Acquire, ClockInv, LockInv, TypeOK, Procs
<1> QED  BY <1>2, <1>3 DEF Serve, AcceptBid, RejectBid, DuplicateBid, Open, Close, CancelLote,
                          Requeue, AutoClose, AdjustTimer, ChangeRemate, Refuse

\* A deadline that a bid has extended stands until someone sets the countdown again.
LEMMA ServeKeepsDeadlines ==
    ASSUME LockInv, ClockInv, NEW p \in Procs, Serve(p), NEW l \in Lotes, extended'[l] # NULL
    PROVE  lote'[l].ends \in {extended'[l], NULL}
<1>1. CASE lote' = lote /\ extended' = extended
  BY <1>1 DEF ClockInv
<1>2. CASE AcceptBid(p)
  <2> DEFINE new == [seen[p].row EXCEPT !.ends = seen[p].at + Extension]
  <2>1. /\ pc[p] = "locked" /\ req[p].lote \in Lotes /\ seen[p].row \in LoteRow
        /\ seen[p].at + Extension \in Nat
    BY <1>2, LockedLote, DataAssumption DEF AcceptBid, LockInv
  <2>2. new \in LoteRow /\ new.ends = seen[p].at + Extension
    BY <2>1 DEF LoteRow, Nullable
  <2>3. CASE /\ Update(p, new)
             /\ extended' = [extended EXCEPT ![req[p].lote] = seen[p].at + Extension]
    <3>1. lote' = [lote EXCEPT ![req[p].lote] = new]
      BY <2>1, <2>2, <2>3, LockedUpdate
    <3> QED  BY <2>1, <2>2, <2>3, <3>1 DEF ClockInv, LockInv, TypeOK
  <2> QED  BY <1>1, <1>2, <2>3 DEF AcceptBid
<1>3. CASE Open(p)
  BY <1>3 DEF Open, Update, ClockInv, LockInv, TypeOK
<1>4. CASE AdjustTimer(p)
  <2>1. CASE req[p].kind # "timer_auto"
    BY <1>4, <2>1 DEF AdjustTimer, Update, ClockInv, LockInv, TypeOK
  <2>2. CASE req[p].kind = "timer_auto"
    <3> DEFINE new == [seen[p].row EXCEPT !.auto = (req[p].arg = 1)]
    <3>1. new.ends = seen[p].row.ends
      BY DEF LockInv, TypeOK, Reading, LoteRow
    <3>2. Flush(lote[req[p].lote], seen[p].row, new, req[p].kind).ends = lote[req[p].lote].ends
      BY <2>2, <3>1 DEF Flush, Column, Rearms
    <3>3. Update(p, new) /\ extended' = extended
      BY <1>4, <2>2 DEF AdjustTimer, Adjusted
    <3> QED  BY <3>2, <3>3 DEF Update, ClockInv, LockInv, TypeOK
  <2> QED  BY <2>1, <2>2
<1>5. CASE Close(p) \/ CancelLote(p) \/ Requeue(p) \/ AutoClose(p)
  <2>1. extended' = extended
    BY <1>5 DEF Close, CancelLote, Requeue, AutoClose
  <2> QED  BY <1>5, <2>1, LockedMove DEF ClockInv, LockInv, TypeOK
<1> QED  BY <1>1, <1>2, <1>3, <1>4, <1>5 DEF Serve, Acquire, RejectBid, DuplicateBid,
                                            ChangeRemate, Refuse, data

\* The invariant of the clock is inductive.
LEMMA ClockInvStep == LockInv /\ ClockInv /\ [Next]_vars => ClockInv'
<1> SUFFICES ASSUME LockInv, ClockInv, [Next]_vars PROVE ClockInv'
  OBVIOUS
<1>1. CASE (\E w \in Workers : Arrive(w)) \/ BeginAutoClose
  BY <1>1, ArrivalKeepsClock
<1>2. CASE \E p \in Procs : Serve(p)
  BY <1>2, ServeKeepsProcs, ServeKeepsDeadlines DEF ClockInv
<1>3. CASE Tick
  BY <1>3 DEF Tick, data, ClockInv, LockInv, TypeOK, Reading
<1>4. CASE Quiet \/ UNCHANGED vars
  BY <1>4 DEF Quiet, vars, ClockInv
<1> QED  BY <1>1, <1>2, <1>3, <1>4 DEF Next

\* At first the scheduler is idle and no deadline has been extended.
LEMMA ClockInvInit == Init => ClockInv
<1> SUFFICES ASSUME Init PROVE ClockInv
  OBVIOUS
<1> QED  BY DEF Init, ClockInv, NoReq, NoSeen, Procs

\* A lote leaves its transition table only where open_next commits on its unlocked read.
THEOREM TableIsKept == Spec => TableBrokenOnlyByOpenNext
<1>1. LockInv /\ ClockInv /\ [Next]_vars =>
        [\A l \in Lotes :
           lote'[l].status # lote[l].status =>
              \/ <<lote[l].status, lote'[l].status>> \in LoteMoves
              \/ \E w \in Workers : req[w].kind = "open_next" /\ req[w].lote = l
                                    /\ pc[w] = "read" /\ pc'[w] = "idle"]_vars
  <2> SUFFICES ASSUME LockInv, ClockInv, [Next]_vars, NEW l \in Lotes,
                      lote'[l].status # lote[l].status
               PROVE  \/ <<lote[l].status, lote'[l].status>> \in LoteMoves
                      \/ \E w \in Workers : req[w].kind = "open_next" /\ req[w].lote = l
                                            /\ pc[w] = "read" /\ pc'[w] = "idle"
    OBVIOUS
  <2>1. ASSUME NEW p \in Procs, Close(p) \/ CancelLote(p) \/ Requeue(p) \/ AutoClose(p)
        PROVE  <<lote[l].status, lote'[l].status>> \in LoteMoves
    BY <2>1, LockedMove DEF LockInv, TypeOK
  <2>2. ASSUME NEW p \in Procs, Open(p), pc[p] = "locked"
        PROVE  <<lote[l].status, lote'[l].status>> \in LoteMoves
    <3> DEFINE new == Opened(seen[p].row, seen[p].at)
    <3>1. /\ req[p].lote \in Lotes /\ seen[p].row = lote[req[p].lote]
          /\ seen[p].row \in LoteRow /\ new \in LoteRow
      BY <2>2, LockedLote, RowTypes DEF LockInv, LockedReadsAreCurrent
    <3>2. new.status = "OPEN"
      BY <3>1 DEF Opened, LoteRow
    <3>3. <<seen[p].row.status, "OPEN">> \in LoteMoves
      BY <2>2 DEF Open, CanOpen
    <3>4. lote' = [lote EXCEPT ![req[p].lote] = new]
      BY <2>2, <3>1, LockedUpdate DEF Open
    <3> QED  BY <3>1, <3>2, <3>3, <3>4 DEF LockInv, TypeOK
  <2>3. ASSUME NEW p \in Procs, Open(p), pc[p] # "locked"
        PROVE  \E w \in Workers : req[w].kind = "open_next" /\ req[w].lote = l
                                  /\ pc[w] = "read" /\ pc'[w] = "idle"
    <3>1. pc[p] = "read" /\ req[p].kind = "open_next"
      BY <2>3 DEF Open, CanOpen
    <3>2. p \in Workers
      BY <3>1 DEF ClockInv, Procs
    <3>3. req[p].lote = l
      BY <2>3 DEF Open, Update, LockInv, TypeOK
    <3>4. pc'[p] = "idle"
      BY <2>3 DEF Open, Done, LockInv, TypeOK
    <3> QED  BY <3>1, <3>2, <3>3, <3>4
  <2> QED  BY <2>1, <2>2, <2>3, StatusKept
<1> QED  BY <1>1, LockInvInit, LockInvStep, ClockInvInit, ClockInvStep, PTL
         DEF Spec, TableBrokenOnlyByOpenNext

\* The clock closes a lote only past its committed deadline, and never before the one
\* that a bid has extended.
THEOREM ExtensionsAreHonoured == Spec => ClockHonoursExtensions
<1>1. LockInv /\ ClockInv /\ [Next]_vars =>
        [\A l \in Lotes : ClosesByClock(l) =>
            /\ IsExpired(lote[l], now)
            /\ extended[l] = NULL \/ extended[l] <= now]_vars
  <2> SUFFICES ASSUME LockInv, ClockInv, [Next]_vars, NEW l \in Lotes, ClosesByClock(l)
               PROVE  /\ IsExpired(lote[l], now)
                      /\ extended[l] = NULL \/ extended[l] <= now
    OBVIOUS
  <2>1. /\ req[Scheduler].kind = "auto_close" /\ req[Scheduler].lote = l
        /\ pc[Scheduler] # "idle" /\ pc'[Scheduler] = "idle" /\ Scheduler \in Procs
        /\ lote' # lote
    BY DEF ClosesByClock, ClockInv, Procs
  <2>2. Serve(Scheduler)
    <3>1. ASSUME NEW p \in Procs, Serve(p), p # Scheduler PROVE FALSE
      <4>1. pc'[Scheduler] = pc[Scheduler]
        <5>1. CASE Done(p)
          BY <2>1, <3>1, <5>1 DEF Done, LockInv, TypeOK
        <5>2. CASE Acquire(p)
          BY <2>1, <3>1, <5>2 DEF Acquire, LockInv, TypeOK
        <5> QED  BY <3>1, <5>1, <5>2 DEF Serve, AcceptBid, RejectBid, DuplicateBid, Open, Close,
                      CancelLote, Requeue, AutoClose, AdjustTimer, ChangeRemate, Refuse
      <4> QED  BY <2>1, <4>1
    <3>2. CASE (\E w \in Workers : Arrive(w)) \/ BeginAutoClose
      BY <2>1, <3>2, ArrivalBegins DEF Begin, FindsVacant, ChooseNext, data
    <3>3. CASE Tick \/ Quiet \/ UNCHANGED vars
      BY <2>1, <3>3 DEF Tick, Quiet, vars, data
    <3> QED  BY <3>1, <3>2, <3>3 DEF Next
  <2>3. AutoClose(Scheduler)
    BY <2>1, <2>2 DEF Serve, Acquire, AcceptBid, RejectBid, DuplicateBid, Open, CanOpen, Close,
         CanCloseByHand, CancelLote, CanCancelLote, Requeue, CanRequeue, AdjustTimer, TimerKinds,
         ChangeRemate, RemateKinds, Refuse, data
  <2>4. /\ IsExpired(seen[Scheduler].row, seen[Scheduler].at) /\ pc[Scheduler] = "locked"
    BY <2>3 DEF AutoClose, CanAutoClose
  <2>5. seen[Scheduler].row = lote[l] /\ seen[Scheduler].at <= now
    BY <2>1, <2>4 DEF LockInv, LockedReadsAreCurrent, ClockInv
  <2>6. now \in Nat /\ seen[Scheduler].at \in Nat /\ lote[l].ends \in Nullable
    BY <2>1 DEF LockInv, TypeOK, Reading, LoteRow
  <2>7. IsExpired(lote[l], now)
    BY <2>4, <2>5, <2>6 DEF IsExpired, Nullable
  <2>8. extended[l] = NULL \/ extended[l] <= now
    BY <2>7 DEF ClockInv, IsExpired
  <2> QED  BY <2>7, <2>8
<1> QED  BY <1>1, LockInvInit, LockInvStep, ClockInvInit, ClockInvStep, PTL
         DEF Spec, ClockHonoursExtensions

==============================================================================
