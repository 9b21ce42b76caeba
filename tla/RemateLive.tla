------------------------------ MODULE RemateLive ------------------------------
(***************************************************************************)
(* One remate of auction_type LIVE: its lotes, the bids on them, the       *)
(* countdown of each lote, the request handlers that serve buyers and      *)
(* operators, and the background scheduler that closes expired lotes.      *)
(*                                                                         *)
(* A handler is one database transaction.  It is cut where another         *)
(* transaction can commit in between:                                      *)
(*   "idle" --Begin--> "read"   the rows it reads WITHOUT a lock (the      *)
(*                              remate always; the lote too in the         *)
(*                              operator's timer actions);                 *)
(*   "idle" --> "asked" --> "vacant" --> "read"   the three of open_next:  *)
(*                              the remate, its OPEN lote, the next one;   *)
(*   "read" --Acquire--> "locked"   SELECT ... FOR UPDATE of the lote, and *)
(*                              what is read after it;                     *)
(*   "read"/"locked" --commit--> "idle"   one action per outcome, made of  *)
(*                              the decision, the writes and the commit.   *)
(* A decision uses what the transaction READ (`seen`), never the current   *)
(* rows, so a stale read is a behaviour of the model.  A request that an   *)
(* unlocked read already refuses has no effect and does not begin.         *)
(***************************************************************************)
EXTENDS Integers, StateMachines

CONSTANTS
    Lotes,          \* lotes of the remate, each named by its first display_order
    Buyers,         \* compradores allowed to bid (role, active account and guarantee)
    Tokens,         \* client_token values a buyer uses
    Workers,        \* concurrent request handlers
    Scheduler,      \* the process that runs TimerExpiryScheduler.tick
    Offered,        \* kinds of request the environment sends
    Amounts,        \* bid amounts and declared final prices
    Bases,          \* base prices a requeue may set
    BasePrice,      \* base price of every lote when the remate starts
    MinIncrement,   \* min_increment of every lote
    LoteTimer,      \* settings.lote_timer_seconds, 0 when not configured
    Extension,      \* settings.anti_sniping_extension_seconds, 0 when not enabled
    Seconds,        \* values an operator passes to set_remaining
    StartStatus,    \* status of the remate in the initial state
    MaxTime,        \* bound on the clock
    MaxRound,       \* bound on the rounds of a lote
    NoLote, NoKey, NoProc

NULL == -1          \* SQL NULL in a numeric column

Procs == Workers \cup {Scheduler}

\* A bid row is identified by its buyer and client_token: the unique index
\* uq_ofertas_buyer_id_client_token.
Keys == Buyers \X Tokens

LockedKinds == {"bid", "open", "close_sold", "close_unsold", "cancel_lote", "requeue"}
TimerKinds  == {"timer_pause", "timer_resume", "timer_reset", "timer_set", "timer_auto"}
RemateKinds == {"schedule", "start", "pause", "resume", "finish", "cancel"}
Kinds == LockedKinds \cup TimerKinds \cup RemateKinds \cup {"open_next", "auto_close"}

ASSUME ProcsAssumption ==
    /\ Scheduler \notin Workers
    /\ NoProc \notin Procs
    /\ Lotes \subseteq Nat
    /\ NoLote \notin Lotes
    /\ NoKey \notin Keys

ASSUME DataAssumption ==
    /\ Amounts \subseteq Nat \ {0}
    /\ Bases \subseteq Nat \ {0}
    /\ Seconds \subseteq Nat
    /\ BasePrice \in Nat \ {0}
    /\ MinIncrement \in Nat \ {0}
    /\ LoteTimer \in Nat
    /\ Extension \in Nat
    /\ MaxTime \in Nat
    /\ MaxRound \in Nat
    /\ StartStatus \in RemateStatus
    /\ Offered \subseteq Kinds

VARIABLES
    now,        \* the clock, in seconds
    remate,     \* remates.status
    lote,       \* rows of lotes
    ofertas,    \* rows of ofertas, by key
    winner,     \* key of the last LoteWinnerDetermined of each lote, NoKey after any other close
    extended,   \* deadline of the last LoteTimerExtended that nobody has overridden, or NULL
    lock,       \* holder of each lote's row lock
    pc,         \* phase of each process
    req,        \* the request each process serves
    seen        \* what its transaction has read

vars == <<now, remate, lote, ofertas, winner, extended, lock, pc, req, seen>>

Nullable == Nat \cup {NULL}

LoteRow ==
    [status : LoteStatus, base : Nat, final : Nullable, round : Nat, order : Nat,
     ends : Nullable, paused : Nullable, auto : BOOLEAN]

OfertaRow ==
    [status : {"NONE", "ACCEPTED", "OUTBID", "REJECTED"},
     lote : Lotes \cup {NoLote}, amount : Nat]

\* Every request but those about the whole remate names a lote (open_next once it has
\* chosen), and a bid its row.
Request ==
    {r \in [kind : Kinds \cup {"none"}, lote : Lotes \cup {NoLote},
            key : Keys \cup {NoKey}, arg : Nat] :
        /\ r.kind \in RemateKinds \cup {"open_next", "none"} \/ r.lote \in Lotes
        /\ r.kind = "bid" => r.key \in Keys}

Reading ==
    [remate : RemateStatus, row : LoteRow, leaders : SUBSET Keys,
     open : BOOLEAN, order : Nat, at : Nat]

NewLote ==
    [status |-> "PENDING", base |-> BasePrice, final |-> NULL, round |-> 1, order |-> 0,
     ends |-> NULL, paused |-> NULL, auto |-> TRUE]

NoOferta == [status |-> "NONE", lote |-> NoLote, amount |-> 0]
NoReq    == [kind |-> "none", lote |-> NoLote, key |-> NoKey, arg |-> 0]
NoSeen   == [remate |-> StartStatus, row |-> NewLote, leaders |-> {},
             open |-> FALSE, order |-> 0, at |-> 0]

------------------------------------------------------------------------------
(* Reads.                                                                   *)

\* get_leading_offer: the ACCEPTED oferta of the lote, whatever its round.
Leaders(l) == {k \in Keys : ofertas[k].lote = l /\ ofertas[k].status = "ACCEPTED"}

\* has_open_lote.
HasOpenLote == \E l \in Lotes : lote[l].status = "OPEN"

\* get_next_pending_lote: a PENDING lote of least display_order.
IsNextPending(l) ==
    /\ lote[l].status = "PENDING"
    /\ \A m \in Lotes : lote[m].status = "PENDING" => lote[l].order <= lote[m].order

\* next_display_order: one more than the greatest.
IsNextOrder(n) ==
    /\ \E m \in Lotes : n = lote[m].order + 1
    /\ \A m \in Lotes : lote[m].order < n

\* The candidates of list_expired_open_lote_ids.
IsExpired(row, t) ==
    row.status = "OPEN" /\ row.ends # NULL /\ row.ends <= t /\ row.auto

------------------------------------------------------------------------------
(* Writes.                                                                  *)

\* The ORM's UPDATE names only the columns whose value differs from the one it
\* loaded; every other column keeps what is committed by now.
Column(loaded, new, current) == IF new = loaded THEN current ELSE new

\* The handler computes a new timer_ends_at.  Instants have microseconds: it is
\* never the one that was loaded, and the column is always written.
Rearms(kind, row) ==
    \/ kind \in {"timer_resume", "timer_reset"}
    \/ kind = "timer_set" /\ row.ends # NULL
    \/ kind \in {"open", "open_next"} /\ LoteTimer # 0

Flush(current, loaded, new, kind) ==
    [status |-> Column(loaded.status, new.status, current.status),
     base   |-> Column(loaded.base, new.base, current.base),
     final  |-> Column(loaded.final, new.final, current.final),
     round  |-> Column(loaded.round, new.round, current.round),
     order  |-> Column(loaded.order, new.order, current.order),
     ends   |-> IF Rearms(kind, loaded) THEN new.ends
                ELSE Column(loaded.ends, new.ends, current.ends),
     paused |-> Column(loaded.paused, new.paused, current.paused),
     auto   |-> Column(loaded.auto, new.auto, current.auto)]

Update(p, new) ==
    lote' = [lote EXCEPT ![req[p].lote] =
                Flush(lote[req[p].lote], seen[p].row, new, req[p].kind)]

\* An UPDATE waits while another transaction holds the row.
Writable(p) == lock[req[p].lote] \in {p, NoProc}

\* (variant) A duplicated bid answers without rolling its transaction back.
Done_NoRollback(p) ==
    /\ pc'   = [pc EXCEPT ![p] = "idle"]
    /\ req'  = [req EXCEPT ![p] = NoReq]
    /\ seen' = [seen EXCEPT ![p] = NoSeen]
    /\ lock' = [l \in Lotes |->
          IF lock[l] = p /\ ~(req[p].kind = "bid" /\ ofertas[req[p].key].status # "NONE")
          THEN NoProc ELSE lock[l]]

\* End of the transaction: its locks are released.
Done(p) ==
    /\ pc'   = [pc EXCEPT ![p] = "idle"]
    /\ req'  = [req EXCEPT ![p] = NoReq]
    /\ seen' = [seen EXCEPT ![p] = NoSeen]
    /\ lock' = [l \in Lotes |-> IF lock[l] = p THEN NoProc ELSE lock[l]]

------------------------------------------------------------------------------
Init ==
    /\ now = 0
    /\ remate = StartStatus
    /\ lote = [l \in Lotes |-> [NewLote EXCEPT !.order = l]]
    /\ ofertas = [k \in Keys |-> NoOferta]
    /\ winner = [l \in Lotes |-> NoKey]
    /\ extended = [l \in Lotes |-> NULL]
    /\ lock = [l \in Lotes |-> NoProc]
    /\ pc = [p \in Procs |-> "idle"]
    /\ req = [p \in Procs |-> NoReq]
    /\ seen = [p \in Procs |-> NoSeen]

data == <<remate, lote, ofertas, winner, extended>>

------------------------------------------------------------------------------
(* Begin: the unlocked reads, and the early returns they decide.            *)

Begin(p, r, row, at) ==
    /\ pc[p] = "idle"
    /\ pc'   = [pc EXCEPT ![p] = IF r.kind = "open_next" THEN "asked" ELSE "read"]
    /\ req'  = [req EXCEPT ![p] = r]
    /\ seen' = [seen EXCEPT ![p] = [NoSeen EXCEPT !.remate = remate, !.row = row, !.at = at]]
    /\ UNCHANGED <<now, lock, data>>

Ask(kind, l, n) == [kind |-> kind, lote |-> l, key |-> NoKey, arg |-> n]

\* place_bid: an oferta of this buyer, token and lote is returned as it is.
BeginBid(p) ==
    /\ "bid" \in Offered /\ remate # "DRAFT"
    /\ \E l \in Lotes, k \in Keys, a \in Amounts :
        /\ ofertas[k].lote # l
        /\ Begin(p, [kind |-> "bid", lote |-> l, key |-> k, arg |-> a], NewLote, 0)

\* open, close, cancel and requeue of a lote: the remate's status is checked
\* after the lock, but on the value read here.
BeginLocked(p) ==
    \E l \in Lotes :
        \/ /\ "open" \in Offered /\ remate = "LIVE"
           /\ Begin(p, Ask("open", l, 0), NewLote, 0)
        \/ /\ remate \in {"LIVE", "PAUSED"}
           /\ \/ \E a \in Amounts :
                    /\ "close_sold" \in Offered
                    /\ Begin(p, Ask("close_sold", l, a), NewLote, 0)
              \/ \E kind \in {"close_unsold", "cancel_lote"} \cap Offered :
                    Begin(p, Ask(kind, l, 0), NewLote, 0)
              \/ \E b \in Bases :
                    /\ "requeue" \in Offered /\ lote[l].round < MaxRound
                    /\ Begin(p, Ask("requeue", l, b), NewLote, 0)

\* open_next reads the remate, then whether a lote is OPEN, then the lote it opens: each
\* by a statement of its own, and nothing under a lock.
BeginOpenNext(p) ==
    /\ "open_next" \in Offered /\ remate = "LIVE"
    /\ Begin(p, Ask("open_next", NoLote, 0), NewLote, 0)

FindsVacant(p) ==
    /\ pc[p] = "asked" /\ ~HasOpenLote
    /\ pc' = [pc EXCEPT ![p] = "vacant"]
    /\ UNCHANGED <<now, lock, data, req, seen>>

ChooseNext(p) ==
    \E l \in Lotes :
        /\ pc[p] = "vacant" /\ IsNextPending(l)
        /\ pc'   = [pc EXCEPT ![p] = "read"]
        /\ req'  = [req EXCEPT ![p] = Ask("open_next", l, 0)]
        /\ seen' = [seen EXCEPT ![p] = [@ EXCEPT !.row = lote[l], !.at = now]]
        /\ UNCHANGED <<now, lock, data>>

\* _get_owned_lote_with_timer: an OPEN lote with a timer, read without a lock.
BeginTimer(p) ==
    \E l \in Lotes, kind \in TimerKinds \cap Offered, n \in Seconds \cup {0, 1} :
        /\ lote[l].status = "OPEN"
        /\ lote[l].ends # NULL \/ lote[l].paused # NULL
        /\ CASE kind = "timer_pause"  -> lote[l].ends # NULL /\ n = 0
             [] kind = "timer_resume" -> lote[l].paused # NULL /\ n = 0
             [] kind = "timer_reset"  -> LoteTimer # 0 /\ n = 0
             [] kind = "timer_set"    -> n \in Seconds
             [] kind = "timer_auto"   -> n \in {0, 1}
        /\ Begin(p, Ask(kind, l, n), lote[l], now)

\* The status a remate action asks for.
Target(kind) ==
    CASE kind = "schedule" -> "SCHEDULED"
      [] kind \in {"start", "resume"} -> "LIVE"
      [] kind = "pause"  -> "PAUSED"
      [] kind = "finish" -> "FINISHED"
      [] kind = "cancel" -> "CANCELLED"

BeginRemate(p) ==
    \E kind \in RemateKinds \cap Offered :
        /\ <<remate, Target(kind)>> \in RemateMoves
        /\ kind = "start" => Lotes # {}
        /\ kind = "finish" => ~HasOpenLote
        /\ Begin(p, Ask(kind, NoLote, 0), NewLote, 0)

\* TimerExpiryScheduler.tick lists its candidates without locking them.
BeginAutoClose ==
    \E l \in Lotes :
        /\ IsExpired(lote[l], now)
        /\ Begin(Scheduler, Ask("auto_close", l, 0), NewLote, 0)

------------------------------------------------------------------------------
(* Acquire: get_by_id_for_update, then what the handler reads holding it.   *)

\* (variant) get_by_id in the place of get_by_id_for_update.
LockRow_NoLock(p) == UNCHANGED lock

\* SELECT ... FOR UPDATE waits for the row and returns its last committed version.
LockRow(p) ==
    /\ lock[req[p].lote] = NoProc
    /\ lock' = [lock EXCEPT ![req[p].lote] = p]

Acquire(p) ==
    /\ pc[p] = "read"
    /\ req[p].kind \in LockedKinds \cup {"auto_close"}
    /\ LockRow(p)
    /\ pc' = [pc EXCEPT ![p] = "locked"]
    /\ \E n \in {m.order + 1 : m \in {lote[l] : l \in Lotes}} :
        /\ IsNextOrder(n)
        /\ seen' = [seen EXCEPT ![p] =
              [remate  |-> IF req[p].kind = "auto_close" THEN remate ELSE @.remate,
               row     |-> lote[req[p].lote],
               leaders |-> IF req[p].kind \in {"bid", "auto_close"}
                           THEN Leaders(req[p].lote) ELSE {},
               open    |-> req[p].kind = "open" /\ HasOpenLote,
               order   |-> IF req[p].kind = "requeue" THEN n ELSE 0,
               at      |-> now]]
    /\ UNCHANGED <<now, data, req>>

------------------------------------------------------------------------------
(* place_bid.                                                               *)

\* (variant) The minimum of a later bid forgets the leading oferta.
BidIsValid_NoIncrement(p) ==
    seen[p].remate = "LIVE" /\ seen[p].row.status = "OPEN" /\ req[p].arg >= seen[p].row.base

\* (variant) The status of the lote is not checked.
BidIsValid_AnyStatus(p) ==
    /\ seen[p].remate = "LIVE"
    /\ IF seen[p].leaders = {}
       THEN req[p].arg >= seen[p].row.base
       ELSE \A k \in seen[p].leaders : req[p].arg >= ofertas[k].amount + MinIncrement

\* _first_rejection_reason finds none.
BidIsValid(p) ==
    /\ seen[p].remate = "LIVE"
    /\ seen[p].row.status = "OPEN"
    /\ IF seen[p].leaders = {}
       THEN req[p].arg >= seen[p].row.base
       ELSE \A k \in seen[p].leaders : req[p].arg >= ofertas[k].amount + MinIncrement

\* (variant) Without the index, the row of an earlier bid is written over.
TokenIsFree_NoIndex(k) == TRUE

\* uq_ofertas_buyer_id_client_token.
TokenIsFree(k) == ofertas[k].status = "NONE"

\* maybe_extend_for_bid: a bid in the window moves the deadline.
InWindow(row, at) == Extension # 0 /\ row.ends # NULL /\ row.ends - at <= Extension

AcceptBid(p) ==
    LET r == req[p]  row == seen[p].row  ends == seen[p].at + Extension IN
    /\ pc[p] = "locked" /\ r.kind = "bid"
    /\ BidIsValid(p)
    /\ TokenIsFree(r.key)
    /\ ofertas' = [k \in Keys |->
          IF k = r.key THEN [status |-> "ACCEPTED", lote |-> r.lote, amount |-> r.arg]
          ELSE IF k \in seen[p].leaders THEN [ofertas[k] EXCEPT !.status = "OUTBID"]
          ELSE ofertas[k]]
    /\ IF InWindow(row, seen[p].at)
       THEN /\ Update(p, [row EXCEPT !.ends = ends])
            /\ extended' = [extended EXCEPT ![r.lote] = ends]
       ELSE UNCHANGED <<lote, extended>>
    /\ Done(p)
    /\ UNCHANGED <<now, remate, winner>>

RejectBid(p) ==
    LET r == req[p] IN
    /\ pc[p] = "locked" /\ r.kind = "bid"
    /\ ~BidIsValid(p)
    /\ TokenIsFree(r.key)
    /\ ofertas' = [ofertas EXCEPT ![r.key] =
                      [status |-> "REJECTED", lote |-> r.lote, amount |-> r.arg]]
    /\ Done(p)
    /\ UNCHANGED <<now, remate, lote, winner, extended>>

\* _save: the unique index refuses the row; the transaction rolls back and the
\* answer is the oferta that is there, or a conflict when it is of another lote.
DuplicateBid(p) ==
    /\ pc[p] = "locked" /\ req[p].kind = "bid"
    /\ ~TokenIsFree(req[p].key)
    /\ Done(p)
    /\ UNCHANGED <<now, data>>

------------------------------------------------------------------------------
(* LoteService.                                                             *)

\* start_for_lote, and the columns open and open_next assign.
Opened(row, at) ==
    IF LoteTimer = 0
    THEN [row EXCEPT !.status = "OPEN"]
    ELSE [row EXCEPT !.status = "OPEN", !.ends = at + LoteTimer, !.paused = NULL, !.auto = TRUE]

\* (variant) Without the index.
OpenIndexAdmits_NoIndex(l) == TRUE

\* uq_lotes_remate_id_open_status: at most one OPEN lote in a LIVE-type remate.
OpenIndexAdmits(l) == \A m \in Lotes \ {l} : lote[m].status # "OPEN"

CanOpen(p) ==
    /\ \/ /\ pc[p] = "locked" /\ req[p].kind = "open"
          /\ ~seen[p].open
          /\ <<seen[p].row.status, "OPEN">> \in LoteMoves
       \/ pc[p] = "read" /\ req[p].kind = "open_next"
    /\ OpenIndexAdmits(req[p].lote)

Open(p) ==
    /\ CanOpen(p)
    /\ Writable(p)
    /\ Update(p, Opened(seen[p].row, seen[p].at))
    /\ extended' = [extended EXCEPT ![req[p].lote] = NULL]
    /\ Done(p)
    /\ UNCHANGED <<now, remate, ofertas, winner>>

\* (variant) A sale below the base price is not refused.
CanClose_NoBase(row, target, price) == <<row.status, target>> \in LoteMoves

\* _apply_close with its outcome and price.
CanClose(row, target, price) ==
    /\ <<row.status, target>> \in LoteMoves
    /\ target = "CLOSED_SOLD" => price >= row.base

Closed(row, target, price) ==
    [row EXCEPT !.status = target, !.final = price, !.ends = NULL, !.paused = NULL]

CloseTarget(kind) == IF kind = "close_sold" THEN "CLOSED_SOLD" ELSE "CLOSED_UNSOLD"

CanCloseByHand(p) ==
    /\ pc[p] = "locked" /\ req[p].kind \in {"close_sold", "close_unsold"}
    /\ CanClose(seen[p].row, CloseTarget(req[p].kind), req[p].arg)

Close(p) ==
    LET r == req[p] IN
    /\ CanCloseByHand(p)
    /\ Update(p, Closed(seen[p].row, CloseTarget(r.kind),
                        IF r.kind = "close_sold" THEN r.arg ELSE NULL))
    /\ winner' = [winner EXCEPT ![r.lote] = NoKey]
    /\ Done(p)
    /\ UNCHANGED <<now, remate, ofertas, extended>>

\* (variant) The table is not consulted.
CanCancelLote_AnyStatus(p) == pc[p] = "locked" /\ req[p].kind = "cancel_lote"

CanCancelLote(p) ==
    /\ pc[p] = "locked" /\ req[p].kind = "cancel_lote"
    /\ <<seen[p].row.status, "CANCELLED">> \in LoteMoves

CancelLote(p) ==
    /\ CanCancelLote(p)
    /\ Update(p, [seen[p].row EXCEPT !.status = "CANCELLED"])
    /\ Done(p)
    /\ UNCHANGED <<now, remate, ofertas, winner, extended>>

CanRequeue(p) ==
    /\ pc[p] = "locked" /\ req[p].kind = "requeue"
    /\ <<seen[p].row.status, "PENDING">> \in LoteMoves

\* requeue and requeue_preset: a new round, at the end of the queue.  The
\* ACCEPTED oferta of the round that ends is not touched.
Requeue(p) ==
    LET row == seen[p].row IN
    /\ CanRequeue(p)
    /\ Update(p, [row EXCEPT !.status = "PENDING", !.base = req[p].arg, !.final = NULL,
                             !.order = seen[p].order, !.round = row.round + 1])
    /\ Done(p)
    /\ UNCHANGED <<now, remate, ofertas, winner, extended>>

------------------------------------------------------------------------------
(* TimerExpiryScheduler._try_close_one and LoteService.auto_close.          *)

\* The price of the leading oferta, NULL when there is none.
LeadingPrice(leaders) ==
    IF leaders = {} THEN NULL ELSE ofertas[CHOOSE k \in leaders : TRUE].amount

AutoTarget(leaders) == IF leaders = {} THEN "CLOSED_UNSOLD" ELSE "CLOSED_SOLD"

\* (variant) The lote is not checked again under its lock.
CanAutoClose_NoRevalidation(p) ==
    LET s == seen[p] IN
    /\ pc[p] = "locked" /\ req[p].kind = "auto_close" /\ s.remate = "LIVE"
    /\ CanClose(s.row, AutoTarget(s.leaders), LeadingPrice(s.leaders))

CanAutoClose(p) ==
    LET s == seen[p] IN
    /\ pc[p] = "locked" /\ req[p].kind = "auto_close"
    /\ IsExpired(s.row, s.at) /\ s.remate = "LIVE"
    /\ CanClose(s.row, AutoTarget(s.leaders), LeadingPrice(s.leaders))

AutoClose(p) ==
    LET s == seen[p] IN
    /\ CanAutoClose(p)
    /\ Update(p, Closed(s.row, AutoTarget(s.leaders), LeadingPrice(s.leaders)))
    /\ winner' = [winner EXCEPT ![req[p].lote] =
                     IF s.leaders = {} THEN NoKey ELSE CHOOSE k \in s.leaders : TRUE]
    /\ Done(p)
    /\ UNCHANGED <<now, remate, ofertas, extended>>

------------------------------------------------------------------------------
(* TimerService: the operator's actions on a countdown.                     *)

\* (variant) The remaining seconds are not clamped.
Max0_Signed(n) == n

Max0(n) == IF n < 0 THEN 0 ELSE n

\* The row as the action leaves it in memory, `at` being the instant of its read.
Adjusted(kind, row, n, at) ==
    CASE kind = "timer_pause"  -> [row EXCEPT !.paused = Max0(row.ends - at), !.ends = NULL]
      [] kind = "timer_resume" -> [row EXCEPT !.ends = at + row.paused, !.paused = NULL]
      [] kind = "timer_reset"  -> [row EXCEPT !.ends = at + LoteTimer, !.paused = NULL]
      [] kind = "timer_set"    -> IF row.ends # NULL THEN [row EXCEPT !.ends = at + n]
                                                     ELSE [row EXCEPT !.paused = n]
      [] kind = "timer_auto"   -> [row EXCEPT !.auto = (n = 1)]

AdjustTimer(p) ==
    LET r == req[p] IN
    /\ pc[p] = "read" /\ r.kind \in TimerKinds
    /\ Writable(p)
    /\ Update(p, Adjusted(r.kind, seen[p].row, r.arg, seen[p].at))
    /\ extended' = IF r.kind = "timer_auto" THEN extended
                                            ELSE [extended EXCEPT ![r.lote] = NULL]
    /\ Done(p)
    /\ UNCHANGED <<now, remate, ofertas, winner>>

------------------------------------------------------------------------------
(* RemateService: schedule, start, pause, resume, finish, cancel.           *)

ChangeRemate(p) ==
    /\ pc[p] = "read" /\ req[p].kind \in RemateKinds
    /\ remate' = Target(req[p].kind)
    /\ Done(p)
    /\ UNCHANGED <<now, lote, ofertas, winner, extended>>

------------------------------------------------------------------------------
\* The decision is negative: an error answer, or a candidate the scheduler skips.
Refuse(p) ==
    /\ \/ pc[p] = "locked" /\ req[p].kind # "bid"
       \/ pc[p] = "read" /\ req[p].kind = "open_next"
       \/ pc[p] = "asked" /\ HasOpenLote
       \/ pc[p] = "vacant" /\ ~\E l \in Lotes : IsNextPending(l)
    /\ ~(CanOpen(p) \/ CanCloseByHand(p) \/ CanCancelLote(p) \/ CanRequeue(p) \/ CanAutoClose(p))
    /\ Done(p)
    /\ UNCHANGED <<now, data>>

Tick ==
    /\ now < MaxTime
    /\ now' = now + 1
    /\ UNCHANGED <<data, lock, pc, req, seen>>

\* Every request has been answered; nothing need happen.
Quiet ==
    /\ \A p \in Procs : pc[p] = "idle"
    /\ UNCHANGED vars

\* A request arrives, or reads on without a lock.
Arrive(w) ==
    \/ BeginBid(w) \/ BeginLocked(w) \/ BeginTimer(w) \/ BeginRemate(w)
    \/ BeginOpenNext(w) \/ FindsVacant(w) \/ ChooseNext(w)

Serve(p) ==
    \/ Acquire(p) \/ AcceptBid(p) \/ RejectBid(p) \/ DuplicateBid(p)
    \/ Open(p) \/ Close(p) \/ CancelLote(p) \/ Requeue(p) \/ AutoClose(p)
    \/ AdjustTimer(p) \/ ChangeRemate(p) \/ Refuse(p)

Next ==
    \/ \E w \in Workers : Arrive(w)
    \/ BeginAutoClose
    \/ \E p \in Procs : Serve(p)
    \/ Tick
    \/ Quiet

Spec == Init /\ [][Next]_vars

\* The scheduler ticks every second for ever; PostgreSQL serves the waiters of a row
\* in their order; a handler that holds a row decides, for it waits on nothing else.
\* No request is ever bound to arrive, and no other waiter is assumed to be served.
FairSpec ==
    /\ Spec
    /\ WF_vars(BeginAutoClose)
    /\ SF_vars(Acquire(Scheduler))
    /\ \A p \in Procs : WF_vars(pc[p] = "locked" /\ Serve(p))

------------------------------------------------------------------------------
(* Properties.                                                              *)

\* Every variable has its type.
TypeOK ==
    /\ now \in Nat
    /\ remate \in RemateStatus
    /\ lote \in [Lotes -> LoteRow]
    /\ ofertas \in [Keys -> OfertaRow]
    /\ winner \in [Lotes -> Keys \cup {NoKey}]
    /\ extended \in [Lotes -> Nullable]
    /\ lock \in [Lotes -> Procs \cup {NoProc}]
    /\ pc \in [Procs -> {"idle", "asked", "vacant", "read", "locked"}]
    /\ req \in [Procs -> Request]
    /\ seen \in [Procs -> Reading]

\* ADR-004: what a transaction has read after FOR UPDATE (the lote, and the
\* leading oferta of a bid or of an automatic close) is still what is committed
\* when it decides, though unlocked writers run meanwhile.
LockedReadsAreCurrent ==
    \A p \in Procs : pc[p] = "locked" =>
        /\ seen[p].row = lote[req[p].lote]
        /\ req[p].kind \in {"bid", "auto_close"} => seen[p].leaders = Leaders(req[p].lote)

\* ADR-004: whatever bids, retries and rounds interleave, the row lock alone keeps at
\* most one ACCEPTED oferta per lote: the index behind it never has to refuse one.
OneLeader == \A l \in Lotes : \A j, k \in Leaders(l) : j = k

\* RF-12: two lotes of a LIVE-type remate are never OPEN at once, however open and
\* open_next race.
OneOpenLote == \A l, m \in Lotes : lote[l].status = "OPEN" /\ lote[m].status = "OPEN" => l = m

\* While a lote is sold by the clock, the oferta announced as its winner is the
\* one that leads it, at the price of the sale: what post-auction, the snapshot
\* and the history read later agrees with the announcement.
SaleIsTheLeader ==
    \A l \in Lotes :
        lote[l].status = "CLOSED_SOLD" /\ winner[l] # NoKey =>
            /\ winner[l] \in Leaders(l)
            /\ lote[l].final = ofertas[winner[l]].amount

\* A sale is never below the base price of the round in which it was made.
SoldAtLeastBase ==
    \A l \in Lotes : lote[l].status = "CLOSED_SOLD" => lote[l].final >= lote[l].base

\* An oferta, once written, is never rewritten nor deleted by a retry, a race or a
\* later round: the one change it knows is from ACCEPTED to OUTBID.
OfertasAreHistory ==
    [][\A k \in Keys : ofertas[k].status # "NONE" =>
          \/ ofertas'[k] = ofertas[k]
          \/ /\ ofertas[k].status = "ACCEPTED"
             /\ ofertas'[k] = [ofertas[k] EXCEPT !.status = "OUTBID"]]_vars

\* Whatever races, a lote changes status along lotes/state_machine.py, but for an
\* open_next that commits on its unlocked read.
TableBrokenOnlyByOpenNext ==
    [][\A l \in Lotes :
          lote'[l].status # lote[l].status =>
              \/ <<lote[l].status, lote'[l].status>> \in LoteMoves
              \/ \E w \in Workers : req[w].kind = "open_next" /\ req[w].lote = l
                                    /\ pc[w] = "read" /\ pc'[w] = "idle"]_vars

\* The scheduler closes a lote at commit time only.
ClosesByClock(l) ==
    /\ req[Scheduler].kind = "auto_close" /\ req[Scheduler].lote = l
    /\ lote'[l].status # lote[l].status /\ pc'[Scheduler] = "idle"

\* ADR-043: a lote is closed by the clock only if its committed deadline has passed,
\* and never before a deadline that a bid has extended, unless an operator or a new
\* opening has set the countdown since.
ClockHonoursExtensions ==
    [][\A l \in Lotes : ClosesByClock(l) =>
          /\ IsExpired(lote[l], now)
          /\ extended[l] = NULL \/ extended[l] <= now]_vars

\* LoteBook's view of the remate.
Best(l) == IF Leaders(l) = {} THEN 0 ELSE LeadingPrice(Leaders(l))
Sold(l) == lote[l].status = "CLOSED_SOLD"

Book == INSTANCE LoteBook WITH
    open    <- [l \in Lotes |-> lote[l].status = "OPEN"],
    best    <- [l \in Lotes |-> Best(l)],
    price   <- [l \in Lotes |-> IF Sold(l) THEN lote[l].final ELSE 0],
    byClock <- [l \in Lotes |-> Sold(l) /\ winner[l] # NoKey]

\* The clock has run out on a lote of a LIVE remate.
Overdue(l) == IsExpired(lote[l], now) /\ remate = "LIVE"

\* No lote stays overdue for ever if _apply_close admits the price of its leader:
\* no lock, retry, pause or failed request keeps the scheduler from it.
OverdueLoteIsClosed ==
    \A l \in Lotes :
        Overdue(l) /\ CanClose(lote[l], AutoTarget(Leaders(l)), LeadingPrice(Leaders(l)))
            ~> ~Overdue(l)

\* docs/40, lines 187-191: the scheduler closes the lote at the first tick after its
\* remate is LIVE, with no condition on its bids.
ExpiredLoteCloses == \A l \in Lotes : Overdue(l) ~> ~Overdue(l)

\* lotes/service.py, lines 155-171: with the row lock a lote that is closed does not
\* change status again but by the table of lotes/state_machine.py.
LoteFollowsItsTable ==
    [][\A l \in Lotes :
          lote'[l].status # lote[l].status => <<lote[l].status, lote'[l].status>> \in LoteMoves]_vars

\* docs/16, line 86: a remate is FINISHED only when none of its lotes is OPEN.
FinishedHasNoOpenLote == remate = "FINISHED" => ~HasOpenLote

\* lotes/models.py, lines 212-215: a countdown runs (timer_ends_at) or is paused
\* (timer_paused_remaining_seconds), never both, whichever timer actions overlap.
RunsOrIsPaused == \A l \in Lotes : lote[l].ends = NULL \/ lote[l].paused = NULL

\* Every lote of the remate keeps the promise of LoteBook.
KeepsItsBook == Book!Spec
=============================================================================
