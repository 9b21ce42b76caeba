------------------------------ MODULE TimedRemate ------------------------------
(***************************************************************************)
(* One remate of auction_type TIMED: nobody conducts it.  A lifecycle task *)
(* starts it with all its lotes at once and finishes it when none is OPEN; *)
(* an expiry task closes each lote when its countdown ends; and requests   *)
(* bid, edit the catalogue, pause, resume, cancel and finish meanwhile.    *)
(*                                                                         *)
(* A handler is one transaction, cut where another can commit:             *)
(*   "read"     it has read the remate, without a lock, and what else it   *)
(*              reads without one comes next;                              *)
(*   "waiting"  it asks for the row locks of `seen.todo`, one at a time;   *)
(*   "locked"   it has every row it locks; it decides and commits.         *)
(* The lifecycle task locks the remate instead.  Every other commit writes *)
(* an audit entry or a lote, whose foreign key to the remate waits for the *)
(* holder of that lock; a manual change of status has nothing else that    *)
(* makes it wait, and is decided on the status it read.                    *)
(***************************************************************************)
EXTENDS Integers, StateMachines

CONSTANTS
    Lotes,          \* lotes there may be
    Workers,        \* concurrent request handlers
    Expiry,         \* the process that runs TimerExpiryScheduler.tick
    Lifecycle,      \* the process that runs TimedAuctionLifecycleScheduler.tick
    Plans,          \* scenarios, see Plan
    EndsAt,         \* ends_at of the remate
    MaxTime,        \* bound on the clock
    NoLote, NoProc

NULL == -1          \* SQL NULL in a numeric column

Procs == Workers \cup {Expiry, Lifecycle}

RowKinds   == {"bid", "edit", "delete", "cancel_lote"}
GroupKinds == {"pause", "resume"}
FreeKinds  == {"create", "cancel", "finish"}
Kinds      == RowKinds \cup GroupKinds \cup FreeKinds

\* The first lotes and starts_at of the remate, its anti-sniping settings, the requests
\* offered, and the bound on the instants at which they begin.
Plan == [first : SUBSET Lotes, starts : Nat, window : Nat, duration : Nat,
         offered : SUBSET Kinds, last : Nat]

ASSUME TimedAssumption ==
    /\ Expiry \notin Workers /\ Lifecycle \notin Workers /\ Expiry # Lifecycle
    /\ NoProc \notin Procs /\ NoLote \notin Lotes
    /\ EndsAt \in Nat /\ MaxTime \in Nat
    /\ Plans \subseteq {p \in Plan : p.starts < EndsAt}

VARIABLES
    plan,       \* the scenario
    now,        \* the clock, in seconds
    remate,     \* remates.status
    lote,       \* rows of lotes
    late,       \* lotes whose creation committed after the remate had left SCHEDULED
    adrift,     \* a resume that read SCHEDULED has committed
    remateLock, \* holder of the row lock of the remate
    lock,       \* holder of the row lock of each lote
    pc,         \* phase of each process
    req,        \* what it serves
    seen        \* what its transaction has read

rows  == <<remate, lote, late, adrift>>
procs == <<remateLock, lock, pc, req, seen>>
vars  == <<plan, now, rows, procs>>

\* "NONE": not created yet, or deleted.  `led`: the lote has a leading oferta; `dear`: one
\* below its base price.
LoteRow ==
    [status : LoteStatus \cup {"NONE"}, ends : Nat \cup {NULL}, paused : Nat \cup {NULL},
     led : BOOLEAN, dear : BOOLEAN]

Request == [kind : Kinds \cup {"none", "expire", "start", "end"}, lote : Lotes \cup {NoLote}]

Reading == [remate : RemateStatus, rows : [Lotes -> LoteRow], todo : SUBSET Lotes, at : Nat]

NoRow   == [status |-> "NONE", ends |-> NULL, paused |-> NULL, led |-> FALSE, dear |-> FALSE]
NewRow  == [NoRow EXCEPT !.status = "PENDING"]
NoReq   == [kind |-> "none", lote |-> NoLote]
NoSeen  == [remate |-> "SCHEDULED", rows |-> [l \in Lotes |-> NoRow], todo |-> {}, at |-> 0]

Having(status) == {l \in Lotes : lote[l].status = status}
HasOpenLote == Having("OPEN") # {}

\* The candidates of list_expired_open_lote_ids: a TIMED lote always closes by itself.
IsExpired(row, t) == row.status = "OPEN" /\ row.ends # NULL /\ row.ends <= t

------------------------------------------------------------------------------
Init ==
    /\ plan \in Plans
    /\ now = 0
    /\ remate = "SCHEDULED"
    /\ lote = [l \in Lotes |-> IF l \in plan.first THEN NewRow ELSE NoRow]
    /\ late = {} /\ adrift = FALSE
    /\ remateLock = NoProc
    /\ lock = [l \in Lotes |-> NoProc]
    /\ pc = [p \in Procs |-> "idle"]
    /\ req = [p \in Procs |-> NoReq]
    /\ seen = [p \in Procs |-> NoSeen]

\* End of a transaction: commit or rollback, its locks are released.
Done(p) ==
    /\ pc' = [pc EXCEPT ![p] = "idle"]
    /\ req' = [req EXCEPT ![p] = NoReq]
    /\ seen' = [seen EXCEPT ![p] = NoSeen]
    /\ lock' = [l \in Lotes |-> IF lock[l] = p THEN NoProc ELSE lock[l]]
    /\ remateLock' = IF remateLock = p THEN NoProc ELSE remateLock

\* What a commit writes refers to the remate, or is the remate.
RemateFree(p) == remateLock \in {NoProc, p}

Serving(p, kind, phase) == pc[p] = phase /\ req[p].kind = kind

------------------------------------------------------------------------------
(* The unlocked reads of a request, and the early returns they decide.      *)

Asks(w, kind) == w \in Workers /\ pc[w] = "idle" /\ kind \in plan.offered /\ now < plan.last

Begin(p, kind, l, phase, todo) ==
    /\ pc' = [pc EXCEPT ![p] = phase]
    /\ req' = [req EXCEPT ![p] = [kind |-> kind, lote |-> l]]
    /\ seen' = [seen EXCEPT ![p] = [NoSeen EXCEPT !.remate = remate, !.todo = todo]]
    /\ UNCHANGED <<plan, now, rows, remateLock, lock>>

\* place_bid; update and soft_delete while the structure is editable; cancel of a lote.
AskRow(w) ==
    \E l \in Lotes, kind \in RowKinds :
        /\ Asks(w, kind)
        /\ lote[l].status # "NONE"
        /\ kind \in {"edit", "delete"} => remate = "SCHEDULED"
        /\ kind = "cancel_lote" => remate \in {"LIVE", "PAUSED"}
        /\ Begin(w, kind, l, "waiting", {l})

\* create: the structure is editable, and the row is new.
AskCreate(w) ==
    \E l \in Having("NONE") :
        /\ Asks(w, "create") /\ remate = "SCHEDULED"
        /\ \A v \in Workers : req[v] # [kind |-> "create", lote |-> l]
        /\ Begin(w, "create", l, "locked", {})

Target(kind) ==
    CASE kind = "pause" -> "PAUSED" [] kind = "resume" -> "LIVE"
      [] kind = "finish" -> "FINISHED" [] kind = "cancel" -> "CANCELLED"

\* pause, resume, finish and cancel of the remate: the table of transitions.
AskStatus(w) ==
    \E kind \in GroupKinds \cup {"finish", "cancel"} :
        /\ Asks(w, kind)
        /\ <<remate, Target(kind)>> \in RemateMoves
        /\ Begin(w, kind, NoLote, IF kind = "cancel" THEN "locked" ELSE "read", {})

\* pause and resume: the OPEN lotes that list_open_lotes_for_update finds when its
\* statement begins.
ListOpen(w) ==
    /\ pc[w] = "read" /\ req[w].kind \in GroupKinds
    /\ pc' = [pc EXCEPT ![w] = IF HasOpenLote THEN "waiting" ELSE "locked"]
    /\ seen' = [seen EXCEPT ![w].todo = Having("OPEN")]
    /\ UNCHANGED <<plan, now, rows, remateLock, lock, req>>

\* finish: has_open_lote.
CheckOpen(w) ==
    /\ Serving(w, "finish", "read")
    /\ IF HasOpenLote THEN Done(w)
       ELSE pc' = [pc EXCEPT ![w] = "locked"] /\ UNCHANGED <<remateLock, lock, req, seen>>
    /\ UNCHANGED <<plan, now, rows>>

------------------------------------------------------------------------------
(* Row locks.                                                               *)

\* (variant) A plain SELECT in the place of SELECT ... FOR UPDATE.
Hold_NoLock(p, l) == UNCHANGED lock

Hold(p, l) ==
    /\ lock[l] = NoProc
    /\ lock' = [lock EXCEPT ![l] = p]

\* The row is returned as it was last committed.  The clock is read after the last one.
ReadRow(p, l) ==
    [seen[p] EXCEPT !.rows = [seen[p].rows EXCEPT ![l] = lote[l]],
                    !.todo = seen[p].todo \ {l}, !.at = now]

LockRow(w) ==
    /\ pc[w] = "waiting" /\ w \in Workers
    /\ \E l \in seen[w].todo :
        /\ Hold(w, l)
        /\ pc' = [pc EXCEPT ![w] = IF seen[w].todo = {l} THEN "locked" ELSE "waiting"]
        /\ seen' = [seen EXCEPT ![w] = ReadRow(w, l)]
    /\ UNCHANGED <<plan, now, rows, remateLock, req>>

\* Processes that p waits for, or may: a row it asks for is theirs, or its commit waits
\* for the remate, or the start for the lotes it opens.
WaitsFor(p) ==
    {q \in Procs \ {p} :
        \/ pc[p] = "waiting" /\ \E l \in seen[p].todo : lock[l] = q
        \/ pc[p] = "locked" /\ remateLock = q
        \/ Serving(p, "start", "locked")
           /\ \E l \in Lotes : seen[p].rows[l].status = "PENDING" /\ lock[l] = q}

\* PostgreSQL finds p in a ring of transactions that wait for one another and aborts it:
\* an error answer, or the end of the tick.
Abort(p) ==
    /\ WaitsFor(p) # {}
    /\ \E ring \in SUBSET Procs :
        /\ p \in ring
        /\ \A q \in ring : WaitsFor(q) \cap ring # {} /\ \E r \in ring : q \in WaitsFor(r)
    /\ Done(p)
    /\ UNCHANGED <<plan, now, rows>>

------------------------------------------------------------------------------
(* Commits of the requests.                                                 *)

Ready(w, kind) == Serving(w, kind, "locked") /\ RemateFree(w)

Write(w, row) == lote' = [lote EXCEPT ![req[w].lote] = row]

\* (variant) The status of the lote is read before it is locked.
BidIsValid_Early(w) == seen[w].remate = "LIVE"

BidIsValid(w) == seen[w].remate = "LIVE" /\ seen[w].rows[req[w].lote].status = "OPEN"

\* maybe_extend_for_bid with the settings of a TIMED remate; a window of 0 is disabled.
Extended(row, at) ==
    IF plan.window # 0 /\ row.ends # NULL /\ row.ends - at <= plan.window
    THEN [row EXCEPT !.ends = at + plan.duration] ELSE row

\* A bid that is high enough; a bid that is not only takes the lock.  The first is compared
\* with the base price, a later one with its leader only.
AcceptBid(w) ==
    LET row == seen[w].rows[req[w].lote] IN
    /\ Ready(w, "bid") /\ BidIsValid(w)
    /\ \E dear \in {FALSE, row.dear} :
          Write(w, [Extended(row, seen[w].at) EXCEPT !.led = TRUE, !.dear = dear])
    /\ Done(w)
    /\ UNCHANGED <<plan, now, remate, late, adrift>>

CanCancelLote(w) == <<seen[w].rows[req[w].lote].status, "CANCELLED">> \in LoteMoves

CancelLote(w) ==
    /\ Ready(w, "cancel_lote") /\ CanCancelLote(w)
    /\ Write(w, [seen[w].rows[req[w].lote] EXCEPT !.status = "CANCELLED"])
    /\ Done(w)
    /\ UNCHANGED <<plan, now, remate, late, adrift>>

\* update: a base price, whatever has been bid.
EditLote(w) ==
    LET row == seen[w].rows[req[w].lote] IN
    /\ Ready(w, "edit") /\ row.status # "NONE"
    /\ \E dear \in {FALSE, row.led} : Write(w, [row EXCEPT !.dear = dear])
    /\ Done(w)
    /\ UNCHANGED <<plan, now, remate, late, adrift>>

DeleteLote(w) ==
    /\ Ready(w, "delete") /\ seen[w].rows[req[w].lote].status # "NONE"
    /\ Write(w, NoRow)
    /\ late' = late \ {req[w].lote}
    /\ Done(w)
    /\ UNCHANGED <<plan, now, remate, adrift>>

\* An error answer, or a rejected oferta.
Refuse(w) ==
    /\ \/ Ready(w, "bid")
       \/ Ready(w, "cancel_lote") /\ ~CanCancelLote(w)
       \/ \E kind \in {"edit", "delete"} :
             Ready(w, kind) /\ seen[w].rows[req[w].lote].status = "NONE"
    /\ Done(w)
    /\ UNCHANGED <<plan, now, rows>>

CreateLote(w) ==
    /\ Ready(w, "create")
    /\ Write(w, NewRow)
    /\ late' = IF remate = "SCHEDULED" THEN late ELSE late \cup {req[w].lote}
    /\ Done(w)
    /\ UNCHANGED <<plan, now, remate, adrift>>

Max0(n) == IF n < 0 THEN 0 ELSE n

\* freeze_lote_timer and unfreeze_lote_timer.
Frozen(row, at) ==
    IF row.ends = NULL THEN row ELSE [row EXCEPT !.paused = Max0(row.ends - at), !.ends = NULL]

Unfrozen(row, at) ==
    IF row.paused = NULL THEN row ELSE [row EXCEPT !.ends = at + row.paused, !.paused = NULL]

\* Rows whose lock was granted but that are OPEN no longer are not returned.
Listed(w) == {l \in Lotes : seen[w].rows[l].status = "OPEN"}

\* pause and resume: the status, and the countdown of every lote listed.
ChangeAll(w) ==
    LET kind == req[w].kind  s == seen[w] IN
    /\ kind \in GroupKinds /\ Ready(w, kind)
    /\ remate' = Target(kind)
    /\ lote' = [l \in Lotes |->
          IF l \notin Listed(w) THEN lote[l]
          ELSE IF kind = "pause" THEN Frozen(s.rows[l], s.at) ELSE Unfrozen(s.rows[l], s.at)]
    /\ adrift' = (adrift \/ (kind = "resume" /\ s.remate = "SCHEDULED"))
    /\ Done(w)
    /\ UNCHANGED <<plan, now, late>>

\* finish and cancel.
ChangeStatus(w) ==
    /\ req[w].kind \in {"finish", "cancel"} /\ Ready(w, req[w].kind)
    /\ remate' = Target(req[w].kind)
    /\ Done(w)
    /\ UNCHANGED <<plan, now, lote, late, adrift>>

------------------------------------------------------------------------------
(* TimerExpiryScheduler.                                                    *)

\* tick: the candidates, without a lock.
ListExpired ==
    LET overdue == {l \in Lotes : IsExpired(lote[l], now)} IN
    /\ pc[Expiry] = "idle" /\ overdue # {}
    /\ Begin(Expiry, "expire", NoLote, "waiting", overdue)

\* _try_close_one locks the candidate, then reads the remate and the clock.
LockCandidate ==
    /\ pc[Expiry] = "waiting"
    /\ \E l \in seen[Expiry].todo :
        /\ Hold(Expiry, l)
        /\ pc' = [pc EXCEPT ![Expiry] = "locked"]
        /\ req' = [req EXCEPT ![Expiry].lote = l]
        /\ seen' = [seen EXCEPT ![Expiry] = [ReadRow(Expiry, l) EXCEPT !.remate = remate]]
    /\ UNCHANGED <<plan, now, rows, remateLock>>

CanCloseByClock ==
    /\ IsExpired(seen[Expiry].rows[req[Expiry].lote], seen[Expiry].at)
    /\ seen[Expiry].remate = "LIVE"

\* The locks are released, the session goes on to the next candidate.
NextCandidate ==
    IF seen[Expiry].todo = {} THEN Done(Expiry)
    ELSE /\ pc' = [pc EXCEPT ![Expiry] = "waiting"]
         /\ lock' = [l \in Lotes |-> IF lock[l] = Expiry THEN NoProc ELSE lock[l]]
         /\ UNCHANGED <<remateLock, req, seen>>

\* auto_close.
CloseByClock ==
    LET row == seen[Expiry].rows[req[Expiry].lote] IN
    /\ Ready(Expiry, "expire") /\ CanCloseByClock /\ ~row.dear
    /\ Write(Expiry, [row EXCEPT !.status = IF row.led THEN "CLOSED_SOLD" ELSE "CLOSED_UNSOLD",
                                 !.ends = NULL, !.paused = NULL])
    /\ NextCandidate
    /\ UNCHANGED <<plan, now, remate, late, adrift>>

\* _apply_close refuses a price below the base: the exception ends the tick, and the rest of
\* its candidates wait for the next one.
FailToClose ==
    /\ Serving(Expiry, "expire", "locked") /\ CanCloseByClock
    /\ seen[Expiry].rows[req[Expiry].lote].dear
    /\ Done(Expiry)
    /\ UNCHANGED <<plan, now, rows>>

\* The candidate is skipped; nothing ends the transaction, so its row stays locked
\* while the task waits for the next one.
SkipCandidate ==
    /\ Serving(Expiry, "expire", "locked") /\ ~CanCloseByClock
    /\ IF seen[Expiry].todo = {} THEN Done(Expiry)
       ELSE pc' = [pc EXCEPT ![Expiry] = "waiting"] /\ UNCHANGED <<remateLock, lock, req, seen>>
    /\ UNCHANGED <<plan, now, rows>>

------------------------------------------------------------------------------
(* TimedAuctionLifecycleScheduler.                                          *)

\* tick: the candidates of either kind, without a lock.
ListDue ==
    /\ pc[Lifecycle] = "idle"
    /\ \/ remate = "SCHEDULED" /\ plan.starts <= now /\ Begin(Lifecycle, "start", NoLote, "waiting", {})
       \/ remate = "LIVE" /\ Begin(Lifecycle, "end", NoLote, "waiting", {})

\* (variant) The remate is read without a lock.
HoldRemate_NoLock == UNCHANGED remateLock

HoldRemate ==
    /\ remateLock = NoProc
    /\ remateLock' = Lifecycle

\* get_by_id_for_update of the remate, then its lotes.
LockRemate ==
    /\ pc[Lifecycle] = "waiting"
    /\ HoldRemate
    /\ pc' = [pc EXCEPT ![Lifecycle] = "locked"]
    /\ seen' = [seen EXCEPT ![Lifecycle] =
          [@ EXCEPT !.remate = remate, !.rows = lote, !.at = now]]
    /\ UNCHANGED <<plan, now, rows, lock, req>>

Known(status) == {l \in Lotes : seen[Lifecycle].rows[l].status = status}

CanStart ==
    /\ seen[Lifecycle].remate = "SCHEDULED"
    /\ Known("NONE") # Lotes

\* _try_start_one: the status and every lote that was PENDING, in one commit, whose
\* UPDATEs wait for the rows that others hold.
AutoStart ==
    /\ Ready(Lifecycle, "start") /\ CanStart
    /\ \A l \in Known("PENDING") : lock[l] = NoProc
    /\ remate' = "LIVE"
    /\ lote' = [l \in Lotes |->
          IF l \in Known("PENDING")
          THEN [lote[l] EXCEPT !.status = "OPEN", !.ends = EndsAt, !.paused = NULL] ELSE lote[l]]
    /\ Done(Lifecycle)
    /\ UNCHANGED <<plan, now, late, adrift>>

\* (variant) PENDING lotes are looked for in the place of OPEN ones.
CanFinish_Pending == seen[Lifecycle].remate = "LIVE" /\ Known("PENDING") = {}

\* (variant) A remate with PENDING lotes is not over either.
CanFinish_NoPending == seen[Lifecycle].remate = "LIVE" /\ Known("OPEN") \cup Known("PENDING") = {}

CanFinish == seen[Lifecycle].remate = "LIVE" /\ Known("OPEN") = {}

\* _try_finish_one.
AutoFinish ==
    /\ Ready(Lifecycle, "end") /\ CanFinish
    /\ remate' = "FINISHED"
    /\ Done(Lifecycle)
    /\ UNCHANGED <<plan, now, lote, late, adrift>>

NotYet ==
    /\ pc[Lifecycle] = "locked"
    /\ req[Lifecycle].kind = "start" => ~CanStart
    /\ req[Lifecycle].kind = "end" => ~CanFinish
    /\ Done(Lifecycle)
    /\ UNCHANGED <<plan, now, rows>>

------------------------------------------------------------------------------
\* The clock passes the last instant of the plan when the requests have been answered.
Tick ==
    /\ now < MaxTime
    /\ now >= plan.last => \A w \in Workers : pc[w] = "idle"
    /\ now' = now + 1
    /\ UNCHANGED <<plan, rows, procs>>

\* Every request has been answered; nothing need happen.
Quiet ==
    /\ \A p \in Procs : pc[p] = "idle"
    /\ UNCHANGED vars

Arrive(w) == AskRow(w) \/ AskCreate(w) \/ AskStatus(w)

Serve(w) ==
    \/ ListOpen(w) \/ CheckOpen(w) \/ LockRow(w)
    \/ AcceptBid(w) \/ CancelLote(w) \/ EditLote(w) \/ DeleteLote(w) \/ CreateLote(w)
    \/ Refuse(w) \/ ChangeAll(w) \/ ChangeStatus(w)

Expire == ListExpired \/ LockCandidate \/ CloseByClock \/ FailToClose \/ SkipCandidate
Conduct == ListDue \/ LockRemate \/ AutoStart \/ AutoFinish \/ NotYet

Next ==
    \/ \E w \in Workers : Arrive(w) \/ Serve(w)
    \/ Expire \/ Conduct
    \/ \E p \in Procs : Abort(p)
    \/ Tick
    \/ Quiet

\* Both tasks tick every second for ever, PostgreSQL serves the waiters of a lock in
\* their order and resolves deadlocks, a request that waits on nothing is answered,
\* and time passes.  No request is bound to arrive.
Fairness ==
    /\ SF_vars(Expire) /\ SF_vars(Conduct)
    /\ \A w \in Workers : SF_vars(Serve(w))
    /\ WF_vars(\E p \in Procs : Abort(p))
    /\ WF_vars(Tick)

Spec == Init /\ [][Next]_vars /\ Fairness

------------------------------------------------------------------------------
(* Properties.                                                              *)

\* Every variable has its type.
TypeOK ==
    /\ plan \in Plan
    /\ now \in Nat
    /\ remate \in RemateStatus
    /\ lote \in [Lotes -> LoteRow]
    /\ late \subseteq Lotes /\ adrift \in BOOLEAN
    /\ remateLock \in {Lifecycle, NoProc}
    /\ lock \in [Lotes -> Procs \cup {NoProc}]
    /\ pc \in [Procs -> {"idle", "read", "waiting", "locked"}]
    /\ req \in [Procs -> Request]
    /\ seen \in [Procs -> Reading]

\* remates/service.py, pause: while the remate is PAUSED no countdown of it runs, and while
\* it is LIVE every OPEN lote has one, whatever pauses, resumes, bids, closes and starts
\* overlap; but for a resume that had read SCHEDULED and commits after the start, which may
\* leave a LIVE remate with frozen countdowns.
ClockFollowsTheRemate ==
    \A l \in Having("OPEN") :
        /\ remate = "PAUSED" => lote[l].ends = NULL
        /\ remate = "LIVE" => lote[l].ends # NULL \/ adrift

\* timed_scheduler.py: a remate does not get under way with a lote still PENDING.  It does
\* when a create that had read SCHEDULED commits after the start, or when an operator
\* resumes it before its time; nothing opens such a lote afterwards.
NothingStaysPending ==
    remate \in {"LIVE", "PAUSED", "FINISHED"} /\ ~adrift => Having("PENDING") \subseteq late

\* ADR-004 and ADR-043: a lote is closed as sold if and only if a bid was accepted, and no
\* bid is accepted once it is closed, whichever bids and closes overlap.
AdjudicatedAsBid ==
    \A l \in Lotes : /\ lote[l].status = "CLOSED_SOLD" => lote[l].led
                     /\ lote[l].status = "CLOSED_UNSOLD" => ~lote[l].led

\* docs/16: a FINISHED remate has no OPEN lote, although finish looks before it commits and
\* locks nothing, and although a start, a pause or a resume may commit in between.
FinishedHasNoOpenLote == remate = "FINISHED" => ~HasOpenLote

\* Both tasks act on the remate as it is, though manual actions do not lock it: it is
\* started from SCHEDULED with every lote, it is finished from LIVE without any OPEN one,
\* and a lote is closed by the clock only after its deadline and never in a pause.
AutomaticStepsAreCurrent ==
    [][/\ Serving(Lifecycle, "start", "locked") /\ pc'[Lifecycle] = "idle" /\ remate' # remate =>
             remate = "SCHEDULED" /\ \A l \in Lotes : lote'[l].status # "PENDING"
       /\ Serving(Lifecycle, "end", "locked") /\ pc'[Lifecycle] = "idle" /\ remate' # remate =>
             remate = "LIVE" /\ ~HasOpenLote
       /\ \A l \in Lotes :
             Serving(Expiry, "expire", "locked") /\ pc'[Expiry] # "locked" /\ lote'[l] # lote[l] =>
                 remate # "PAUSED" /\ IsExpired(lote[l], now)]_vars

\* ADR-043: a bid never brings a deadline forward, whichever bids overlap, unless the remate
\* was given an extension that is shorter than its window.
OnlyAShortExtensionHurries ==
    [][\A l \in Lotes :
          lote[l].ends # NULL /\ lote'[l].ends # NULL /\ lote'[l].ends < lote[l].ends =>
              plan.duration < plan.window]_vars

\* A remate whose time has come starts if it has a lote, and one that is LIVE ends or is
\* paused: no lock, abort, skipped candidate or stale action keeps the two tasks from it, but
\* two: a resume that read SCHEDULED and has frozen a lote, and an edit that read SCHEDULED
\* and has put a base price above what had been bid by then, which no close admits.
LiveRemateEnds ==
    /\ remate = "SCHEDULED" /\ plan.starts <= now /\ Having("NONE") # Lotes
           ~> remate # "SCHEDULED" \/ Having("NONE") = Lotes
    /\ remate = "LIVE" ~> remate # "LIVE" \/ \E l \in Having("OPEN") : lote[l].ends = NULL \/ lote[l].dear
=============================================================================
