------------------------------- MODULE Garantias -------------------------------
(***************************************************************************)
(* The deposit a buyer leaves to bid in a remate: a row per buyer and the  *)
(* payments it names at Mercado Pago, which move on their own.             *)
(*                                                                         *)
(* Whatever handles a guarantee reads its row without a lock, waits for    *)
(* Mercado Pago, and writes the columns it changed: requests that create   *)
(* it, the notifications of Mercado Pago, one consumer per replica that    *)
(* captures and releases, and the scheduler that expires.                  *)
(***************************************************************************)
EXTENDS PostAuction

CONSTANTS
    Requests,       \* slots for the requests that create a guarantee
    Hook, Clock     \* the notifications of Mercado Pago, the scheduler

ASSUME TasksAssumption ==
    /\ IsFiniteSet(Nodes)
    /\ Nodes \cap (Requests \cup {Hook, Clock}) = {}

VARIABLES
    row,        \* garantias: status and mp_payment_id (0: none), per buyer
    pays,       \* per buyer, the payments made at Mercado Pago, by number
    due,        \* buyers whose row is past expires_at
    task,       \* what is being done to a guarantee
    queue,      \* per replica: events its guarantee consumer has not handled
    created,    \* requests to create so far
    past        \* history: <<b, "overlap">> when a row was written while another task
                \* had read it, <<b, "expired">> when the scheduler expired it

hold == <<row, pays, due, task, queue, created, past>>

NoRow  == [status |-> "none", pay |-> 0]
Row    == [status : {"none", "pending", "active", "captured", "released", "expired", "failed"},
           pay : 0..plan.creates + 1]
PayStates == {"pending", "authorized", "approved", "cancelled", "rejected"}

Tasks == Requests \cup {Hook, Clock} \cup Replicas
Idle  == [op |-> "idle"]

\* A task that works on the row of `b` as it read it.
Work(op, pc, b, seen) ==
    [op |-> op, pc |-> pc, buyer |-> b, seen |-> seen, pay |-> 0, result |-> "none", rest |-> {}]

Begin(t, w)  == task' = [task EXCEPT ![t] = w]
On(t, op, pc) == task[t].op = op /\ task[t].pc = pc

\* _apply_mp_result.
StatusOf(result) ==
    CASE result = "authorized" -> "active"
      [] result \in {"rejected", "cancelled"} -> "failed"
      [] OTHER -> "pending"

\* A commit writes the columns whose value is not the one that was read.
Written(now, seen, new) ==
    IF seen = NoRow THEN new
    ELSE [status |-> IF new.status = seen.status THEN now.status ELSE new.status,
          pay    |-> IF new.pay = seen.pay THEN now.pay ELSE new.pay]

\* A create that inserted the row, or cleared the reason of the last failure, keeps it
\* locked until it commits.
Locks(t) == task[t].op = "create" /\ task[t].pc \in {"call", "save"}
            /\ task[t].seen.status \in {"none", "failed"}
Locked(b, t) == \E u \in Tasks \ {t} : Locks(u) /\ task[u].buyer = b

WorksOn(u, b) == /\ task[u] # Idle /\ task[u].pc # "done"
                 /\ task[u].buyer = b \/ b \in {x[1] : x \in task[u].rest}
Overlaps(B, t) == {<<b, "overlap">> : b \in {b \in B : \E u \in Tasks \ {t} : WorksOn(u, b)}}

Save(b, t, new) ==
    /\ ~Locked(b, t)
    /\ row' = [row EXCEPT ![b] = Written(@, task[t].seen, new)]
    /\ past' = past \cup Overlaps({b}, t)

------------------------------------------------------------------------------
(* create_or_retry.                                                         *)

\* The row is read: one that is alive is returned, and any other is used again.
AskHold(t, b) ==
    /\ t \in Requests /\ task[t] = Idle /\ created < plan.creates
    /\ row[b].status \notin {"active", "pending"}
    /\ Begin(t, Work("create", "flush", b, row[b]))
    /\ created' = created + 1
    /\ UNCHANGED <<row, pays, due, queue, past>>

\* flush: two inserts meet at the unique index, two retries at the row.  The insert
\* that loses returns the row of the winner; the retry goes on with what it read.
FlushHold(t) ==
    /\ On(t, "create", "flush")
    /\ LET w == task[t]
       IN  /\ w.seen.status \in {"none", "failed"} => ~Locked(w.buyer, t)
           /\ IF w.seen = NoRow /\ row[w.buyer] # NoRow
              THEN Begin(t, [w EXCEPT !.pc = "done", !.result = row[w.buyer].status])
              ELSE Begin(t, [w EXCEPT !.pc = "call"])
    /\ UNCHANGED <<row, pays, due, queue, created, past>>

\* create_hold: Mercado Pago answers with a payment.
CallHold(t) ==
    /\ On(t, "create", "call")
    /\ \E result \in {"authorized", "rejected"} \cup (IF "late" \in plan.moves THEN {"pending"} ELSE {}) :
         /\ pays' = [pays EXCEPT ![task[t].buyer] = Append(@, result)]
         /\ Begin(t, [task[t] EXCEPT !.pc = "save", !.result = result,
                                     !.pay = Len(pays[task[t].buyer]) + 1])
    /\ UNCHANGED <<row, due, queue, created, past>>

\* MercadoPagoError: the payment was not made, or it was and no answer came.
CallHoldFails(t) ==
    /\ On(t, "create", "call") /\ Fault
    /\ \/ UNCHANGED pays
       \/ pays' = [pays EXCEPT ![task[t].buyer] = Append(@, "authorized")]
    /\ Begin(t, [task[t] EXCEPT !.pc = "save", !.result = "error", !.pay = task[t].seen.pay])
    /\ UNCHANGED <<row, due, queue, created, past>>

SaveHold(t) ==
    /\ On(t, "create", "save")
    /\ LET w == task[t]
           new == [status |-> IF w.result = "error" THEN "failed" ELSE StatusOf(w.result), pay |-> w.pay]
       IN  /\ Save(w.buyer, t, new)
           /\ Begin(t, [w EXCEPT !.pc = "done", !.result = row'[w.buyer].status])
           /\ due' = IF w.result = "authorized" THEN due \ {w.buyer} ELSE due
    /\ UNCHANGED <<pays, queue, created>>

\* A tab this module does not follow gets its answer.
TabIsTold(t) ==
    /\ On(t, "create", "done")
    /\ Begin(t, Idle)
    /\ UNCHANGED <<row, pays, due, queue, created, past>>

------------------------------------------------------------------------------
(* Mercado Pago, and reconcile.                                             *)

\* A payment that was pending is decided.
Decide(b, n) ==
    /\ "late" \in plan.moves /\ pays[b][n] = "pending"
    /\ \E to \in {"authorized", "rejected"} : pays' = [pays EXCEPT ![b][n] = to]
    /\ UNCHANGED <<row, due, task, queue, created, past>>

\* A preauthorisation nobody captured runs out.
Lapse(b, n) ==
    /\ "lapse" \in plan.moves /\ pays[b][n] = "authorized"
    /\ pays' = [pays EXCEPT ![b][n] = "cancelled"]
    /\ UNCHANGED <<row, due, task, queue, created, past>>

Notify_AnyStatus(b, n) ==
    /\ "hook" \in plan.moves /\ task[Hook] = Idle
    /\ row[b].pay = n
    /\ Begin(Hook, Work("reconcile", "call", b, row[b]))
    /\ UNCHANGED <<row, pays, due, queue, created, past>>

\* A notification about a payment finds the row that names it, once or many times.
Notify(b, n) ==
    /\ "hook" \in plan.moves /\ task[Hook] = Idle
    /\ row[b].pay = n /\ row[b].status \in {"pending", "active"}
    /\ Begin(Hook, Work("reconcile", "call", b, row[b]))
    /\ UNCHANGED <<row, pays, due, queue, created, past>>

\* get_status: nothing is written unless the status changes.
AskStatus ==
    /\ On(Hook, "reconcile", "call")
    /\ LET w == task[Hook]
           result == pays[w.buyer][w.seen.pay]
       IN  Begin(Hook, IF StatusOf(result) = w.seen.status THEN Idle
                         ELSE [w EXCEPT !.pc = "save", !.result = result])
    /\ UNCHANGED <<row, pays, due, queue, created, past>>

SaveStatus ==
    /\ On(Hook, "reconcile", "save")
    /\ LET w == task[Hook]
       IN  /\ Save(w.buyer, Hook, [status |-> StatusOf(w.result), pay |-> w.seen.pay])
           /\ due' = IF w.result = "authorized" THEN due \ {w.buyer} ELSE due
    /\ Begin(Hook, Idle)
    /\ UNCHANGED <<pays, queue, created>>

------------------------------------------------------------------------------
(* GarantiaExpiryScheduler.                                                 *)

Age(b) ==
    /\ "clock" \in plan.moves /\ row[b].status = "active" /\ b \notin due
    /\ due' = due \cup {b}
    /\ UNCHANGED <<row, pays, task, queue, created, past>>

Overdue == {b \in due : row[b].status = "active"}

ListOverdue ==
    /\ "clock" \in plan.moves /\ task[Clock] = Idle /\ Overdue # {}
    /\ Begin(Clock, [Work("expire", "save", NoBuyer, NoRow) EXCEPT !.rest = {<<b, row[b].pay>> : b \in Overdue}])
    /\ UNCHANGED <<row, pays, due, queue, created, past>>

\* All of them in one commit, whatever became of their rows.
Expire ==
    /\ On(Clock, "expire", "save")
    /\ LET B == {x[1] : x \in task[Clock].rest}
       IN  /\ \A b \in B : ~Locked(b, Clock)
           /\ row' = [b \in Buyers |-> IF b \in B THEN [row[b] EXCEPT !.status = "expired"]
                                       ELSE row[b]]
           /\ past' = past \cup Overlaps(B, Clock) \cup {<<b, "expired">> : b \in B}
    /\ Begin(Clock, Idle)
    /\ UNCHANGED <<pays, due, queue, created>>
------------------------------------------------------------------------------
(* GarantiaEventDispatcher, one per replica.                                *)

\* PostAuctionCaseCreated, published by the replica that opened the case.
Announce(r) ==
    /\ Published(r)
    /\ queue' = [q \in Replicas |-> Append(queue[q], <<"case", opening[r][1]>>)]
    /\ UNCHANGED <<remate, sold, feed, row, pays, due, task, created, past>>

\* RemateFinished or RemateCancelled.
EndRemate(to) ==
    /\ "end" \in plan.moves /\ remate = "live"
    /\ remate' = to
    /\ queue' = [q \in Replicas |-> Append(queue[q], <<"end", NoBuyer>>)]
    /\ UNCHANGED <<sold, feed, opening, row, pays, due, task, created, past>>

Takes(r, type) ==
    /\ queue[r] # <<>> /\ task[r] = Idle /\ Head(queue[r])[1] = type
    /\ queue' = [queue EXCEPT ![r] = Tail(@)]

Active == {b \in Buyers : row[b].status = "active"}

TakeCase_Anyone(r) ==
    /\ Takes(r, "case")
    /\ task' = IF Active = {} THEN task
               ELSE [task EXCEPT ![r] = LET b == CHOOSE b \in Active : TRUE IN Work("capture", "call", b, row[b])]
    /\ UNCHANGED <<row, pays, due, created, past>>

TakeCase_WhileLive(r) ==
    /\ Takes(r, "case")
    /\ LET b == Head(queue[r])[2]
       IN  task' = IF b \notin Active \/ remate # "live" THEN task
                   ELSE [task EXCEPT ![r] = Work("capture", "call", b, row[b])]
    /\ UNCHANGED <<row, pays, due, created, past>>

TakeCase(r) ==
    /\ Takes(r, "case")
    /\ LET b == Head(queue[r])[2]
       IN  task' = IF b \notin Active THEN task
                   ELSE [task EXCEPT ![r] = Work("capture", "call", b, row[b])]
    /\ UNCHANGED <<row, pays, due, created, past>>

\* The rows that are active now, in the order of the database.
TakeEnd(r) ==
    /\ Takes(r, "end")
    /\ task' = IF Active = {} THEN task
               ELSE [task EXCEPT ![r] = [Work("release", "call", NoBuyer, NoRow) EXCEPT
                                           !.rest = {<<b, row[b].pay>> : b \in Active}]]
    /\ UNCHANGED <<row, pays, due, created, past>>

LoseEvent(r) ==
    /\ queue[r] # <<>> /\ task[r] = Idle /\ Fault
    /\ queue' = [queue EXCEPT ![r] = Tail(@)]
    /\ UNCHANGED <<row, pays, due, task, created, past>>

\* Mercado Pago captures or cancels a payment that is held.
Settles(b, n, to) == pays[b][n] = "authorized" /\ pays' = [pays EXCEPT ![b][n] = to]
Captures(b, n)    == Settles(b, n, "approved")
Cancels(b, n)     == Settles(b, n, "cancelled")

\* It refuses any other: the exception ends the handler, with whatever it had left to do.
Refused(r, b, n) == pays[b][n] # "authorized" /\ UNCHANGED pays /\ Begin(r, Idle)

Settled(r, b, n) ==
    Begin(r, [task[r] EXCEPT !.pc = "save", !.buyer = b,
                             !.seen = [status |-> "active", pay |-> n], !.rest = @ \ {<<b, n>>}])

CallCapture(r) ==
    /\ On(r, "capture", "call")
    /\ LET b == task[r].buyer
           n == task[r].seen.pay
       IN  (Captures(b, n) /\ Settled(r, b, n)) \/ Refused(r, b, n)
    /\ UNCHANGED <<row, due, queue, created, past>>

CallCancel(r) ==
    /\ On(r, "release", "call")
    /\ \E x \in task[r].rest : (Cancels(x[1], x[2]) /\ Settled(r, x[1], x[2])) \/ Refused(r, x[1], x[2])
    /\ UNCHANGED <<row, due, queue, created, past>>

\* MercadoPagoError, after the retries: the payment was left as it was, or it was
\* settled and no answer came.  The handler ends.
SettleFails(r) ==
    /\ task[r] # Idle /\ task[r].pc = "call" /\ Fault
    /\ \/ UNCHANGED pays
       \/ On(r, "capture", "call") /\ Captures(task[r].buyer, task[r].seen.pay)
       \/ On(r, "release", "call") /\ \E x \in task[r].rest : Cancels(x[1], x[2])
    /\ Begin(r, Idle)
    /\ UNCHANGED <<row, due, queue, created, past>>

SaveCapture(r) ==
    /\ On(r, "capture", "save")
    /\ Save(task[r].buyer, r, [task[r].seen EXCEPT !.status = "captured"])
    /\ Begin(r, Idle)
    /\ UNCHANGED <<pays, due, queue, created>>

SaveRelease_First(r) ==
    /\ On(r, "release", "save")
    /\ Save(task[r].buyer, r, [task[r].seen EXCEPT !.status = "released"])
    /\ Begin(r, Idle)
    /\ UNCHANGED <<pays, due, queue, created>>

SaveRelease(r) ==
    /\ On(r, "release", "save")
    /\ Save(task[r].buyer, r, [task[r].seen EXCEPT !.status = "released"])
    /\ Begin(r, IF task[r].rest = {} THEN Idle ELSE [task[r] EXCEPT !.pc = "call", !.buyer = NoBuyer])
    /\ UNCHANGED <<pays, due, queue, created>>

\* The process stops while it works: a consumer forgets what it had received, and the
\* tab of a request gets an error.
Die(t) ==
    /\ task[t] # Idle /\ task[t].pc # "done" /\ Fault
    /\ Begin(t, IF t \in Requests THEN [task[t] EXCEPT !.pc = "done", !.result = "error"] ELSE Idle)
    /\ queue' = [r \in Replicas |-> IF r = t THEN <<>> ELSE queue[r]]
    /\ UNCHANGED <<row, pays, due, created, past>>

GarantiaStep ==
    /\ \/ \E t \in Requests : FlushHold(t) \/ CallHold(t) \/ SaveHold(t)
       \/ \E b \in Buyers :
            \/ Age(b)
            \/ \E n \in DOMAIN pays[b] : Decide(b, n) \/ Lapse(b, n) \/ Notify(b, n)
       \/ AskStatus \/ SaveStatus \/ ListOverdue \/ Expire
       \/ \E r \in Replicas :
            TakeCase(r) \/ TakeEnd(r) \/ CallCapture(r) \/ CallCancel(r) \/ SaveCapture(r) \/ SaveRelease(r)
    /\ UNCHANGED faults

GarantiaFault ==
    \/ \E t \in Requests : CallHoldFails(t)
    \/ \E r \in Replicas : LoseEvent(r) \/ SettleFails(r)
    \/ \E t \in Tasks : Die(t)
==============================================================================
