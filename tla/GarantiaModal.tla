----------------------------- MODULE GarantiaModal -----------------------------
(***************************************************************************)
(* The dialog in which the buyer `Me` leaves his guarantee, and what his   *)
(* room knows of it: consent, the secure fields of the card, the token,    *)
(* the request, and the polling of a guarantee that stays pending.         *)
(*                                                                         *)
(* Each CardFormStep that is mounted has a number; what it has in flight   *)
(* survives the dialog being closed and carries that number.               *)
(***************************************************************************)
EXTENDS Garantias

CONSTANTS
    Me,
    Bins, NoBin,    \* first digits of a card; none, or an incomplete number
    NoTask,
    PollMax,        \* POLL_MAX_ATTEMPTS
    Mounts          \* bound on the forms mounted and on the cards typed

ASSUME MountsAssumption == Mounts \in Nat

VARIABLES
    dlg,        \* isOpen, isSuccess, the form that is mounted (0: none) and isProcessing;
                \* lost: a poll of this form failed
    card,       \* per form: the number typed and the payment method resolved for it
    lookups,    \* questions about a card number: number, stage, form
    flights,    \* tokens asked for, requests, polls and poll timers, per form
    known,      \* useGarantiaStatus: the status the room knows
    first,      \* its initial GET: asked, an answer on its way, done
    used        \* forms mounted and cards typed so far

modal == <<dlg, card, lookups, flights, known, first, used>>

NoCard == [bin |-> NoBin, method |-> NoBin]
Closed == [open |-> FALSE, success |-> FALSE, form |-> 0, ready |-> FALSE, busy |-> FALSE,
           lost |-> FALSE]
Flight(kind, form) == [kind |-> kind, form |-> form, bin |-> NoBin, method |-> NoBin, edited |-> FALSE,
                       task |-> NoTask, attempt |-> 0, status |-> "asked"]

\* The form that is mounted goes, and the poll timer it has armed.
Dropped == {f \in flights : f.kind # "timer" \/ f.form # dlg.form}

Used(n) == used + n <= Mounts /\ used' = used + n

\* reportGarantia, and isSuccess, which a dialog that was closed or opened again gets too.
Reports(d, status) ==
    /\ known' = status
    /\ dlg' = [d EXCEPT !.success = @ \/ status = "active"]

\* setIsProcessing(false) of a form does nothing once it is unmounted.
Stops(form) == IF dlg.form = form THEN [dlg EXCEPT !.busy = FALSE] ELSE dlg

------------------------------------------------------------------------------
(* The dialog and the card.                                                 *)

FirstAnswered(status) ==
    /\ "modal" \in plan.moves /\ first = "asked" /\ first' = status
    /\ UNCHANGED <<dlg, card, lookups, flights, known, used>>

\* It may come after the dialog has told more recent news.
FirstArrives ==
    /\ first \notin {"asked", "done"}
    /\ known' = first /\ first' = "done"
    /\ UNCHANGED <<dlg, card, lookups, flights, used>>

\* The bid button opens it while the room does not know of an active guarantee.
OpenDialog ==
    /\ "modal" \in plan.moves /\ ~dlg.open /\ known # "active"
    /\ dlg' = [Closed EXCEPT !.open = TRUE]
    /\ flights' = Dropped
    /\ UNCHANGED <<card, lookups, known, first, used>>

\* "Entiendo, continuar" mounts the form; its fields are ready later, or never.
Consent ==
    /\ dlg.open /\ dlg.form = 0 /\ Used(1)
    /\ dlg' = [dlg EXCEPT !.form = used + 1]
    /\ UNCHANGED <<card, lookups, flights, known, first>>

FieldsReady ==
    /\ dlg.form # 0 /\ ~dlg.ready
    /\ dlg' = [dlg EXCEPT !.ready = TRUE]
    /\ UNCHANGED <<card, lookups, flights, known, first, used>>

\* Escape, the backdrop, the cross, or the end of the animation of a success.
CloseModal ==
    /\ dlg.open
    /\ dlg' = [dlg EXCEPT !.open = FALSE]
    /\ UNCHANGED <<card, lookups, flights, known, first, used>>

\* The exit animation ends.
Unmount ==
    /\ ~dlg.open /\ dlg.form # 0
    /\ dlg' = [Closed EXCEPT !.success = dlg.success]
    /\ flights' = Dropped
    /\ UNCHANGED <<card, lookups, known, first, used>>

\* binChange: the method of the previous number is forgotten.
TypeCard(bin) ==
    /\ dlg.form # 0 /\ dlg.ready /\ bin # card[dlg.form].bin /\ Used(1)
    /\ card' = [card EXCEPT ![dlg.form] = [bin |-> bin, method |-> NoBin]]
    /\ lookups' = IF bin = NoBin THEN lookups ELSE lookups \cup {<<bin, "method", dlg.form>>}
    /\ flights' = {[f EXCEPT !.edited = @ \/ (f.kind = "token" /\ f.form = dlg.form)] : f \in flights}
    /\ UNCHANGED <<dlg, known, first>>

Resolve_Late(q) ==
    /\ lookups' = (lookups \ {q}) \cup
         (IF q[2] = "method" THEN {<<q[1], "issuer", q[3]>>} ELSE {})
    /\ card' = IF q[2] = "issuer" THEN [card EXCEPT ![q[3]].method = q[1]] ELSE card
    /\ UNCHANGED <<dlg, flights, known, first, used>>

\* resolvePaymentMethod: two questions, and after each the number must still be there;
\* a form that is gone goes on for the token it waits for.
Resolve(q) ==
    LET current == q[1] = card[q[3]].bin
    IN  /\ lookups' = (lookups \ {q}) \cup
             (IF current /\ q[2] = "method" THEN {<<q[1], "issuer", q[3]>>} ELSE {})
        /\ card' = IF current /\ q[2] = "issuer" THEN [card EXCEPT ![q[3]].method = q[1]] ELSE card
        /\ UNCHANGED <<dlg, flights, known, first, used>>

------------------------------------------------------------------------------
(* The submit.                                                              *)

Fly(gone, new) == flights' = (flights \ gone) \cup new

\* createCardPaymentData needs the method of the card and asks for its token.
Submit ==
    /\ dlg.form # 0 /\ dlg.ready /\ ~dlg.busy /\ card[dlg.form].method # NoBin
    /\ created < plan.creates
    /\ dlg' = [dlg EXCEPT !.busy = TRUE, !.lost = FALSE]
    /\ Fly({}, {[Flight("token", dlg.form) EXCEPT !.bin = card[dlg.form].bin]})
    /\ UNCHANGED <<card, lookups, known, first, used>>

\* With the token goes the method the card has by then; none is an error.
MethodOf(f) == card[f.form].method

NoToken(f) ==
    /\ f.kind = "token" /\ MethodOf(f) = NoBin
    /\ Fly({f}, {}) /\ dlg' = Stops(f.form)
    /\ UNCHANGED <<card, lookups, known, first, used>>

\* The request, which `t` serves; NoTask is a guarantee found alive, of that status.
PostHold(f, t, status) ==
    /\ f.kind = "token" /\ MethodOf(f) # NoBin
    /\ Fly({f}, {[f EXCEPT !.kind = "post", !.method = MethodOf(f), !.task = t, !.status = status]})
    /\ UNCHANGED <<dlg, card, lookups, known, first, used>>

PostAnswer_Stuck(f, status) ==
    /\ IF status = "pending" THEN Fly({f}, {[Flight("poll", f.form) EXCEPT !.attempt = 1]})
       ELSE Fly({f}, {})
    /\ IF status \in {"pending", "error", "failed"} THEN UNCHANGED <<dlg, known>> ELSE Reports(Stops(f.form), status)
    /\ UNCHANGED <<card, lookups, first, used>>

PostAnswer(f, status) ==
    /\ IF status = "pending"
       THEN /\ Fly({f}, {[Flight("poll", f.form) EXCEPT !.attempt = 1]})
            /\ UNCHANGED <<dlg, known>>
       ELSE /\ Fly({f}, {})
            /\ IF status = "error" THEN dlg' = Stops(f.form) /\ UNCHANGED known
               ELSE Reports(Stops(f.form), status)
    /\ UNCHANGED <<card, lookups, first, used>>

\* pollUntilResolved: GET /garantia/me, again after a while unless it was the last one.
PollServed(f, status) ==
    /\ f.kind = "poll" /\ f.status = "asked"
    /\ Fly({f}, {[f EXCEPT !.status = status]})
    /\ UNCHANGED <<dlg, card, lookups, known, first, used>>

PollArrives(f) ==
    /\ f.kind = "poll" /\ f.status # "asked"
    /\ IF f.status \in {"none", "pending"}
       THEN /\ UNCHANGED known
            /\ IF f.attempt >= PollMax THEN Fly({f}, {}) /\ dlg' = Stops(f.form)
               ELSE Fly({f}, {[Flight("timer", f.form) EXCEPT !.attempt = f.attempt + 1]})
                    /\ UNCHANGED dlg
       ELSE Fly({f}, {}) /\ Reports(Stops(f.form), f.status)
    /\ UNCHANGED <<card, lookups, first, used>>

\* Nobody catches it: the form goes on saying that it is processing.
PollFails(f) ==
    /\ f.kind = "poll" /\ Fault
    /\ Fly({f}, {})
    /\ dlg' = [dlg EXCEPT !.lost = @ \/ dlg.form = f.form]
    /\ UNCHANGED <<card, lookups, known, first, used>>

PollAgain(f) ==
    /\ f.kind = "timer"
    /\ Fly({f}, {[f EXCEPT !.kind = "poll"]})
    /\ UNCHANGED <<dlg, card, lookups, known, first, used>>
==============================================================================
