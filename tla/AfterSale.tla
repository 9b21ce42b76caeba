------------------------------- MODULE AfterSale -------------------------------
(***************************************************************************)
(* Guarantees and sales together: PostAuction opens the case of a sale and *)
(* announces it, Garantias captures the guarantee of the buyer or releases *)
(* it when the remate ends, and GarantiaModal is the room of one buyer,    *)
(* whose requests Garantias serves beside those of other tabs.             *)
(***************************************************************************)
EXTENDS GarantiaModal

vars == <<plan, faults, sale, post, hold, modal>>

\* Where a behaviour starts: the guarantees some buyers already left, or failed to.
Init ==
    /\ plan \in Plans /\ faults = 0
    /\ remate = "live" /\ sold = {}
    /\ feed = [r \in Replicas |-> <<>>] /\ opening = [r \in Replicas |-> <<>>]
    /\ cases = [b \in Buyers |-> NoCase] /\ change = [s \in Slots |-> NoChange]
    /\ asked = 0 /\ files = {} /\ desk = NoDesk /\ loads = {}
    /\ row = [b \in Buyers |-> IF plan.start[b] = "none" THEN NoRow
                               ELSE [status |-> plan.start[b], pay |-> 1]]
    /\ pays = [b \in Buyers |-> CASE plan.start[b] = "none" -> <<>>
                                  [] plan.start[b] = "active" -> <<"authorized">>
                                  [] plan.start[b] = "failed" -> <<"rejected">>]
    /\ due = {} /\ task = [t \in Tasks |-> Idle]
    /\ queue = [r \in Replicas |-> <<>>] /\ created = 0 /\ past = {}
    /\ dlg = Closed /\ card = [n \in 1..Mounts |-> NoCard] /\ lookups = {} /\ flights = {}
    /\ known = "none" /\ first = "asked" /\ used = 0

Waited == {f.task : f \in {f \in flights : f.kind = "post"}}

\* A sale, its case and the page of the staff.
OnTheCase == PostAuctionStep /\ UNCHANGED <<hold, modal>>

\* What both halves share: the announcement of a case and the end of the remate.
Shared ==
    /\ \/ \E r \in Replicas : Announce(r)
       \/ \E to \in {"finished", "cancelled"} : EndRemate(to)
    /\ UNCHANGED <<plan, faults, post, modal>>

OnTheHold == (GarantiaStep \/ GarantiaFault) /\ UNCHANGED <<plan, sale, post, modal>>

\* Another tab of a buyer asks for a guarantee.
OtherTab ==
    /\ \/ "modal" \notin plan.moves /\ \E t \in Requests, b \in Buyers : AskHold(t, b)
       \/ \E t \in Requests \ Waited : TabIsTold(t)
    /\ UNCHANGED <<plan, faults, sale, post, modal>>

\* The room asks, and is answered.
RoomAsks(f) ==
    /\ \/ row[Me].status \in {"active", "pending"} /\ PostHold(f, NoTask, row[Me].status) /\ UNCHANGED hold
       \/ \E t \in Requests : AskHold(t, Me) /\ PostHold(f, t, "asked")
    /\ UNCHANGED <<plan, faults, sale, post>>

RoomIsAnswered(f) ==
    /\ f.kind = "post"
    /\ IF f.task = NoTask THEN PostAnswer(f, f.status) /\ UNCHANGED hold
       ELSE /\ On(f.task, "create", "done")
            /\ PostAnswer(f, task[f.task].result)
            /\ TabIsTold(f.task)
    /\ UNCHANGED <<plan, faults, sale, post>>

InTheRoom ==
    /\ \/ FirstAnswered(row[Me].status) \/ FirstArrives
       \/ OpenDialog \/ Consent \/ FieldsReady \/ CloseModal \/ Unmount \/ Submit
       \/ \E bin \in Bins \cup {NoBin} : TypeCard(bin)
       \/ \E q \in lookups : Resolve(q)
       \/ \E f \in flights : NoToken(f) \/ PollServed(f, row[Me].status) \/ PollArrives(f) \/ PollAgain(f)
    /\ UNCHANGED <<plan, faults, sale, post, hold>>

Next ==
    \/ OnTheCase \/ Shared \/ OnTheHold \/ OtherTab
    \/ \E f \in flights : RoomAsks(f) \/ RoomIsAnswered(f)
    \/ InTheRoom
    \/ \E f \in flights : PollFails(f) /\ UNCHANGED <<plan, sale, post, hold>>

------------------------------------------------------------------------------
(* Fairness: consumers handle what they receive, requests and Mercado Pago  *)
(* are answered, a timer fires, and a payment that is pending is decided.   *)
(* Nobody has to sell, end, open a dialog or notify.                        *)

Consumes(r) ==
    /\ TakeCase(r) \/ TakeEnd(r) \/ CallCapture(r) \/ CallCancel(r) \/ SaveCapture(r) \/ SaveRelease(r)
    /\ UNCHANGED <<plan, faults, sale, post, modal>>

Serves(t) == (FlushHold(t) \/ CallHold(t) \/ SaveHold(t)) /\ UNCHANGED <<plan, faults, sale, post, modal>>

Network ==
    \E f \in flights :
        \/ RoomAsks(f) \/ RoomIsAnswered(f)
        \/ (NoToken(f) \/ PollServed(f, row[Me].status) \/ PollArrives(f) \/ PollAgain(f))
           /\ UNCHANGED <<plan, faults, sale, post, hold>>

Fairness ==
    /\ \A r \in Nodes : WF_vars(r \in Replicas /\ Consumes(r))
    /\ \A t \in Requests : WF_vars(Serves(t))
    /\ WF_vars(Network)

Spec == Init /\ [][Next]_vars /\ Fairness

------------------------------------------------------------------------------
TypeOK ==
    /\ plan \in Plan /\ faults \in 0..plan.faults
    /\ remate \in {"live", "finished", "cancelled"} /\ sold \subseteq Buyers
    /\ cases \in [Buyers -> [status : 0..8, stamps : SUBSET Milestones, docs : SUBSET Nat, at : Nat]]
    /\ row \in [Buyers -> Row]
    /\ \A b \in Buyers : pays[b] \in Seq(PayStates) /\ row[b].pay <= Len(pays[b])
    /\ due \subseteq Buyers
    /\ \A t \in Requests : task[t].op \in {"idle", "create"}
    /\ \A r \in Replicas : task[r].op \in {"idle", "capture", "release"}
    /\ dlg.form \in 0..Mounts /\ known \in {"none", "pending", "active", "captured", "released", "expired", "failed"}

Alive(b) == {n \in DOMAIN pays[b] : pays[b][n] \in {"pending", "authorized"}}

\* Payments a task has made or settled and not yet written to the row of `b`.
Unwritten(b) == {task[t].pay : t \in {t \in Requests : On(t, "create", "save") /\ task[t].buyer = b}}
BeingSettled(b) == \E r \in Replicas : /\ task[r].op \in {"capture", "release"} /\ task[r].pc = "save"
                                   /\ task[r].buyer = b /\ task[r].seen.pay = row[b].pay

\* While nothing fails and no task writes a row that another had read, the row of a
\* buyer tells what became of the payment it names, and unless the scheduler ever
\* expired it no other payment of his is held.
RowTellsThePayment ==
    \A b \in Buyers :
        LET st == IF row[b].pay = 0 THEN "none" ELSE pays[b][row[b].pay]
        IN  faults = 0 /\ <<b, "overlap">> \notin past =>
            /\ BeingSettled(b) \/ st \in [none |-> {"none"}, active |-> {"authorized", "cancelled"},
                     pending |-> {"pending", "authorized", "cancelled", "rejected"},
                     captured |-> {"approved"}, released |-> {"cancelled"},
                     expired |-> {"authorized", "cancelled"},
                     failed |-> {"rejected", "cancelled"}][row[b].status]
            /\ <<b, "expired">> \notin past => Alive(b) \subseteq {row[b].pay} \cup Unwritten(b)

\* Whatever fails and however tasks overlap, a payment is taken only from a buyer who
\* has a case, and each replica takes at most one for it.
ChargesAreForCases ==
    \A b \in Buyers :
        Cardinality({n \in DOMAIN pays[b] : pays[b][n] = "approved"})
          <= IF cases[b] = NoCase THEN 0 ELSE Cardinality(Replicas)

\* A replica that has been told of the case of a buyer does not cancel the guarantee he
\* bid with when the remate ends: it cancels a payment of his only if the case was
\* announced after the end, an event was lost, or he left a new guarantee in the meantime.
WinnerIsNotReleased ==
    [][\A r \in Replicas, b \in Buyers :
          /\ On(r, "release", "call") /\ task'[r] # task[r] /\ task'[r].op = "release"
          /\ task'[r].buyer = b /\ plan.start[b] = "active"
         => \/ faults > 0
            \/ cases[b] = NoCase \/ \E q \in Replicas : opening[q] = <<b, "publish">>
            \/ <<"case", b>> \in Range(queue[r])
            \/ Len(pays[b]) > 1]_vars

\* A payment that ran out at Mercado Pago, and was not cancelled by the release.
RanOut(b) == row[b].pay # 0 /\ row[b].status # "released" /\ pays[b][row[b].pay] = "cancelled" /\ ~BeingSettled(b)

\* A guarantee that is active before any replica handles the end of the remate does not
\* stay active: one of them captures or releases it, though what one does ends the work
\* of another, unless a payment ran out at Mercado Pago, which ends the work of all.
EndSettlesGuarantees ==
    \A b \in Buyers :
        (remate # "live" /\ row[b].status = "active" /\ faults = 0
           /\ \A r \in Replicas : <<"end", NoBuyer>> \in Range(queue[r]))
          ~> (row[b].status # "active" \/ faults > 0 \/ \E c \in Buyers : RanOut(c))

\* A case goes back only when two changes of status overlap: each one was allowed by
\* the status it read.
GoesBackOnlyByOverlap ==
    [][\A b \in Buyers :
          cases'[b].status < cases[b].status =>
            \E s \in Slots : /\ change[s].op = "status" /\ change[s].pc = "commit" /\ change[s].buyer = b
                             /\ change[s].seen.status < cases'[b].status
                             /\ change[s].seen.at < cases[b].at]_vars

\* A document that is listed has its file, whatever request stops half way: an upload
\* stores the file before the row, a deletion removes it after.
DocumentsHaveFiles == \A b \in Buyers : cases[b].docs \subseteq files

\* A page that is not loading shows every change it was told had succeeded, however
\* its loads overlapped, unless it shows an error.
OwnChangesShow ==
    desk.buyer # NoBuyer =>
        \/ desk.error
        \/ \E l \in loads : l.token = desk.token
        \/ desk.data.at >= desk.told

\* A form that is processing stops doing so, or a poll of it failed and it never will.
SubmitEnds ==
    \A n \in 1..Mounts : (dlg.form = n /\ dlg.busy) ~> (dlg.form # n \/ ~dlg.busy \/ dlg.lost)

\* The token of a card is sent with the method of that card, unless the number was
\* edited while the token was on its way.
TokenMatchesCard ==
    \A f \in flights : f.kind = "post" => f.method = f.bin \/ f.edited
==============================================================================
