------------------------------ MODULE PostAuction ------------------------------
(***************************************************************************)
(* The case opened when a lote is sold, from the event of the sale to the  *)
(* last status, and the page on which the staff of the empresa moves it.   *)
(*                                                                         *)
(* Every replica runs a consumer that is sent every event and handles them *)
(* one at a time; the unique index on the lote leaves one case.  Requests  *)
(* read a case without a lock and write the columns they changed.          *)
(*                                                                         *)
(* A buyer stands for the one lote he wins.                                *)
(***************************************************************************)
EXTENDS Integers, Sequences, FiniteSets, Functions

CONSTANTS
    Buyers,
    Plans,          \* where a behaviour starts and how far it goes
    Slots,          \* requests on a case that can be in flight at once
    Nodes,          \* replicas of the backend
    NoBuyer

\* start: the guarantee each buyer starts with; moves: what happens; targets: the
\* statuses the staff chooses; replicas: how many of them there are; creates, asks,
\* faults: bounds on the guarantees asked for, on the requests on a case and on what
\* fails.
Moves == {"end", "late", "lapse", "hook", "clock", "modal", "desk", "docs"}
Plan  == [start : [Buyers -> {"none", "active", "failed"}], sells : SUBSET Buyers,
          moves : SUBSET Moves, targets : SUBSET (1..8), replicas : SUBSET Nodes \ {{}},
          creates : Nat, asks : Nat, faults : Nat]

ASSUME PlansAssumption == Plans \subseteq Plan /\ NoBuyer \notin Buyers

VARIABLES
    plan,
    faults,
    remate,     \* remates.status: live, finished, cancelled
    sold,       \* buyers whose lote was sold
    feed,       \* per replica: sales its consumer has not handled
    opening,    \* per replica: the sale it is handling, <<buyer, what is next>>
    cases,      \* postauction_cases: status (0 is no case), milestones, documents;
                \* at counts the changes committed
    change,     \* requests on a case
    asked,      \* requests on a case so far
    files,      \* files of documents in the store
    desk,       \* VentaAdjudicadaDetailPage
    loads       \* its GETs in flight

sale == <<remate, sold, feed, opening>>
post == <<cases, change, asked, files, desk, loads>>

Replicas == plan.replicas
Fault    == faults < plan.faults /\ faults' = faults + 1

\* STATUS_ORDER, and the statuses that have a date of their own.
Statuses   == 1..8
Milestones == {3, 4, 6, 7, 8}
NoCase     == [status |-> 0, stamps |-> {}, docs |-> {}, at |-> 0]

------------------------------------------------------------------------------
(* From the sale to the case.                                               *)

\* The winner is in the event, or is the leading oferta when it is read: a sold lote
\* keeps its leader.
Sell(b) ==
    /\ b \in plan.sells \ sold /\ remate = "live"
    /\ sold' = sold \cup {b}
    /\ feed' = [r \in Replicas |-> Append(feed[r], b)]
    /\ UNCHANGED <<plan, faults, remate, opening, post>>

\* create_case_from_winner: get_by_lote_id.
LookForCase(r) ==
    /\ feed[r] # <<>> /\ opening[r] = <<>>
    /\ feed' = [feed EXCEPT ![r] = Tail(@)]
    /\ opening' = IF cases[Head(feed[r])] = NoCase
                  THEN [opening EXCEPT ![r] = <<Head(feed[r]), "insert">>] ELSE opening
    /\ UNCHANGED <<plan, faults, remate, sold, post>>

\* flush, which the unique index may refuse, and commit.
OpenCase(r) ==
    /\ opening[r] # <<>> /\ opening[r][2] = "insert"
    /\ LET b == opening[r][1]
       IN  IF cases[b] = NoCase
           THEN /\ cases' = [cases EXCEPT ![b] = [NoCase EXCEPT !.status = 1]]
                /\ opening' = [opening EXCEPT ![r] = <<b, "publish">>]
           ELSE UNCHANGED cases /\ opening' = [opening EXCEPT ![r] = <<>>]
    /\ UNCHANGED <<plan, faults, remate, sold, feed, change, asked, files, desk, loads>>

\* The half of PostAuctionCaseCreated that this module sees; it is published by
\* Garantias, which has its consumers.
Published(r) ==
    /\ opening[r] # <<>> /\ opening[r][2] = "publish"
    /\ opening' = [opening EXCEPT ![r] = <<>>]

LoseSale(r) ==
    /\ feed[r] # <<>> /\ opening[r] = <<>> /\ Fault
    /\ feed' = [feed EXCEPT ![r] = Tail(@)]
    /\ UNCHANGED <<plan, remate, sold, opening, post>>

------------------------------------------------------------------------------
(* Requests on a case.  `by` says who waits for the answer: the dialog that  *)
(* sent it, the journey of the page after the dialog was closed, the page    *)
(* only, or a colleague.                                                    *)

NoChange == [op |-> "none"]
Request(op, b, by, to, doc) ==
    [op |-> op, pc |-> "sent", buyer |-> b, by |-> by, to |-> to, doc |-> doc,
     seen |-> NoCase, ok |-> FALSE, at |-> 0]

Sends(s, q) ==
    /\ change[s] = NoChange /\ asked < plan.asks
    /\ cases[q.buyer] # NoCase
    /\ change' = [change EXCEPT ![s] = q]
    /\ asked' = asked + 1

\* Another member of the staff.
Colleague(s, b) ==
    /\ "desk" \in plan.moves
    /\ \/ \E to \in plan.targets : Sends(s, Request("status", b, "other", to, 0))
       \/ "docs" \in plan.moves /\ \E d \in cases[b].docs : Sends(s, Request("delete", b, "other", 0, d))
    /\ UNCHANGED <<plan, faults, sale, cases, files, desk, loads>>

Answers(s, ok) == change' = [change EXCEPT ![s] = [@ EXCEPT !.pc = "answer", !.ok = ok]]

Allowed_AnyOther(from, to) == to # from
\* ALLOWED_TRANSITIONS.
Allowed(from, to) == to > from

\* The case is read; the request is refused by the table, or if the document is gone.
ReadCase(s) ==
    /\ change[s].op # "none" /\ change[s].pc = "sent"
    /\ LET q == change[s]
           c == cases[q.buyer]
       IN  IF \/ q.op = "status" /\ ~Allowed(c.status, q.to)
              \/ q.op = "delete" /\ q.doc \notin c.docs
           THEN Answers(s, FALSE)
           ELSE change' = [change EXCEPT ![s] = [q EXCEPT !.pc = IF q.op = "upload" THEN "store" ELSE "commit",
                                                        !.seen = c]]
    /\ UNCHANGED <<plan, faults, sale, cases, asked, files, desk, loads>>

StoreFile_NotStored(s) ==
    /\ change[s].op = "upload" /\ change[s].pc = "store"
    /\ change' = [change EXCEPT ![s].pc = "commit"]
    /\ UNCHANGED <<plan, faults, sale, cases, asked, files, desk, loads>>

\* save_postauction_document: the file is there before its row.
StoreFile(s) ==
    /\ change[s].op = "upload" /\ change[s].pc = "store"
    /\ files' = files \cup {change[s].doc}
    /\ change' = [change EXCEPT ![s].pc = "commit"]
    /\ UNCHANGED <<plan, faults, sale, cases, asked, desk, loads>>

\* The date of the new status is written unless it had one when the request read it.
Stamped(c, q) == c.stamps \cup (({q.to} \cap Milestones) \ q.seen.stamps)

\* The columns a request changes in the case `c`.
Changed(c, q) ==
    [status |-> IF q.op = "status" THEN q.to ELSE c.status,
     stamps |-> IF q.op = "status" THEN Stamped(c, q) ELSE c.stamps,
     docs   |-> CASE q.op = "upload" -> c.docs \cup {q.doc}
                  [] q.op = "delete" -> c.docs \ {q.doc}
                  [] OTHER -> c.docs,
     at     |-> c.at + 1]

CommitChange(s) ==
    /\ change[s].op # "none" /\ change[s].pc = "commit"
    /\ LET q == change[s]
       IN  /\ cases' = [cases EXCEPT ![q.buyer] = Changed(@, q)]
           /\ change' = [change EXCEPT ![s] = [q EXCEPT !.pc = IF q.op = "delete" THEN "unlink" ELSE "answer",
                                                      !.ok = TRUE, !.at = cases[q.buyer].at + 1]]
    /\ UNCHANGED <<plan, faults, sale, asked, files, desk, loads>>

\* delete_postauction_document_file, after the commit.
RemoveFile(s) ==
    /\ change[s].op = "delete" /\ change[s].pc = "unlink"
    /\ files' = files \ {change[s].doc}
    /\ Answers(s, TRUE)
    /\ UNCHANGED <<plan, faults, sale, cases, asked, desk, loads>>

\* The process stops, or the request fails before its next step: the page gets an error.
BreakRequest(s) ==
    /\ "desk" \in plan.moves
    /\ change[s].op # "none" /\ change[s].pc # "answer" /\ Fault
    /\ Answers(s, FALSE)
    /\ UNCHANGED <<plan, sale, cases, asked, files, desk, loads>>

\* Nobody here waits for what a colleague is told.
ColleagueIsTold(s) ==
    /\ change[s].op # "none" /\ change[s].pc = "answer" /\ change[s].by = "other"
    /\ change' = [change EXCEPT ![s] = NoChange]
    /\ UNCHANGED <<plan, faults, sale, cases, asked, files, desk, loads>>
------------------------------------------------------------------------------
(* VentaAdjudicadaDetailPage.                                               *)

NoDesk == [buyer |-> NoBuyer, data |-> NoCase, token |-> 0, error |-> FALSE, target |-> 0,
           sending |-> FALSE, told |-> 0]

\* useAsyncResource: each load has a token, and only the last one may answer.
Load(d) ==
    /\ desk' = [d EXCEPT !.token = @ + 1, !.error = FALSE]
    /\ loads' = loads \cup {[token |-> d.token + 1, data |-> NoCase]}

OpenDesk(b) ==
    /\ "desk" \in plan.moves /\ desk = NoDesk /\ cases[b] # NoCase
    /\ Load([desk EXCEPT !.buyer = b])
    /\ UNCHANGED <<plan, faults, sale, cases, change, asked, files>>

ServeLoad(l) ==
    /\ l.data = NoCase
    /\ loads' = (loads \ {l}) \cup {[l EXCEPT !.data = cases[desk.buyer]]}
    /\ UNCHANGED <<plan, faults, sale, cases, change, asked, files, desk>>

LoadArrives_Any(l) ==
    /\ l.data # NoCase
    /\ loads' = loads \ {l}
    /\ desk' = [desk EXCEPT !.data = l.data]
    /\ UNCHANGED <<plan, faults, sale, cases, change, asked, files>>

LoadArrives(l) ==
    /\ l.data # NoCase
    /\ loads' = loads \ {l}
    /\ desk' = IF l.token = desk.token THEN [desk EXCEPT !.data = l.data] ELSE desk
    /\ UNCHANGED <<plan, faults, sale, cases, change, asked, files>>

Detach(from, to) ==
    change' = [s \in Slots |-> IF change[s].op = "status" /\ change[s].by \in from
                              THEN [change[s] EXCEPT !.by = to] ELSE change[s]]

\* The error takes the place of the journey and of the dialog it had open.
LoadFails(l) ==
    /\ Fault
    /\ loads' = loads \ {l}
    /\ IF l.token = desk.token
       THEN /\ desk' = [desk EXCEPT !.error = TRUE, !.target = 0, !.sending = FALSE]
            /\ Detach({"dialog", "journey"}, "page")
       ELSE UNCHANGED <<desk, change>>
    /\ UNCHANGED <<plan, sale, cases, asked, files>>

\* "Reintentar".
RetryLoad ==
    /\ desk.error /\ Load(desk)
    /\ UNCHANGED <<plan, faults, sale, cases, change, asked, files>>

Usable == desk.data # NoCase /\ ~desk.error

\* SaleJourney: the next status, or any later one; the choice stays while the page
\* loads again.
PickTarget(to) ==
    /\ Usable /\ desk.target = 0 /\ to > desk.data.status /\ asked < plan.asks
    /\ desk' = [desk EXCEPT !.target = to, !.sending = FALSE]
    /\ UNCHANGED <<plan, faults, sale, cases, change, asked, files, loads>>

\* Escape, the backdrop and the cross close the dialog even while it sends.
CloseDialog ==
    /\ desk.target # 0
    /\ desk' = [desk EXCEPT !.target = 0, !.sending = FALSE]
    /\ Detach({"dialog"}, "journey")
    /\ UNCHANGED <<plan, faults, sale, cases, asked, files, loads>>

Confirm(s) ==
    /\ desk.target # 0 /\ ~desk.sending
    /\ Sends(s, Request("status", desk.buyer, "dialog", desk.target, 0))
    /\ desk' = [desk EXCEPT !.sending = TRUE]
    /\ UNCHANGED <<plan, faults, sale, cases, files, loads>>

\* NoteForm, and DocumentationCard: a document is a new file each time.
SendFromDesk(s) ==
    /\ Usable /\ "docs" \in plan.moves
    /\ \/ Sends(s, Request("note", desk.buyer, "page", 0, 0))
       \/ Sends(s, Request("upload", desk.buyer, "page", 0, asked + 1))
       \/ \E d \in desk.data.docs : Sends(s, Request("delete", desk.buyer, "page", 0, d))
    /\ UNCHANGED <<plan, faults, sale, cases, files, desk, loads>>

\* An answer reaches the page: what succeeded loads the case again, and a change of
\* status that succeeded closes the dialog of its journey that is open, whichever it is.
Answered(s) ==
    /\ change[s].op # "none" /\ change[s].pc = "answer" /\ change[s].by # "other"
    /\ change' = [change EXCEPT ![s] = NoChange]
    /\ LET q == change[s]
           d == IF q.by = "dialog" \/ (q.by = "journey" /\ q.ok)
                THEN [desk EXCEPT !.target = IF q.ok THEN 0 ELSE @, !.sending = FALSE] ELSE desk
       IN  IF q.ok
           THEN Load([d EXCEPT !.told = IF q.at > @ THEN q.at ELSE @])
           ELSE desk' = d /\ UNCHANGED loads
    /\ UNCHANGED <<plan, faults, sale, cases, asked, files>>

PostAuctionStep ==
    \/ \E b \in Buyers : Sell(b) \/ OpenDesk(b)
    \/ \E r \in Replicas : LookForCase(r) \/ OpenCase(r) \/ LoseSale(r)
    \/ \E s \in Slots :
         \/ \E b \in Buyers : Colleague(s, b)
         \/ ReadCase(s) \/ StoreFile(s) \/ CommitChange(s) \/ RemoveFile(s) \/ BreakRequest(s)
         \/ ColleagueIsTold(s) \/ Confirm(s) \/ SendFromDesk(s) \/ Answered(s)
    \/ \E l \in loads : ServeLoad(l) \/ LoadArrives(l) \/ LoadFails(l)
    \/ \E to \in plan.targets : PickTarget(to)
    \/ RetryLoad \/ CloseDialog
==============================================================================
