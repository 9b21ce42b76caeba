----------------------------- MODULE SalaReducer -----------------------------
(***************************************************************************)
(* The pure half of the buyer's room: how one domain event patches the     *)
(* list of lotes and the snapshot a page keeps in memory.                  *)
(*                                                                         *)
(* An oferta is its place in the server's history, 0 is none.  What only   *)
(* decorates the screen is abstracted: the recent offers, the presence     *)
(* counter and the stream.                                                 *)
(***************************************************************************)
EXTENDS Naturals

CONSTANTS Lotes, NoLote

RoomStatus == {"none", "live", "paused", "finished"}
TimerState == {"none", "running", "paused"}
ListStatus == {"absent", "pending", "open", "closed_sold", "closed_unsold", "cancelled"}

\* The snapshot: status "none" is a snapshot that has not arrived.
View == [status : RoomStatus, lote : Lotes \cup {NoLote}, timer : TimerState, winner : Nat]

\* The list of useLotes, "absent" until it is loaded.
LoteList == [Lotes -> [status : ListStatus, timer : TimerState]]

\* A domain event, with the place of its commit in the server's history.
Event ==
    [v : Nat,
     type : {"remate", "lote.opened", "lote.closed", "lote.cancelled", "lote.requeued",
             "lote.timer", "oferta.accepted"},
     lote : Lotes \cup {NoLote},
     arg : RoomStatus \cup TimerState \cup ListStatus,
     oferta : Nat]

NoView == [status |-> "none", lote |-> NoLote, timer |-> "none", winner |-> 0]
NoList == [l \in Lotes |-> [status |-> "absent", timer |-> "none"]]

PatchLote_KeepsTimer(list, l, status, timer) ==
    IF list[l].status = "absent" THEN list ELSE [list EXCEPT ![l].status = status]

\* patchLote: a lote that is not in the list is not added to it.
PatchLote(list, l, status, timer) ==
    IF list[l].status = "absent" THEN list
    ELSE [list EXCEPT ![l] = [status |-> status, timer |-> timer]]

\* applyDomainEventToLotes.
ApplyToLotes(list, e) ==
    CASE e.type = "lote.opened"    -> PatchLote(list, e.lote, "open", list[e.lote].timer)
      [] e.type = "lote.closed"    -> PatchLote(list, e.lote, e.arg, "none")
      [] e.type = "lote.cancelled" -> PatchLote(list, e.lote, "cancelled", list[e.lote].timer)
      [] e.type = "lote.requeued"  -> PatchLote(list, e.lote, "pending", list[e.lote].timer)
      [] e.type = "lote.timer"     -> PatchLote(list, e.lote, list[e.lote].status, e.arg)
      [] OTHER                     -> list

Opened_KeepsWinner(view, e, list) ==
    IF list[e.lote].status = "absent" THEN view
    ELSE [view EXCEPT !.lote = e.lote, !.timer = list[e.lote].timer]

\* "lote.opened" brings only the id: the lote itself comes from the list.
Opened(view, e, list) ==
    IF list[e.lote].status = "absent" THEN view
    ELSE [view EXCEPT !.lote = e.lote, !.timer = list[e.lote].timer, !.winner = 0]

\* "lote.closed" and "lote.cancelled" touch the lote on screen and no other.
Ended(view, e) ==
    IF view.lote # e.lote THEN view ELSE [view EXCEPT !.lote = NoLote, !.timer = "none"]

TimerMoved(view, e) ==
    IF view.lote # e.lote THEN view ELSE [view EXCEPT !.timer = e.arg]

\* "oferta.accepted" becomes the winning offer of whatever lote is on screen.
Accepted(view, e) == [view EXCEPT !.winner = e.oferta]

\* applyDomainEventToSnapshot.
ApplyToView(view, e, list) ==
    CASE e.type = "remate"          -> [view EXCEPT !.status = e.arg]
      [] e.type = "lote.opened"     -> Opened(view, e, list)
      [] e.type \in {"lote.closed", "lote.cancelled"} -> Ended(view, e)
      [] e.type = "lote.timer"      -> TimerMoved(view, e)
      [] e.type = "oferta.accepted" -> Accepted(view, e)
      [] OTHER                      -> view
==============================================================================
