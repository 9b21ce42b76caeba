--------------------------------- MODULE Sala ---------------------------------
(***************************************************************************)
(* A buyer in the live room of a remate: the server's history, the events  *)
(* it publishes after each commit, the Gateway that forwards them to the   *)
(* room, the socket of the page, the three sources the page builds its     *)
(* state from (two HTTP answers and the socket) and the form that bids.    *)
(*                                                                         *)
(* Events carry the place of their commit in the server's history.  `sync` *)
(* and `listSync` are history variables: how far the page is known to have *)
(* followed that history, -1 when it missed an event or took one out of    *)
(* order.  No action of the code reads them.                               *)
(*                                                                         *)
(* The server is RemateLive seen from the room, one action per commit.     *)
(***************************************************************************)
EXTENDS Integers, Sequences, SalaReducer

CONSTANTS
    Plans,          \* where a behaviour starts and how far it goes
    NoCache         \* no snapshot of the remate in Redis

\* inside: the lotes the buyer is watching when the behaviour starts, none when
\* he is entering; moves: what the server does; ver, amount, tokens, faults: the
\* bounds on its commits that publish, on the amounts (base_price and
\* min_increment are 1), on the client tokens the page draws and on what fails.
Moves == {"remate", "open", "sold", "unsold", "cancel", "requeue", "timer", "rival"}
Plan  == [inside : SUBSET Lotes, moves : SUBSET Moves, ver : Nat, amount : Nat,
          tokens : Nat, faults : Nat]

ASSUME PlansAssumption ==
    /\ NoLote \notin Lotes
    /\ Plans \subseteq Plan
    /\ \A p \in Plans : \A l, m \in p.inside : l = m

VARIABLES
    plan,       \* the plan of this behaviour
    status,     \* remates.status
    lot,        \* lotes: status and countdown
    round,      \* lotes.round_number
    ofertas,    \* rows of ofertas, oldest first
    ver,        \* commits so far that publish an event
    outbox,     \* events committed and not published: one sequence per request
    cache,      \* Redis: the raw part of the last snapshot
    conn,       \* ConnectionStatus of the page's socket
    retry,      \* reconnectTimer
    member,     \* the Gateway has the connection in the room
    owed,       \* its join_room at the Gateway: none, sent, refused, and then the
                \* snapshot: asked, remate read, lote read
    chan,       \* messages sent to the page
    page,       \* GET snapshot: asked, remate read, lote read, an answer on its way,
                \* done, failed
    lotes,      \* GET lotes: the same
    view, list, \* liveSnapshot and liveLotes
    sync, listSync,
    shown,      \* the snapshot of the last render: what the buyer and the refs see
    won,        \* the lote of LoteWonOverlay
    left,       \* the page is unmounted
    form,       \* PlaceBidButton
    reqs,       \* bids in flight
    told,       \* bids the page announced as accepted
    drawn,      \* client tokens drawn so far
    faults

server == <<status, lot, round, ofertas, ver, outbox>>
net    == <<conn, retry, member, owed, chan>>
state  == <<view, list, sync, listSync>>
client == <<state, shown, won, left, page, lotes>>
bids   == <<form, reqs, told, drawn>>
vars   == <<plan, server, cache, net, client, bids, faults>>

Oferta == [lote : Lotes, mine : BOOLEAN, amount : 1..plan.amount, token : 0..plan.tokens,
           status : {"accepted", "outbid", "rejected"}]
Synced == [at : -1..plan.ver, fresh : BOOLEAN]
Lost   == [at |-> -1, fresh |-> FALSE]

Fault == faults < plan.faults /\ faults' = faults + 1

------------------------------------------------------------------------------
(* The server.                                                              *)

OpenLotes == {l \in Lotes : lot[l].status = "open"}

\* get_leading_offer: the accepted oferta of the lote, of whatever round; 0 is none.
Leader(l) ==
    LET S == {i \in DOMAIN ofertas : ofertas[i].lote = l /\ ofertas[i].status = "accepted"}
    IN  IF S = {} THEN 0 ELSE CHOOSE i \in S : TRUE

Amount(i) == IF i = 0 THEN 0 ELSE ofertas[i].amount

\* _load_raw_state reads the open lote with its countdown, and then its leader.
ActiveLote ==
    IF OpenLotes = {} THEN [at |-> ver, lote |-> NoLote, timer |-> "none"]
    ELSE LET l == CHOOSE l \in OpenLotes : TRUE
         IN  [at |-> ver, lote |-> l, timer |-> lot[l].timer]

WithLeader(found) ==
    [at |-> found.at, lote |-> found.lote, timer |-> found.timer,
     winner |-> IF found.lote = NoLote THEN 0 ELSE Leader(found.lote)]

Raw == WithLeader(ActiveLote)

Ev(n, type, l, arg, o) ==
    [v |-> ver + n, type |-> type, lote |-> l, arg |-> arg, oferta |-> o]

\* A commit and the events its request publishes afterwards, in their order.
Publishes(events) ==
    /\ ver + Len(events) <= plan.ver
    /\ ver' = ver + Len(events)
    /\ outbox' = outbox \cup {events}

RemateMoves(to) ==
    /\ "remate" \in plan.moves
    /\ \/ status = "live" /\ to \in {"paused", "finished"}
       \/ status = "paused" /\ to = "live"
    /\ to = "finished" => OpenLotes = {}
    /\ status' = to
    /\ Publishes(<<Ev(1, "remate", NoLote, to, 0)>>)
    /\ UNCHANGED <<lot, round, ofertas>>

\* LoteOpened, and LoteTimerStarted after it.
OpenLote(l) ==
    /\ "open" \in plan.moves
    /\ status = "live" /\ lot[l].status = "pending" /\ OpenLotes = {}
    /\ lot' = [lot EXCEPT ![l] = [status |-> "open", timer |-> "running"]]
    /\ Publishes(<<Ev(1, "lote.opened", l, "open", 0), Ev(2, "lote.timer", l, "running", 0)>>)
    /\ UNCHANGED <<status, round, ofertas>>

\* An operator closes a lote as sold or unsold whatever was offered.
EndLote(l, to) ==
    /\ [closed_sold |-> "sold", closed_unsold |-> "unsold", cancelled |-> "cancel"][to] \in plan.moves
    /\ lot[l].status = "open"
    /\ lot' = [lot EXCEPT ![l] =
                 [status |-> to, timer |-> IF to = "cancelled" THEN @.timer ELSE "none"]]
    /\ Publishes(<<Ev(1, IF to = "cancelled" THEN "lote.cancelled" ELSE "lote.closed", l, to, 0)>>)
    /\ UNCHANGED <<status, round, ofertas>>

Requeue(l) ==
    /\ "requeue" \in plan.moves
    /\ lot[l].status = "closed_unsold"
    /\ lot' = [lot EXCEPT ![l].status = "pending"]
    /\ round' = [round EXCEPT ![l] = @ + 1]
    /\ Publishes(<<Ev(1, "lote.requeued", l, "pending", 0)>>)
    /\ UNCHANGED <<status, ofertas>>

MoveTimer(l, to) ==
    /\ "timer" \in plan.moves
    /\ lot[l].status = "open" /\ {lot[l].timer, to} = {"running", "paused"}
    /\ lot' = [lot EXCEPT ![l].timer = to]
    /\ Publishes(<<Ev(1, "lote.timer", l, to, 0)>>)
    /\ UNCHANGED <<status, round, ofertas>>

\* _first_rejection_reason.
Refused(l, amount) ==
    \/ status # "live"
    \/ lot[l].status # "open"
    \/ amount < Amount(Leader(l)) + 1

\* The accepted half of place_bid: the leader is outbid by a new row.
Accept(l, mine, amount, token) ==
    LET row == [lote |-> l, mine |-> mine, amount |-> amount, token |-> token,
                status |-> "accepted"]
        out == [i \in DOMAIN ofertas |->
                  IF i = Leader(l) THEN [ofertas[i] EXCEPT !.status = "outbid"] ELSE ofertas[i]]
    IN  /\ ofertas' = Append(out, row)
        /\ Publishes(<<Ev(1, "oferta.accepted", l, "none", Len(ofertas) + 1)>>)
        /\ UNCHANGED <<status, lot, round>>

RivalBids(l) ==
    LET amount == Amount(Leader(l)) + 1
    IN  "rival" \in plan.moves /\ amount <= plan.amount /\ ~Refused(l, amount) /\ Accept(l, FALSE, amount, 0)

ServerStep ==
    /\ \/ \E to \in {"live", "paused", "finished"} : RemateMoves(to)
       \/ \E l \in Lotes :
            \/ OpenLote(l) \/ Requeue(l) \/ RivalBids(l)
            \/ \E to \in {"closed_sold", "closed_unsold", "cancelled"} : EndLote(l, to)
            \/ \E to \in {"running", "paused"} : MoveTimer(l, to)
    /\ UNCHANGED <<plan, cache, net, client, bids, faults>>

------------------------------------------------------------------------------
(* The bus, the consumer, the Gateway and the network.                      *)

Next1(q) == (outbox \ {q}) \cup (IF Len(q) > 1 THEN {Tail(q)} ELSE {})

\* Published, consumed and forwarded to the connections of the room.  Requests
\* publish on their own, so events can leave in another order than their commits.
Publish(q) ==
    /\ q \in outbox
    /\ outbox' = Next1(q)
    /\ chan' = IF member THEN Append(chan, Head(q)) ELSE chan
    /\ UNCHANGED <<plan, status, lot, round, ofertas, ver, cache, conn, retry, member, owed,
                   client, bids, faults>>

\* The bus refuses it, or the consumer is reconnecting: logged at most.
LoseEvent(q) ==
    /\ q \in outbox /\ Fault
    /\ outbox' = Next1(q)
    /\ UNCHANGED <<plan, status, lot, round, ofertas, ver, cache, net, client, bids>>

\* build reads the remate, and then the raw state: from the cache, or the lote and
\* its leader one after the other.  What it answers is as old as its oldest part.
Asked == <<"asked", "none", 0>>
ReadRemate == <<"remate", status, ver>>
ReadLote(read) == <<"lote", read[2], read[3], ActiveLote>>

MissesCache(read) == read[1] = "remate" /\ cache = NoCache
HasRaw(read) == read[1] = "lote" \/ (read[1] = "remate" /\ cache # NoCache)
RawOf(read) == IF read[1] = "lote" THEN WithLeader(read[4]) ELSE cache
Built(read, raw) ==
    [at |-> IF read[3] < raw.at THEN read[3] ELSE raw.at,
     data |-> [status |-> read[2], lote |-> raw.lote, timer |-> raw.timer,
               winner |-> raw.winner]]

\* presence_service.join_room: a member before its snapshot is taken.
JoinRoom ==
    /\ owed = <<"join">>
    /\ member' = TRUE /\ owed' = Asked
    /\ UNCHANGED <<plan, server, cache, conn, retry, chan, client, bids, faults>>

\* Too many joins, a ban, a remate that is not visible: the refusal is a message
\* to a connection that stays open, outside the room.
RefuseJoin ==
    /\ owed = <<"join">> /\ Fault
    /\ owed' = <<"refused">>
    /\ UNCHANGED <<plan, server, cache, conn, retry, member, chan, client, bids>>

BuildSnapshot ==
    /\ owed = Asked /\ owed' = ReadRemate
    /\ UNCHANGED <<plan, server, cache, conn, retry, member, chan, client, bids, faults>>

LoteForSnapshot ==
    /\ MissesCache(owed) /\ owed' = ReadLote(owed)
    /\ UNCHANGED <<plan, server, cache, conn, retry, member, chan, client, bids, faults>>

SendSnapshot ==
    /\ HasRaw(owed) /\ owed' = <<"no">>
    /\ cache' = RawOf(owed)
    /\ LET b == Built(owed, RawOf(owed))
       IN  chan' = Append(chan, [type |-> "snapshot", at |-> b.at, data |-> b.data])
    /\ UNCHANGED <<plan, server, conn, retry, member, client, bids, faults>>

\* SNAPSHOT_UNAVAILABLE: the connection stays in the room.
SnapshotFails ==
    /\ owed[1] \in {"asked", "remate", "lote"} /\ Fault
    /\ owed' = <<"no">>
    /\ UNCHANGED <<plan, server, cache, conn, retry, member, chan, client, bids>>

ExpireCache ==
    /\ cache # NoCache /\ cache' = NoCache
    /\ UNCHANGED <<plan, server, net, client, bids, faults>>

------------------------------------------------------------------------------
(* The socket of the page: WebSocketClient.                                 *)

Connected_NoRejoin ==
    /\ conn \in {"connecting", "reconnecting"} /\ ~retry
    /\ conn' = "open"
    /\ UNCHANGED <<plan, server, cache, member, owed, retry, chan, client, bids, faults>>

\* "connected": join_room is sent once on every new connection, and never again
\* on the same one.
Connected ==
    /\ conn \in {"connecting", "reconnecting"} /\ ~retry
    /\ conn' = "open" /\ owed' = <<"join">>
    /\ UNCHANGED <<plan, server, cache, member, retry, chan, client, bids, faults>>

Gone == member' = FALSE /\ owed' = <<"no">> /\ chan' = <<>>

\* handleClose and scheduleReconnect.
Drop ==
    /\ conn # "closed" /\ ~retry /\ Fault
    /\ Gone /\ conn' = "reconnecting" /\ retry' = TRUE
    /\ UNCHANGED <<plan, server, cache, client, bids>>

\* The timer of scheduleReconnect: openSocket.
Reconnect ==
    /\ retry /\ retry' = FALSE
    /\ UNCHANGED <<plan, server, cache, conn, member, owed, chan, client, bids, faults>>

\* disconnect, by the cleanup of the page's effect.
Disconnect == Gone /\ conn' = "closed" /\ retry' = FALSE

------------------------------------------------------------------------------
(* The three sources of the page's state.                                   *)

\* How far a page that had followed up to `s` has when it applies `e`.
Follow(s, e) ==
    IF s.at >= 0 /\ (e.v = s.at + 1 \/ (s.fresh /\ e.v <= s.at))
    THEN [at |-> e.v, fresh |-> FALSE]
    ELSE Lost

WonBy_AnyBuyer(e) ==
    /\ e.type = "lote.closed" /\ e.arg = "closed_sold"
    /\ shown.lote = e.lote /\ shown.winner # 0

\* The message of a closed lote is heard before the reducer clears it, and is
\* compared with the snapshot of the last render.
WonBy(e) ==
    /\ e.type = "lote.closed" /\ e.arg = "closed_sold"
    /\ shown.lote = e.lote
    /\ shown.winner # 0 /\ ofertas[shown.winner].mine

DeliverEvent(e) ==
    /\ list' = ApplyToLotes(list, e)
    /\ listSync' = IF list = NoList THEN listSync ELSE Follow(listSync, e)
    /\ IF view.status = "none" THEN UNCHANGED <<view, sync>>
       ELSE /\ view' = ApplyToView(view, e, list)
            /\ sync' = IF e.type = "lote.opened" /\ list = NoList THEN Lost ELSE Follow(sync, e)
    /\ won' = IF WonBy(e) THEN e.lote ELSE won

\* The snapshot of the Gateway replaces the one in memory.
DeliverSnapshot(m) ==
    /\ view' = m.data /\ sync' = [at |-> m.at, fresh |-> TRUE]
    /\ UNCHANGED <<list, listSync, won>>

Deliver ==
    /\ chan # <<>> /\ ~left
    /\ chan' = Tail(chan)
    /\ IF Head(chan).type = "snapshot" THEN DeliverSnapshot(Head(chan)) ELSE DeliverEvent(Head(chan))
    /\ UNCHANGED <<plan, server, cache, conn, retry, member, owed, shown, left, page, lotes,
                   bids, faults>>

\* GET /remates/{id}/snapshot is built like the other and arrives later.
BuildPage ==
    /\ page = Asked /\ page' = ReadRemate
    /\ UNCHANGED <<plan, server, cache, net, state, shown, won, left, lotes, bids, faults>>

LoteForPage ==
    /\ MissesCache(page) /\ page' = ReadLote(page)
    /\ UNCHANGED <<plan, server, cache, net, state, shown, won, left, lotes, bids, faults>>

ServePage ==
    /\ HasRaw(page)
    /\ page' = <<"answer", Built(page, RawOf(page))>>
    /\ cache' = RawOf(page)
    /\ UNCHANGED <<plan, server, net, state, shown, won, left, lotes, bids, faults>>

PageArrives ==
    /\ page[1] = "answer" /\ ~left
    /\ page' = <<"done">>
    /\ view' = page[2].data /\ sync' = [at |-> page[2].at, fresh |-> TRUE]
    /\ UNCHANGED <<plan, server, cache, net, list, listSync, shown, won, left, lotes, bids, faults>>

PageFails ==
    /\ page = Asked /\ Fault
    /\ page' = <<"failed">>
    /\ UNCHANGED <<plan, server, cache, net, state, shown, won, left, lotes, bids>>

\* "Reintentar" on the error, "Actualizar" when no lote is open.
Reload ==
    /\ page = <<"failed">> \/ (page = <<"done">> /\ shown.lote = NoLote /\ Fault)
    /\ page = <<"failed">> => UNCHANGED faults
    /\ page' = Asked
    /\ ~left
    /\ UNCHANGED <<plan, server, cache, net, state, shown, won, left, lotes, bids>>

ServeLotes ==
    /\ lotes = <<"asked">>
    /\ lotes' = <<"answer", [at |-> ver, data |-> lot]>>
    /\ UNCHANGED <<plan, server, cache, net, state, shown, won, left, page, bids, faults>>

LotesArrive ==
    /\ lotes[1] = "answer" /\ ~left
    /\ lotes' = <<"done">>
    /\ list' = lotes[2].data /\ listSync' = [at |-> lotes[2].at, fresh |-> TRUE]
    /\ UNCHANGED <<plan, server, cache, net, view, sync, shown, won, left, page, bids, faults>>

------------------------------------------------------------------------------
(* The screen and the bid form.                                             *)

NoToken   == [amount |-> 0, id |-> 0]
FreshForm == [touched |-> FALSE, amount |-> 0, token |-> NoToken, busy |-> FALSE, outbid |-> FALSE]

\* SalaPage mounts SalaBidPanel, and it PlaceBidButton, for the lote on screen.
Mounted(v) == page = <<"done">> /\ v.status # "none" /\ v.lote # NoLote

Mine(v) == v.winner # 0 /\ ofertas[v.winner].mine

\* "Te superaron", from the render before to the render of v.
Outbid_Sticky(v) == form.outbid \/ (Mine(shown) /\ v.winner # 0)
Outbid(v) ==
    /\ v.lote = shown.lote /\ ~Mine(v)
    /\ form.outbid \/ (Mine(shown) /\ v.winner # 0)

\* One render, with its effects.  A form that goes off screen loses its state,
\* and the answers of its bids find nobody.
Render ==
    /\ ~left
    /\ shown' = view
    /\ IF Mounted(view) THEN form' = [form EXCEPT !.outbid = Outbid(view)] /\ UNCHANGED reqs
       ELSE form' = FreshForm /\ reqs' = {[r EXCEPT !.form = FALSE] : r \in reqs}
    /\ <<shown, form>>' # <<shown, form>>
    /\ UNCHANGED <<plan, server, cache, net, state, won, left, page, lotes, told, drawn, faults>>

\* LoteWonOverlay: "Continuar".
Continue ==
    /\ won # NoLote /\ ~left
    /\ won' = NoLote
    /\ UNCHANGED <<plan, server, cache, net, state, shown, left, page, lotes, bids, faults>>

Leading == Mine(shown)

\* computeMinimumAmount, with base_price and min_increment of 1.
Minimum == Amount(shown.winner) + 1

\* The suggested amount follows the minimum until the buyer touches it.
Offer == IF form.touched THEN form.amount ELSE Minimum

\* canBid, for a comprador with the guarantee the remate asks.
CanBid == ~left /\ Mounted(shown) /\ shown.status = "live" /\ ~form.busy
Banner_Never == FALSE
Banner == Leading /\ ~form.touched

\* "Ofertar de todos modos", the input and the suggestions.
Touch(a) ==
    /\ CanBid
    /\ Banner => a = Minimum
    /\ form' = [form EXCEPT !.touched = TRUE, !.amount = a]
    /\ UNCHANGED <<plan, server, cache, net, client, reqs, told, drawn, faults>>

\* The token of clientTokenRef is kept while the amount is the same.
TokenFor(a) == IF form.token.amount = a THEN form.token.id ELSE drawn + 1

Submit ==
    LET token == TokenFor(Offer)
    IN  /\ CanBid /\ ~Banner
        /\ Offer \in 1..plan.amount /\ Offer >= Minimum /\ token <= plan.tokens
        /\ drawn' = IF token > drawn THEN token ELSE drawn
        /\ form' = [form EXCEPT !.busy = TRUE, !.token = [amount |-> Offer, id |-> token]]
        /\ reqs' = reqs \cup {[lote |-> shown.lote, amount |-> Offer, token |-> token,
                               touched |-> form.touched, seen |-> shown.winner,
                               answer |-> "none", waiting |-> TRUE, form |-> TRUE]}
        /\ UNCHANGED <<plan, server, cache, net, client, told, faults>>

Existing_AnyLote(l, token) == {i \in DOMAIN ofertas : ofertas[i].mine /\ ofertas[i].token = token}

\* get_by_buyer_and_token: the row of a bid of this buyer, on this lote, by token.
Existing(l, token) ==
    {i \in DOMAIN ofertas : ofertas[i].mine /\ ofertas[i].token = token /\ ofertas[i].lote = l}

TokenTaken(token) == \E i \in DOMAIN ofertas : ofertas[i].mine /\ ofertas[i].token = token

Answered(r, a) == reqs' = (reqs \ {r}) \cup (IF r.waiting THEN {[r EXCEPT !.answer = a]} ELSE {})

\* place_bid answers a known token with its row, whatever became of it; a token
\* used on another lote meets the unique index and is a conflict.
ServeBid(r) ==
    /\ r \in reqs /\ r.answer = "none"
    /\ IF Existing(r.lote, r.token) # {} THEN
            /\ \E i \in Existing(r.lote, r.token) : Answered(r, ofertas[i].status)
            /\ UNCHANGED server
       ELSE IF TokenTaken(r.token) THEN
            Answered(r, "conflict") /\ UNCHANGED server
       ELSE IF Refused(r.lote, r.amount) THEN
            /\ Answered(r, "rejected")
            /\ ofertas' = Append(ofertas, [lote |-> r.lote, mine |-> TRUE, amount |-> r.amount,
                                          token |-> r.token, status |-> "rejected"])
            /\ UNCHANGED <<status, lot, round, ver, outbox>>
       ELSE Answered(r, "accepted") /\ Accept(r.lote, TRUE, r.amount, r.token)
    /\ UNCHANGED <<plan, cache, net, client, form, told, drawn, faults>>

\* The network fails before the answer is back; the server may still serve it.
GiveUp(r) ==
    /\ r \in reqs /\ r.waiting /\ Fault
    /\ reqs' = (reqs \ {r}) \cup
               (IF r.answer = "none" THEN {[r EXCEPT !.waiting = FALSE, !.form = FALSE]} ELSE {})
    /\ form' = IF r.form THEN [form EXCEPT !.busy = FALSE] ELSE form
    /\ UNCHANGED <<plan, server, cache, net, client, told, drawn>>

\* Only an accepted bid forgets the token and the amount.
Answer(r) ==
    /\ r \in reqs /\ r.answer # "none" /\ ~left
    /\ reqs' = reqs \ {r}
    /\ told' = IF r.answer = "accepted" THEN told \cup {<<r.lote, r.amount>>} ELSE told
    /\ form' = IF ~r.form THEN form
               ELSE IF r.answer = "accepted"
               THEN [form EXCEPT !.busy = FALSE, !.touched = FALSE, !.token = NoToken]
               ELSE [form EXCEPT !.busy = FALSE]
    /\ UNCHANGED <<plan, server, cache, net, client, drawn, faults>>

\* The buyer leaves: the effect's cleanup disconnects.
Leave ==
    /\ ~left /\ left' = TRUE
    /\ Disconnect
    /\ UNCHANGED <<plan, server, cache, state, shown, won, page, lotes, bids, faults>>

------------------------------------------------------------------------------
\* Entering: the socket opens and both requests are on their way.
Enters ==
    /\ lot = [l \in Lotes |-> [status |-> "pending", timer |-> "none"]]
    /\ conn = "connecting" /\ member = FALSE
    /\ page = Asked /\ lotes = <<"asked">>
    /\ view = NoView /\ list = NoList /\ sync = Lost /\ listSync = Lost

\* Watching a lote since before the history starts.
Watches(l) ==
    /\ lot = [m \in Lotes |-> IF m = l THEN [status |-> "open", timer |-> "running"]
                              ELSE [status |-> "pending", timer |-> "none"]]
    /\ conn = "open" /\ member = TRUE
    /\ page = <<"done">> /\ lotes = <<"done">>
    /\ view = Built(ReadRemate, Raw).data /\ list = lot
    /\ sync = [at |-> 0, fresh |-> FALSE] /\ listSync = sync

Init ==
    /\ plan \in Plans
    /\ status = "live" /\ round = [l \in Lotes |-> 1]
    /\ ofertas = <<>> /\ ver = 0 /\ outbox = {} /\ cache = NoCache
    /\ IF plan.inside = {} THEN Enters ELSE \E l \in plan.inside : Watches(l)
    /\ retry = FALSE /\ owed = <<"no">> /\ chan = <<>>
    /\ shown = view /\ won = NoLote /\ left = FALSE
    /\ form = FreshForm /\ reqs = {} /\ told = {} /\ drawn = 0 /\ faults = 0

GatewayStep ==
    JoinRoom \/ RefuseJoin \/ BuildSnapshot \/ LoteForSnapshot \/ SendSnapshot \/ SnapshotFails \/ ExpireCache
BusStep     == \E q \in outbox : Publish(q) \/ LoseEvent(q)
SocketStep  == Connected \/ Drop \/ Reconnect
PageStep    ==
    BuildPage \/ LoteForPage \/ ServePage \/ PageArrives \/ PageFails \/ Reload \/ ServeLotes \/ LotesArrive
ScreenStep  == Deliver \/ Render \/ Continue \/ Leave
BidStep ==
    \/ Submit
    \/ \E a \in 1..plan.amount : Touch(a)
    \/ \E r \in reqs : ServeBid(r) \/ GiveUp(r) \/ Answer(r)

Next == ServerStep \/ GatewayStep \/ BusStep \/ SocketStep \/ PageStep \/ ScreenStep \/ BidStep

\* The timer of the page fires, the Gateway accepts the connection and answers its
\* join, one way or the other; nothing else has to happen.
Fairness == WF_vars(Reconnect) /\ WF_vars(Connected) /\ WF_vars(JoinRoom \/ RefuseJoin)

Spec == Init /\ [][Next]_vars /\ Fairness

------------------------------------------------------------------------------
(* Properties.                                                              *)

TypeOK ==
    /\ status \in RoomStatus \ {"none"}
    /\ lot \in LoteList /\ list \in LoteList
    /\ ofertas \in Seq(Oferta)
    /\ ver \in 0..plan.ver /\ view \in View /\ shown \in View
    /\ sync \in Synced /\ listSync \in Synced
    /\ conn \in {"connecting", "open", "reconnecting", "closed"}
    /\ owed[1] \in {"no", "join", "refused", "asked", "remate", "lote"}
    /\ retry => conn = "reconnecting"
    /\ member => conn = "open" /\ owed[1] \notin {"join", "refused"}
    /\ conn = "open" => member \/ owed[1] \in {"join", "refused"}

\* A snapshot followed by events, even when the events repeat what the snapshot
\* already has, ends in the server's state: the page that got every event after
\* the one its snapshot starts from shows the lote, the countdown and the leader
\* the server has.  A leader of a previous round is the exception: the reducer
\* clears it when the lote opens again and the server does not.
CompleteViewIsCurrent ==
    sync.at = ver =>
        /\ view.status = status
        /\ view.lote = Raw.lote
        /\ view.lote # NoLote =>
              /\ view.timer = Raw.timer
              /\ view.winner # Raw.winner => round[view.lote] > 1

\* The same of the list, from which the upcoming lotes and the lote that opens
\* are taken and which no snapshot of the socket ever replaces.
CompleteListIsCurrent == listSync.at = ver => list = lot

\* A bid the page announced as accepted is a row of that lote and amount which
\* the server accepted, whatever retries, lost answers and changes of lote came
\* before.
AnnouncedBidStands ==
    \A t \in told : \E i \in DOMAIN ofertas :
        /\ ofertas[i].mine /\ ofertas[i].lote = t[1] /\ ofertas[i].amount = t[2]
        /\ ofertas[i].status # "rejected"

\* A buyer who did not touch the amount never raises his own leading bid, in
\* whatever round, unless the offer the page showed as leading was of another lote.
OutbidsHimselfOnPurpose ==
    [][\A r \in reqs :
         (/\ Len(ofertas') > Len(ofertas) /\ r \notin reqs'
          /\ ofertas'[Len(ofertas')].mine /\ ofertas'[Len(ofertas')].status = "accepted"
          /\ ~r.touched /\ Leader(r.lote) # 0 /\ ofertas[Leader(r.lote)].mine)
         => r.seen # 0 /\ ofertas[r.seen].lote # r.lote]_vars

\* A page that follows the server and has rendered the lote being sold
\* congratulates the buyer when, and only when, his bid is the one that leads.  (A
\* page that reconnects after the sale gets a snapshot without the lote, and never
\* tells him.)
WinnerIsCongratulated ==
    [][ (Deliver /\ Head(chan).type = "lote.closed") =>
          LET e == Head(chan)
              i == Leader(e.lote)
          IN  (/\ e.arg = "closed_sold" /\ sync.at = e.v - 1 /\ round[e.lote] = 1
               /\ shown = view /\ view.lote = e.lote)
              => (won' = e.lote <=> (won = e.lote \/ (i # 0 /\ ofertas[i].mine))) ]_vars

\* A page that shows what the server has does not tell the buyer who leads that he
\* was overtaken, whatever it told him before.
LeaderIsNotTaunted ==
    (/\ form.outbid /\ shown = view /\ sync.at = ver
     /\ shown.lote # NoLote /\ round[shown.lote] = 1)
    => LET i == Leader(shown.lote) IN i = 0 \/ ~ofertas[i].mine

\* A page that has been left holds no connection and opens none.
LeavesNothingBehind == left => conn = "closed" /\ ~retry /\ ~member

\* A page outside the room, on its first connection or after losing one, gets into it
\* unless it is left or its join is refused.  A refusal is final while the connection
\* lasts: the page is connected, outside the room, and nothing asks again.
ReturnsToTheRoom ==
    (conn \in {"connecting", "reconnecting"}) ~> (member \/ left \/ owed = <<"refused">>)
==============================================================================
