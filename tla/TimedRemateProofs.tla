--------------------------- MODULE TimedRemateProofs ---------------------------
(***************************************************************************)
(* Theorems about TimedRemate, for every set of lotes, requests and plans: *)
(* every safety property that the runs check.                              *)
(***************************************************************************)
EXTENDS TimedRemate, TLAPS

------------------------------------------------------------------------------
(* The inductive invariant.                                                 *)

\* What the phase and the kind of a request say of each other.
RequestInv ==
    \A w \in Workers :
        /\ pc[w] = "idle" => req[w] = NoReq /\ seen[w] = NoSeen
        /\ req[w].kind \in {"pause", "finish"} => seen[w].remate = "LIVE"
        /\ req[w].kind = "resume" => seen[w].remate \in {"SCHEDULED", "PAUSED"}
        /\ req[w].kind \in RowKinds \cup {"create"} => req[w].lote \in Lotes
        /\ req[w].kind \in GroupKinds /\ pc[w] = "locked" => seen[w].todo = {}
        /\ req[w].kind = "create" => pc[w] = "locked"
        /\ pc[w] = "waiting" => req[w].kind \in RowKinds \cup GroupKinds

\* ADR-004: a row that a request has read is locked by it, and is what is committed.
HeldInv ==
    \A w \in Workers, l \in Lotes :
        seen[w].rows[l].status # "NONE" => lock[l] = w /\ seen[w].rows[l] = lote[l]

\* Each request that creates a lote has one of its own.
CreateInv ==
    \A w \in Workers :
        req[w].kind = "create" =>
            /\ lote[req[w].lote].status = "NONE"
            /\ \A v \in Workers \ {w} : req[v] # req[w]

\* The tasks know what they decide on: one the lote it has locked, the other the remate
\* and, because no commit passes its lock, every lote.
TaskInv ==
    /\ pc[Expiry] = "locked" =>
          LET l == req[Expiry].lote
          IN  l \in Lotes /\ (seen[Expiry].rows[l].status # "NONE" =>
                                  lock[l] = Expiry /\ seen[Expiry].rows[l] = lote[l])
    /\ pc[Lifecycle] = "locked" =>
          remateLock = Lifecycle /\ seen[Lifecycle].remate = remate /\ seen[Lifecycle].rows = lote

\* A remate that has been seen outside SCHEDULED does not come back to it; nor does the
\* clock.
PastInv ==
    /\ \A w \in Workers : seen[w].remate # "SCHEDULED" => remate # "SCHEDULED"
    /\ \A p \in Procs : seen[p].at <= now

\* A pause or a resume of a remate under way has, or is about to lock, every OPEN lote; a
\* finish that looked has found none, and none is opened since.
CoverInv ==
    \A w \in Workers : \A l \in Having("OPEN") :
        /\ req[w].kind \in GroupKinds /\ seen[w].remate # "SCHEDULED" /\ pc[w] \in {"waiting", "locked"} =>
               l \in seen[w].todo \/ seen[w].rows[l].status = "OPEN"
        /\ ~(req[w].kind = "finish" /\ pc[w] = "locked")

\* A countdown runs or is paused, an OPEN lote has one, and it was adjudicated as it was bid.
RowOK(r) ==
    /\ r.ends = NULL \/ r.paused = NULL
    /\ r.status = "OPEN" => r.ends # NULL \/ r.paused # NULL
    /\ r.status = "PENDING" => r.ends = NULL
    /\ r.status = "CLOSED_SOLD" => r.led
    /\ r.status = "CLOSED_UNSOLD" => ~r.led

RowsInv == \A l \in Lotes : RowOK(lote[l])

\* The remate is under way, or a request that saw it so is.
UnderWay ==
    \/ remate \in {"LIVE", "PAUSED", "FINISHED"}
    \/ \E w \in Workers : seen[w].remate \in {"LIVE", "PAUSED"}

StatusInv ==
    /\ remate \in {"SCHEDULED", "FINISHED"} => Having("OPEN") = {}
    /\ ClockFollowsTheRemate
    /\ UnderWay /\ ~adrift => Having("PENDING") \subseteq late

Inv ==
    /\ TypeOK /\ RequestInv /\ HeldInv /\ CreateInv /\ TaskInv
    /\ PastInv /\ CoverInv /\ RowsInv /\ StatusInv

LEMMA Constants ==
    /\ Procs = Workers \cup {Expiry, Lifecycle}
    /\ Expiry \notin Workers /\ Lifecycle \notin Workers /\ Expiry # Lifecycle /\ NoProc \notin Procs
    /\ NoReq \in Request /\ NoReq.kind = "none"
    /\ NoSeen \in Reading /\ NoSeen.remate = "SCHEDULED" /\ NoSeen.at = 0 /\ NoSeen.todo = {}
    /\ NoSeen.rows \in [Lotes -> LoteRow] /\ \A l \in Lotes : NoSeen.rows[l] = NoRow
    /\ NoRow \in LoteRow /\ NoRow.status = "NONE" /\ RowOK(NoRow)
    /\ NewRow \in LoteRow /\ NewRow.status = "PENDING" /\ RowOK(NewRow)
BY TimedAssumption DEF Procs, NoReq, Request, NoSeen, Reading, NoRow, NewRow, LoteRow, LoteStatus, RemateStatus, NULL, RowOK

LEMMA InitInv == Init => Inv
<1> SUFFICES ASSUME Init PROVE Inv
  OBVIOUS
<1>1. TypeOK
  BY Constants, TimedAssumption DEF Init, TypeOK, RemateStatus
<1>2. /\ \A p \in Procs : pc[p] = "idle" /\ req[p] = NoReq /\ seen[p] = NoSeen
      /\ \A l \in Lotes : lote[l] \in {NewRow, NoRow}
      /\ remate = "SCHEDULED" /\ now = 0
  BY DEF Init
<1>3. RequestInv /\ HeldInv /\ CreateInv /\ TaskInv /\ PastInv
  BY <1>2, Constants DEF RequestInv, HeldInv, CreateInv, TaskInv, PastInv, RowKinds, GroupKinds, NoRow
<1>4. RowsInv /\ Having("OPEN") = {}
  BY <1>2, Constants DEF RowsInv, Having
<1>5. CoverInv /\ StatusInv
  BY <1>2, <1>4, Constants DEF CoverInv, StatusInv, ClockFollowsTheRemate, UnderWay
<1> QED BY <1>1, <1>3, <1>4, <1>5 DEF Inv

------------------------------------------------------------------------------
(* The end of a transaction.                                                *)

LEMMA DoneProcs ==
    ASSUME TypeOK, NEW p \in Procs, Done(p)
    PROVE  /\ pc' \in [Procs -> {"idle", "read", "waiting", "locked"}]
           /\ req' \in [Procs -> Request] /\ seen' \in [Procs -> Reading]
           /\ lock' \in [Lotes -> Procs \cup {NoProc}] /\ remateLock' \in {Lifecycle, NoProc}
           /\ pc'[p] = "idle" /\ req'[p] = NoReq /\ seen'[p] = NoSeen
           /\ \A q \in Procs \ {p} : pc'[q] = pc[q] /\ req'[q] = req[q] /\ seen'[q] = seen[q]
           /\ \A l \in Lotes : lock'[l] = IF lock[l] = p THEN NoProc ELSE lock[l]
           /\ remateLock' = IF remateLock = p THEN NoProc ELSE remateLock
BY Constants DEF TypeOK, Done

\* A transaction that writes nothing.
LEMMA DoneInv ==
    ASSUME Inv, NEW p \in Procs, Done(p), UNCHANGED <<plan, now, rows>>
    PROVE  Inv'
<1> USE DEF Inv
<1>1. UNCHANGED <<plan, now, remate, lote, late, adrift>>
  BY DEF rows
<1>2. TypeOK'
  BY <1>1, DoneProcs DEF TypeOK
<1>3. RequestInv' /\ CreateInv'
  BY <1>1, DoneProcs, Constants DEF RequestInv, CreateInv, RowKinds, GroupKinds
<1>4. HeldInv'
  BY <1>1, DoneProcs, Constants DEF HeldInv
<1>5. TaskInv'
  BY <1>1, DoneProcs, Constants DEF TaskInv
<1>6. PastInv'
  BY <1>1, DoneProcs, Constants DEF PastInv, TypeOK
<1>7. CoverInv' /\ RowsInv'
  BY <1>1, DoneProcs, Constants DEF CoverInv, RowsInv, Having, GroupKinds
<1>8. StatusInv'
  <2>1. UnderWay' => UnderWay
    BY <1>1, DoneProcs, Constants DEF UnderWay
  <2> QED BY <1>1, <2>1 DEF StatusInv, ClockFollowsTheRemate, Having
<1> QED BY <1>2, <1>3, <1>4, <1>5, <1>6, <1>7, <1>8

\* A request that commits: it writes rows it has locked, or the one it creates, and opens
\* none.
LEMMA CommitInv ==
    ASSUME Inv, NEW w \in Workers, Done(w), UNCHANGED <<plan, now>>, RemateFree(w),
           remate' \in RemateStatus, lote' \in [Lotes -> LoteRow], late' \subseteq Lotes, adrift' \in BOOLEAN,
           \A l \in Lotes : lote'[l] # lote[l] =>
               seen[w].rows[l].status # "NONE" \/ (req[w].kind = "create" /\ l = req[w].lote),
           \A l \in Lotes : RowOK(lote'[l]) /\ (lote'[l].status = "OPEN" => lote[l].status = "OPEN"),
           remate' = "SCHEDULED" => remate = "SCHEDULED",
           StatusInv'
    PROVE  Inv'
<1> USE DEF Inv
<1>1. w \in Procs /\ w # Expiry /\ w # Lifecycle
  BY Constants
<1>2. TypeOK'
  BY <1>1, DoneProcs DEF TypeOK
<1>3. RequestInv'
  BY <1>1, DoneProcs, Constants DEF RequestInv, RowKinds, GroupKinds
<1>4. \A l \in Lotes : lote'[l] # lote[l] => lock[l] = w \/ lote[l].status = "NONE"
  BY DEF HeldInv, CreateInv
<1>5. HeldInv'
  BY <1>1, <1>4, DoneProcs, Constants DEF HeldInv
<1>6. CreateInv'
  <2> SUFFICES ASSUME NEW v \in Workers, req'[v].kind = "create"
               PROVE  lote'[req[v].lote].status = "NONE" /\ v # w /\ req'[v] = req[v]
                      /\ \A u \in Workers \ {v} : req'[u] # req[v]
    BY DEF CreateInv
  <2>1. v # w /\ req'[v] = req[v] /\ req[v].lote \in Lotes /\ lote[req[v].lote].status = "NONE"
    BY <1>1, DoneProcs, Constants DEF CreateInv, RequestInv
  <2>2. \A u \in Workers \ {v} : req'[u] # req[v]
    BY <1>1, <2>1, DoneProcs, Constants DEF CreateInv
  <2>3. lote'[req[v].lote] = lote[req[v].lote]
    <3>1. seen[w].rows[req[v].lote].status = "NONE"
      BY <2>1 DEF HeldInv
    <3>2. ~(req[w].kind = "create" /\ req[w].lote = req[v].lote)
      BY <2>1, <1>1, Constants DEF CreateInv, TypeOK, Request
    <3> QED BY <3>1, <3>2, <2>1
  <2> QED BY <2>1, <2>2, <2>3
<1>7. TaskInv'
  <2>1. pc[Lifecycle] # "locked"
    BY <1>1, Constants DEF TaskInv, RemateFree
  <2> QED BY <1>1, <1>4, <2>1, DoneProcs, Constants DEF TaskInv
<1>8. PastInv'
  BY <1>1, DoneProcs, Constants DEF PastInv, TypeOK
<1>9. CoverInv' /\ RowsInv'
  BY <1>1, DoneProcs, Constants DEF CoverInv, RowsInv, Having, GroupKinds
<1> QED BY <1>2, <1>3, <1>5, <1>6, <1>7, <1>8, <1>9

------------------------------------------------------------------------------
(* The commits of the requests.                                             *)

\* A request that decides on a row has it, as it is.
LEMMA HeldRow ==
    ASSUME Inv, NEW w \in Workers, NEW l \in Lotes, seen[w].rows[l].status # "NONE"
    PROVE  seen[w].rows[l] = lote[l] /\ lock[l] = w /\ lote[l] \in LoteRow /\ RowOK(lote[l])
BY DEF Inv, HeldInv, TypeOK, RowsInv

\* Nothing is under way after a commit that was not before, while the status stays.
LEMMA UnderWayBack ==
    ASSUME Inv, NEW p \in Procs, Done(p), UNCHANGED remate, UnderWay'
    PROVE  UnderWay
BY DoneProcs, Constants DEF Inv, UnderWay

\* What a bid writes.
BidOn(row, at, dear) == [Extended(row, at) EXCEPT !.led = TRUE, !.dear = dear]

LEMMA BidRow ==
    ASSUME Inv, NEW w \in Workers, AcceptBid(w)
    PROVE  /\ req[w].lote \in Lotes /\ lote[req[w].lote].status = "OPEN"
           /\ seen[w].rows[req[w].lote].status = "OPEN" /\ seen[w].rows[req[w].lote] = lote[req[w].lote]
           /\ \E dear \in {FALSE, lote[req[w].lote].dear} :
                 lote' = [lote EXCEPT ![req[w].lote] = BidOn(lote[req[w].lote], seen[w].at, dear)]
<1>1. req[w].lote \in Lotes /\ seen[w].rows[req[w].lote].status = "OPEN"
  BY DEF Inv, AcceptBid, Ready, Serving, RequestInv, RowKinds, BidIsValid
<1>2. seen[w].rows[req[w].lote] = lote[req[w].lote]
  BY <1>1, HeldRow
<1> QED BY <1>1, <1>2 DEF AcceptBid, Write, BidOn

LEMMA ExtendedRow ==
    ASSUME plan \in Plan, NEW r \in LoteRow, RowOK(r), r.status = "OPEN", NEW at \in Nat,
           NEW dear \in BOOLEAN, NEW new, new = BidOn(r, at, dear)
    PROVE  new \in LoteRow /\ RowOK(new) /\ new.status = "OPEN" /\ (new.ends = NULL <=> r.ends = NULL)
<1> DEFINE e == Extended(r, at)
<1>1. e \in LoteRow /\ e.status = "OPEN" /\ e.paused = r.paused /\ (e.ends = NULL <=> r.ends = NULL)
  BY DEF Extended, Plan, LoteRow, NULL
<1>2. new = [e EXCEPT !.led = TRUE, !.dear = dear]
  BY DEF BidOn
<1> HIDE DEF e
<1> QED BY <1>1, <1>2 DEF LoteRow, RowOK, NULL

LEMMA AcceptBidInv == ASSUME Inv, NEW w \in Workers, AcceptBid(w) PROVE Inv'
<1> DEFINE l == req[w].lote
<1>1. Done(w) /\ RemateFree(w) /\ UNCHANGED <<plan, now, remate, late, adrift>> /\ w \in Procs
  BY Constants DEF AcceptBid, Ready
<1>a. l \in Lotes /\ lote[l].status = "OPEN" /\ seen[w].rows[l].status # "NONE"
  BY BidRow
<1>b. PICK dear \in {FALSE, lote[l].dear} :
        lote' = [lote EXCEPT ![l] = BidOn(lote[l], seen[w].at, dear)]
  BY BidRow
<1> DEFINE new == BidOn(lote[l], seen[w].at, dear)
<1>2. l \in Lotes /\ lote[l].status = "OPEN" /\ seen[w].rows[l].status # "NONE" /\ lote' = [lote EXCEPT ![l] = new]
  BY <1>a, <1>b
<1>c. dear \in BOOLEAN
  BY <1>a, <1>b DEF Inv, TypeOK, LoteRow
<1>3. lote \in [Lotes -> LoteRow] /\ plan \in Plan /\ seen[w].at \in Nat /\ \A k \in Lotes : RowOK(lote[k])
  BY <1>1 DEF Inv, TypeOK, Reading, RowsInv
<1>4. new \in LoteRow /\ RowOK(new) /\ new.status = "OPEN" /\ (new.ends = NULL <=> lote[l].ends = NULL)
  <2>1. lote[l] \in LoteRow /\ RowOK(lote[l])
    BY <1>2, <1>3
  <2> QED BY <2>1, <1>2, <1>3, <1>c, ExtendedRow
<1> HIDE DEF new, l
<1>5. StatusInv'
  BY <1>1, <1>2, <1>3, <1>4, UnderWayBack DEF Inv, StatusInv, ClockFollowsTheRemate, Having
<1> QED BY <1>1, <1>2, <1>3, <1>4, <1>5, CommitInv DEF Inv, TypeOK

LEMMA CancelLoteInv == ASSUME Inv, NEW w \in Workers, CancelLote(w) PROVE Inv'
<1> DEFINE l == req[w].lote
           new == [lote[l] EXCEPT !.status = "CANCELLED"]
<1>1. Done(w) /\ RemateFree(w) /\ UNCHANGED <<plan, now, remate, late, adrift>> /\ w \in Procs
  BY Constants DEF CancelLote, Ready
<1>2. l \in Lotes /\ seen[w].rows[l].status # "NONE"
  BY DEF Inv, CancelLote, Ready, Serving, RequestInv, RowKinds, CanCancelLote, LoteMoves
<1>3. lote \in [Lotes -> LoteRow] /\ lote' = [lote EXCEPT ![l] = new] /\ RowOK(lote[l])
      /\ \A k \in Lotes : RowOK(lote[k])
  BY <1>2, HeldRow DEF CancelLote, Write, Inv, TypeOK, RowsInv
<1>4. new \in LoteRow /\ RowOK(new) /\ new.status = "CANCELLED"
  BY <1>2, <1>3 DEF LoteRow, LoteStatus, RowOK
<1> HIDE DEF new, l
<1>5. StatusInv'
  BY <1>1, <1>2, <1>3, <1>4, UnderWayBack DEF Inv, StatusInv, ClockFollowsTheRemate, Having
<1> QED BY <1>1, <1>2, <1>3, <1>4, <1>5, CommitInv DEF Inv, TypeOK

LEMMA EditLoteInv == ASSUME Inv, NEW w \in Workers, EditLote(w) PROVE Inv'
<1> DEFINE l == req[w].lote
<1>1. Done(w) /\ RemateFree(w) /\ UNCHANGED <<plan, now, remate, late, adrift>> /\ w \in Procs
  BY Constants DEF EditLote, Ready
<1>2. l \in Lotes /\ seen[w].rows[l].status # "NONE"
  BY DEF Inv, EditLote, Ready, Serving, RequestInv, RowKinds
<1>a. seen[w].rows[l] = lote[l] /\ lote[l] \in LoteRow
  BY <1>2, HeldRow
<1>b. PICK dear \in {FALSE, lote[l].led} : lote' = [lote EXCEPT ![l] = [lote[l] EXCEPT !.dear = dear]]
  BY <1>2, <1>a DEF EditLote, Write
<1> DEFINE new == [lote[l] EXCEPT !.dear = dear]
<1>3. lote \in [Lotes -> LoteRow] /\ lote' = [lote EXCEPT ![l] = new] /\ RowOK(lote[l])
      /\ \A k \in Lotes : RowOK(lote[k])
  BY <1>2, <1>b DEF Inv, TypeOK, RowsInv
<1>4. new \in LoteRow /\ RowOK(new) /\ new.status = lote[l].status /\ new.ends = lote[l].ends
  BY <1>2, <1>3, <1>a, <1>b DEF LoteRow, RowOK
<1> HIDE DEF new, l
<1>5. StatusInv'
  BY <1>1, <1>2, <1>3, <1>4, UnderWayBack DEF Inv, StatusInv, ClockFollowsTheRemate, Having
<1> QED BY <1>1, <1>2, <1>3, <1>4, <1>5, CommitInv DEF Inv, TypeOK

LEMMA DeleteLoteInv == ASSUME Inv, NEW w \in Workers, DeleteLote(w) PROVE Inv'
<1> DEFINE l == req[w].lote
<1>1. Done(w) /\ RemateFree(w) /\ UNCHANGED <<plan, now, remate, adrift>> /\ w \in Procs /\ late' = late \ {l}
  BY Constants DEF DeleteLote, Ready
<1>2. l \in Lotes /\ seen[w].rows[l].status # "NONE"
  BY DEF Inv, DeleteLote, Ready, Serving, RequestInv, RowKinds
<1>3. lote \in [Lotes -> LoteRow] /\ lote' = [lote EXCEPT ![l] = NoRow]
      /\ \A k \in Lotes : RowOK(lote[k])
  BY <1>2 DEF DeleteLote, Write, Inv, TypeOK, RowsInv
<1> HIDE DEF l
<1>5. StatusInv'
  BY <1>1, <1>2, <1>3, Constants, UnderWayBack DEF Inv, StatusInv, ClockFollowsTheRemate, Having
<1> QED BY <1>1, <1>2, <1>3, <1>5, Constants, CommitInv DEF Inv, TypeOK

LEMMA CreateLoteInv == ASSUME Inv, NEW w \in Workers, CreateLote(w) PROVE Inv'
<1> DEFINE l == req[w].lote
<1>1. Done(w) /\ RemateFree(w) /\ UNCHANGED <<plan, now, remate, adrift>> /\ w \in Procs
      /\ late' = IF remate = "SCHEDULED" THEN late ELSE late \cup {l}
  BY Constants DEF CreateLote, Ready
<1>2. l \in Lotes /\ req[w].kind = "create"
  BY DEF Inv, CreateLote, Ready, Serving, RequestInv
<1>3. lote \in [Lotes -> LoteRow] /\ lote' = [lote EXCEPT ![l] = NewRow] /\ late \subseteq Lotes
      /\ \A k \in Lotes : RowOK(lote[k])
  BY <1>2 DEF CreateLote, Write, Inv, TypeOK, RowsInv
<1>4. UnderWay => remate # "SCHEDULED"
  BY DEF Inv, UnderWay, PastInv
<1> HIDE DEF l
<1>5. StatusInv'
  <2>1. Having("OPEN")' \subseteq Having("OPEN") /\ Having("PENDING")' \subseteq Having("PENDING") \cup {l}
        /\ \A k \in Having("OPEN")' : lote'[k] = lote[k]
    BY <1>2, <1>3, Constants DEF Having
  <2>2. UnderWay' => UnderWay
    BY <1>1, UnderWayBack
  <2> QED BY <1>1, <1>4, <2>1, <2>2 DEF Inv, StatusInv, ClockFollowsTheRemate
<1>6. late' \subseteq Lotes /\ \A k \in Lotes : lote'[k] = IF k = l THEN NewRow ELSE lote[k]
  BY <1>1, <1>2, <1>3
<1>7. RemateFree(w) /\ remate' \in RemateStatus /\ lote' \in [Lotes -> LoteRow] /\ adrift' \in BOOLEAN
  BY <1>1, <1>2, <1>3, Constants DEF Inv, TypeOK
<1>8. \A k \in Lotes : RowOK(lote'[k]) /\ (lote'[k].status = "OPEN" => lote[k].status = "OPEN")
  BY <1>3, <1>6, Constants
<1>9. \A k \in Lotes : lote'[k] # lote[k] => req[w].kind = "create" /\ k = req[w].lote
  BY <1>2, <1>6 DEF l
<1> QED BY <1>1, <1>5, <1>6, <1>7, <1>8, <1>9, CommitInv

\* What a pause or a resume writes: every row that was OPEN when its statement returned.
LEMMA ListedRows ==
    ASSUME Inv, NEW w \in Workers, ChangeAll(w)
    PROVE  \A l \in Listed(w) : /\ l \in Lotes /\ lote[l].status = "OPEN" /\ lote[l] = seen[w].rows[l]
                                /\ seen[w].rows[l].status # "NONE"
                                /\ lote'[l] = IF req[w].kind = "pause" THEN Frozen(lote[l], seen[w].at)
                                                                       ELSE Unfrozen(lote[l], seen[w].at)
<1>1. \A l \in Listed(w) : l \in Lotes /\ seen[w].rows[l].status = "OPEN"
  BY DEF Listed
<1>2. \A l \in Listed(w) : seen[w].rows[l] = lote[l]
  BY <1>1, HeldRow
<1> QED BY <1>1, <1>2 DEF ChangeAll

LEMMA ClockRow ==
    ASSUME NEW r \in LoteRow, RowOK(r), r.status = "OPEN", NEW at \in Nat
    PROVE  /\ Frozen(r, at) \in LoteRow /\ RowOK(Frozen(r, at))
           /\ Frozen(r, at).status = "OPEN" /\ Frozen(r, at).ends = NULL
           /\ Unfrozen(r, at) \in LoteRow /\ RowOK(Unfrozen(r, at))
           /\ Unfrozen(r, at).status = "OPEN" /\ Unfrozen(r, at).ends # NULL
<1> DEFINE left == Max0(r.ends - at)
           until == at + r.paused
<1>1. r.ends # NULL => left \in Nat
  BY DEF Max0, LoteRow, NULL
<1>2. r.paused # NULL => until \in Nat
  BY DEF LoteRow, NULL
<1>3. /\ Frozen(r, at) = IF r.ends = NULL THEN r ELSE [r EXCEPT !.paused = left, !.ends = NULL]
      /\ Unfrozen(r, at) = IF r.paused = NULL THEN r ELSE [r EXCEPT !.ends = until, !.paused = NULL]
  BY DEF Frozen, Unfrozen
<1> HIDE DEF left, until
<1>4. CASE r.ends # NULL
  <2>1. /\ Frozen(r, at).status = "OPEN" /\ Frozen(r, at).ends = NULL
        /\ Frozen(r, at).paused = left /\ Frozen(r, at) \in LoteRow
    BY <1>1, <1>3, <1>4 DEF LoteRow
  <2>2. RowOK(Frozen(r, at))
    BY <1>1, <1>4, <2>1 DEF RowOK, NULL
  <2>3. Unfrozen(r, at) = r
    BY <1>3, <1>4 DEF RowOK
  <2> QED BY <1>4, <2>1, <2>2, <2>3
<1>5. CASE r.ends = NULL
  <2>1. Frozen(r, at) = r /\ r.paused # NULL
    BY <1>3, <1>5 DEF RowOK
  <2>2. /\ Unfrozen(r, at).status = "OPEN" /\ Unfrozen(r, at).ends = until
        /\ Unfrozen(r, at).paused = NULL /\ Unfrozen(r, at) \in LoteRow
    BY <1>2, <1>3, <2>1 DEF LoteRow
  <2>3. RowOK(Unfrozen(r, at)) /\ Unfrozen(r, at).ends # NULL
    BY <1>2, <2>1, <2>2 DEF RowOK, NULL
  <2> QED BY <1>5, <2>1, <2>2, <2>3
<1> QED BY <1>4, <1>5

LEMMA ChangeAllInv == ASSUME Inv, NEW w \in Workers, ChangeAll(w) PROVE Inv'
<1>1. /\ Done(w) /\ RemateFree(w) /\ UNCHANGED <<plan, now, late>> /\ w \in Procs
      /\ req[w].kind \in GroupKinds /\ pc[w] = "locked" /\ remate' = Target(req[w].kind)
      /\ adrift' = (adrift \/ (req[w].kind = "resume" /\ seen[w].remate = "SCHEDULED"))
      /\ \A l \in Lotes \ Listed(w) : lote'[l] = lote[l]
      /\ DOMAIN lote' = Lotes
  BY Constants DEF ChangeAll, Ready, Serving
<1>2. /\ lote \in [Lotes -> LoteRow] /\ late \subseteq Lotes /\ adrift \in BOOLEAN /\ seen[w].at \in Nat
      /\ \A l \in Lotes : lote[l] \in LoteRow /\ RowOK(lote[l])
  BY <1>1 DEF Inv, TypeOK, Reading, RowsInv
<1>3. \A l \in Lotes : lote'[l] \in LoteRow /\ RowOK(lote'[l]) /\ lote'[l].status = lote[l].status
  <2> SUFFICES ASSUME NEW l \in Lotes
               PROVE  lote'[l] \in LoteRow /\ RowOK(lote'[l]) /\ lote'[l].status = lote[l].status
    OBVIOUS
  <2>1. CASE l \notin Listed(w)
    BY <1>1, <1>2, <2>1
  <2>2. CASE l \in Listed(w)
    <3>1. lote[l] \in LoteRow /\ RowOK(lote[l]) /\ lote[l].status = "OPEN"
      BY <1>2, <2>2, ListedRows
    <3>2. \/ lote'[l] = Frozen(lote[l], seen[w].at)
          \/ lote'[l] = Unfrozen(lote[l], seen[w].at)
      BY <2>2, ListedRows
    <3> QED BY <1>2, <3>1, <3>2, ClockRow
  <2> QED BY <2>1, <2>2
<1>4. \A l \in Listed(w) : IF req[w].kind = "pause" THEN lote'[l].ends = NULL ELSE lote'[l].ends # NULL
  BY <1>2, ListedRows, ClockRow
<1>5. /\ req[w].kind = "pause" => remate' = "PAUSED" /\ seen[w].remate = "LIVE"
      /\ req[w].kind = "resume" => remate' = "LIVE" /\ seen[w].remate \in {"SCHEDULED", "PAUSED"}
      /\ req[w].kind \in {"pause", "resume"}
  BY <1>1 DEF Inv, RequestInv, GroupKinds, Target
<1>6. seen[w].remate # "SCHEDULED" => Having("OPEN") \subseteq Listed(w)
  <2> SUFFICES ASSUME seen[w].remate # "SCHEDULED", NEW l \in Having("OPEN")
               PROVE  seen[w].rows[l].status = "OPEN" /\ l \in Lotes
    BY DEF Listed
  <2>1. l \in seen[w].todo \/ seen[w].rows[l].status = "OPEN"
    BY <1>1 DEF Inv, CoverInv
  <2>2. seen[w].todo = {}
    BY <1>1 DEF Inv, RequestInv
  <2> QED BY <2>1, <2>2 DEF Having
<1>7. Having("OPEN")' = Having("OPEN") /\ Having("PENDING")' = Having("PENDING")
  BY <1>3 DEF Having
<1>8. UnderWay' /\ ~adrift' => UnderWay
  BY <1>5, <1>1 DEF UnderWay
<1>9. StatusInv'
  BY <1>1, <1>4, <1>5, <1>6, <1>7, <1>8 DEF Inv, StatusInv, ClockFollowsTheRemate
<1>10. remate' \in RemateStatus /\ lote' \in [Lotes -> LoteRow] /\ adrift' \in BOOLEAN /\ late' \subseteq Lotes
  <2>1. lote' = [l \in Lotes |-> lote'[l]]
    BY DEF ChangeAll
  <2> QED BY <1>1, <1>2, <1>3, <1>5, <2>1 DEF RemateStatus
<1>11. \A l \in Lotes : lote'[l] # lote[l] => seen[w].rows[l].status # "NONE"
  BY <1>1, ListedRows
<1> QED BY <1>1, <1>3, <1>5, <1>9, <1>10, <1>11, CommitInv

LEMMA ChangeStatusInv == ASSUME Inv, NEW w \in Workers, ChangeStatus(w) PROVE Inv'
<1>1. /\ Done(w) /\ RemateFree(w) /\ UNCHANGED <<plan, now, lote, late, adrift>> /\ w \in Procs
      /\ req[w].kind \in {"finish", "cancel"} /\ pc[w] = "locked" /\ remate' = Target(req[w].kind)
  BY Constants DEF ChangeStatus, Ready, Serving
<1>2. /\ lote \in [Lotes -> LoteRow] /\ late \subseteq Lotes /\ adrift \in BOOLEAN
      /\ \A l \in Lotes : lote'[l] = lote[l] /\ RowOK(lote[l])
  BY <1>1 DEF Inv, TypeOK, RowsInv
<1>3. remate' = IF req[w].kind = "finish" THEN "FINISHED" ELSE "CANCELLED"
  BY <1>1 DEF Target
<1>4. req[w].kind = "finish" => Having("OPEN") = {} /\ UnderWay
  BY <1>1 DEF Inv, CoverInv, RequestInv, UnderWay
<1>5. req[w].kind = "cancel" /\ UnderWay' => UnderWay
  <2>1. \A v \in Workers : seen'[v].remate \in {"LIVE", "PAUSED"} => seen[v].remate \in {"LIVE", "PAUSED"}
    BY <1>1, DoneProcs, Constants DEF Inv
  <2> QED BY <1>3, <2>1 DEF UnderWay
<1>6. StatusInv'
  BY <1>1, <1>3, <1>4, <1>5 DEF Inv, StatusInv, ClockFollowsTheRemate, Having
<1>7. remate' \in RemateStatus /\ remate' # "SCHEDULED"
  BY <1>3 DEF RemateStatus
<1> QED BY <1>1, <1>2, <1>6, <1>7, CommitInv

------------------------------------------------------------------------------
(* The commits of the tasks.                                                *)

LEMMA NextCandidateProcs ==
    ASSUME Inv, NextCandidate
    PROVE  /\ pc' \in [Procs -> {"idle", "read", "waiting", "locked"}]
           /\ req' \in [Procs -> Request] /\ seen' \in [Procs -> Reading]
           /\ lock' \in [Lotes -> Procs \cup {NoProc}] /\ remateLock' \in {Lifecycle, NoProc}
           /\ pc'[Expiry] # "locked" /\ seen'[Expiry].at <= now
           /\ \A q \in Procs \ {Expiry} : pc'[q] = pc[q] /\ req'[q] = req[q] /\ seen'[q] = seen[q]
           /\ \A l \in Lotes : lock'[l] = IF lock[l] = Expiry THEN NoProc ELSE lock[l]
<1>1. Expiry \in Procs /\ TypeOK /\ PastInv
  BY Constants DEF Inv
<1>2. CASE Done(Expiry)
  BY <1>1, <1>2, DoneProcs, Constants DEF TypeOK
<1>3. CASE ~Done(Expiry)
  BY <1>1, <1>3 DEF NextCandidate, TypeOK, PastInv
<1> QED BY <1>2, <1>3

LEMMA CloseByClockInv == ASSUME Inv, CloseByClock PROVE Inv'
<1> DEFINE l == req[Expiry].lote
           new == [lote[l] EXCEPT !.status = IF lote[l].led THEN "CLOSED_SOLD" ELSE "CLOSED_UNSOLD",
                                  !.ends = NULL, !.paused = NULL]
<1>1. NextCandidate /\ RemateFree(Expiry) /\ UNCHANGED <<plan, now, remate, late, adrift>>
  BY DEF CloseByClock, Ready
<1>2. l \in Lotes /\ seen[Expiry].rows[l] = lote[l] /\ lote[l].status = "OPEN" /\ lock[l] = Expiry
  BY DEF Inv, CloseByClock, Ready, Serving, CanCloseByClock, IsExpired, TaskInv
<1>3. lote \in [Lotes -> LoteRow] /\ lote' = [lote EXCEPT ![l] = new] /\ lote[l] \in LoteRow
      /\ \A k \in Lotes : RowOK(lote[k])
  BY <1>2 DEF CloseByClock, Write, Inv, TypeOK, RowsInv
<1>4. new \in LoteRow /\ RowOK(new) /\ new.status \notin {"NONE", "OPEN", "PENDING"}
  BY <1>3 DEF LoteRow, LoteStatus, RowOK, NULL
<1> HIDE DEF new, l
<1>5. /\ lote'[l] = new /\ \A k \in Lotes \ {l} : lote'[k] = lote[k]
      /\ Having("OPEN")' \subseteq Having("OPEN") \ {l} /\ Having("PENDING")' = Having("PENDING")
  BY <1>2, <1>3, <1>4 DEF Having
<1>6. TypeOK'
  BY <1>1, <1>3, <1>4, NextCandidateProcs DEF Inv, TypeOK
<1>7. RequestInv'
  BY <1>1, NextCandidateProcs, Constants DEF Inv, RequestInv
<1>8. HeldInv'
  BY <1>1, <1>2, <1>5, NextCandidateProcs, Constants DEF Inv, HeldInv
<1>9. CreateInv'
  BY <1>1, <1>2, <1>5, NextCandidateProcs, Constants DEF Inv, CreateInv, RequestInv
<1>10. TaskInv'
  BY <1>1, NextCandidateProcs, Constants DEF Inv, TaskInv, RemateFree
<1>11. PastInv'
  BY <1>1, NextCandidateProcs, Constants DEF Inv, PastInv
<1>12. CoverInv'
  BY <1>1, <1>5, NextCandidateProcs, Constants DEF Inv, CoverInv
<1>13. RowsInv'
  BY <1>3, <1>4, <1>5 DEF RowsInv
<1>14. StatusInv'
  <2>1. UnderWay' => UnderWay
    BY <1>1, NextCandidateProcs, Constants DEF UnderWay
  <2>2. \A k \in Having("OPEN")' : lote'[k] = lote[k] /\ k \in Having("OPEN")
    BY <1>5 DEF Having
  <2> QED BY <1>1, <1>5, <2>1, <2>2 DEF Inv, StatusInv, ClockFollowsTheRemate
<1> QED BY <1>6, <1>7, <1>8, <1>9, <1>10, <1>11, <1>12, <1>13, <1>14 DEF Inv

\* The lifecycle task acts on the remate and the lotes as they are.
LEMMA LifecycleKnows ==
    ASSUME Inv, pc[Lifecycle] = "locked"
    PROVE  seen[Lifecycle].remate = remate /\ seen[Lifecycle].rows = lote /\ \A s : Known(s) = Having(s)
BY DEF Inv, TaskInv, Known, Having

LEMMA AutoStartInv == ASSUME Inv, AutoStart PROVE Inv'
<1>1. /\ Done(Lifecycle) /\ UNCHANGED <<plan, now, late, adrift>> /\ remate' = "LIVE" /\ Lifecycle \in Procs
      /\ pc[Lifecycle] = "locked"
  BY Constants DEF AutoStart, Ready, Serving
<1>2. remate = "SCHEDULED" /\ Having("OPEN") = {}
  BY <1>1, LifecycleKnows DEF AutoStart, CanStart, Inv, StatusInv
<1>3. \A l \in Lotes : lote[l].status = "PENDING" => lock[l] = NoProc
  BY <1>1, LifecycleKnows DEF AutoStart, Having
<1>4. lote \in [Lotes -> LoteRow] /\ EndsAt \in Nat /\ \A l \in Lotes : RowOK(lote[l])
  BY TimedAssumption DEF Inv, TypeOK, RowsInv
<1> DEFINE new(l) == [lote[l] EXCEPT !.status = "OPEN", !.ends = EndsAt, !.paused = NULL]
<1>5. lote' = [l \in Lotes |-> IF lote[l].status = "PENDING" THEN new(l) ELSE lote[l]]
  BY <1>1, LifecycleKnows DEF AutoStart, Having
<1>6. \A l \in Lotes : /\ new(l) \in LoteRow /\ RowOK(new(l)) /\ new(l).status = "OPEN" /\ new(l).ends # NULL
  <2> SUFFICES ASSUME NEW l \in Lotes, NEW r, r = lote[l],
                      NEW n, n = [r EXCEPT !.status = "OPEN", !.ends = EndsAt, !.paused = NULL]
               PROVE  n \in LoteRow /\ RowOK(n) /\ n.status = "OPEN" /\ n.ends # NULL
    OBVIOUS
  <2>1. r \in LoteRow
    BY <1>4
  <2>2. n \in LoteRow /\ n.status = "OPEN" /\ n.ends = EndsAt /\ n.paused = NULL
    BY <1>4, <2>1 DEF LoteRow, LoteStatus
  <2> QED BY <1>4, <2>2 DEF RowOK, NULL
<1> HIDE DEF new
<1>7. /\ \A l \in Lotes : lote'[l] = IF lote[l].status = "PENDING" THEN new(l) ELSE lote[l]
      /\ \A l \in Lotes : lote'[l] # lote[l] => lock[l] = NoProc /\ lote[l].status # "NONE"
      /\ lote' \in [Lotes -> LoteRow] /\ \A l \in Lotes : RowOK(lote'[l])
  BY <1>3, <1>4, <1>5, <1>6
<1>8. Having("PENDING")' = {} /\ \A l \in Having("OPEN")' : lote'[l].ends # NULL
  BY <1>2, <1>6, <1>7 DEF Having
<1>9. TypeOK'
  BY <1>1, <1>7, DoneProcs DEF Inv, TypeOK, RemateStatus
<1>10. RequestInv'
  BY <1>1, DoneProcs, Constants DEF Inv, RequestInv
<1>11. HeldInv'
  BY <1>1, <1>7, DoneProcs, Constants DEF Inv, HeldInv
<1>12. CreateInv'
  BY <1>1, <1>7, DoneProcs, Constants DEF Inv, CreateInv, RequestInv
<1>13. TaskInv'
  BY <1>1, <1>7, DoneProcs, Constants DEF Inv, TaskInv
<1>14. PastInv'
  BY <1>1, DoneProcs, Constants DEF Inv, PastInv, TypeOK
<1>15. CoverInv'
  <2>1. \A w \in Workers : seen'[w].remate = "SCHEDULED" /\ req'[w] = req[w] /\ seen'[w] = seen[w]
    BY <1>1, <1>2, DoneProcs, Constants DEF Inv, PastInv
  <2>2. \A w \in Workers : req'[w].kind # "finish"
    BY <2>1 DEF Inv, RequestInv
  <2> QED BY <2>1, <2>2 DEF CoverInv
<1>16. RowsInv'
  BY <1>7 DEF RowsInv
<1>17. StatusInv'
  BY <1>1, <1>8 DEF StatusInv, ClockFollowsTheRemate
<1> QED BY <1>9, <1>10, <1>11, <1>12, <1>13, <1>14, <1>15, <1>16, <1>17 DEF Inv

LEMMA AutoFinishInv == ASSUME Inv, AutoFinish PROVE Inv'
<1>1. /\ Done(Lifecycle) /\ UNCHANGED <<plan, now, lote, late, adrift>> /\ remate' = "FINISHED"
      /\ Lifecycle \in Procs /\ pc[Lifecycle] = "locked"
  BY Constants DEF AutoFinish, Ready, Serving
<1>2. remate = "LIVE" /\ Having("OPEN") = {}
  BY <1>1, LifecycleKnows DEF AutoFinish, CanFinish
<1>3. TypeOK'
  BY <1>1, DoneProcs DEF Inv, TypeOK, RemateStatus
<1>4. RequestInv' /\ HeldInv' /\ CreateInv'
  BY <1>1, DoneProcs, Constants DEF Inv, RequestInv, HeldInv, CreateInv
<1>5. TaskInv'
  BY <1>1, DoneProcs, Constants DEF Inv, TaskInv
<1>6. PastInv'
  BY <1>1, DoneProcs, Constants DEF Inv, PastInv, TypeOK
<1>7. Having("OPEN")' = {} /\ Having("PENDING")' = Having("PENDING")
  BY <1>1, <1>2 DEF Having
<1>8. CoverInv' /\ RowsInv'
  BY <1>1, <1>7 DEF Inv, CoverInv, RowsInv
<1>9. StatusInv'
  BY <1>1, <1>2, <1>7 DEF Inv, StatusInv, ClockFollowsTheRemate, UnderWay
<1> QED BY <1>3, <1>4, <1>5, <1>6, <1>8, <1>9 DEF Inv

------------------------------------------------------------------------------
(* Steps that only read and lock.                                           *)

LEMMA WorkerReads ==
    ASSUME Inv, NEW w \in Workers, UNCHANGED <<plan, now, rows, remateLock>>,
           pc' \in [Procs -> {"idle", "read", "waiting", "locked"}],
           req' \in [Procs -> Request], seen' \in [Procs -> Reading], lock' \in [Lotes -> Procs \cup {NoProc}],
           \A q \in Procs \ {w} : pc'[q] = pc[q] /\ req'[q] = req[q] /\ seen'[q] = seen[q],
           \A l \in Lotes : lock[l] # NoProc => lock'[l] = lock[l],
           pc'[w] # "idle",
           req'[w].kind \in {"pause", "finish"} => seen'[w].remate = "LIVE",
           req'[w].kind = "resume" => seen'[w].remate \in {"SCHEDULED", "PAUSED"},
           req'[w].kind \in RowKinds \cup {"create"} => req'[w].lote \in Lotes,
           req'[w].kind \in GroupKinds /\ pc'[w] = "locked" => seen'[w].todo = {},
           pc'[w] = "waiting" => req'[w].kind \in RowKinds \cup GroupKinds,
           \A l \in Lotes : seen'[w].rows[l].status # "NONE" => lock'[l] = w /\ seen'[w].rows[l] = lote[l],
           req'[w].kind = "create" =>
               pc'[w] = "locked" /\ lote[req'[w].lote].status = "NONE" /\ \A v \in Workers \ {w} : req[v] # req'[w],
           seen'[w].remate # "SCHEDULED" => remate # "SCHEDULED",
           seen'[w].remate \in {"LIVE", "PAUSED"} => UnderWay,
           seen'[w].at <= now,
           \A l \in Having("OPEN") :
               /\ req'[w].kind \in GroupKinds /\ seen'[w].remate # "SCHEDULED" /\ pc'[w] \in {"waiting", "locked"} =>
                      l \in seen'[w].todo \/ seen'[w].rows[l].status = "OPEN"
               /\ ~(req'[w].kind = "finish" /\ pc'[w] = "locked")
    PROVE  Inv'
<1>1. UNCHANGED <<plan, now, remate, lote, late, adrift, remateLock>> /\ w \in Procs /\ w # Expiry /\ w # Lifecycle
  BY Constants DEF rows
<1>2. TypeOK'
  BY <1>1 DEF Inv, TypeOK
<1>3. RequestInv'
  BY <1>1, Constants DEF Inv, RequestInv
<1>4. HeldInv'
  BY <1>1, Constants DEF Inv, HeldInv
<1>5. CreateInv'
  BY <1>1, Constants DEF Inv, CreateInv
<1>6. TaskInv'
  BY <1>1, Constants DEF Inv, TaskInv
<1>7. PastInv'
  BY <1>1, Constants DEF Inv, PastInv
<1>8. CoverInv'
  BY <1>1, Constants DEF Inv, CoverInv, Having
<1>9. RowsInv'
  BY <1>1 DEF Inv, RowsInv
<1>10. StatusInv'
  <2>1. UnderWay' => UnderWay
    BY <1>1, Constants DEF UnderWay
  <2> QED BY <1>1, <2>1 DEF Inv, StatusInv, ClockFollowsTheRemate, Having
<1> QED BY <1>2, <1>3, <1>4, <1>5, <1>6, <1>7, <1>8, <1>9, <1>10 DEF Inv

LEMMA TaskReads ==
    ASSUME Inv, NEW p \in {Expiry, Lifecycle}, UNCHANGED <<plan, now, rows>>,
           pc' \in [Procs -> {"idle", "read", "waiting", "locked"}],
           req' \in [Procs -> Request], seen' \in [Procs -> Reading], lock' \in [Lotes -> Procs \cup {NoProc}],
           remateLock' \in {Lifecycle, NoProc},
           \A q \in Procs \ {p} : pc'[q] = pc[q] /\ req'[q] = req[q] /\ seen'[q] = seen[q],
           \A l \in Lotes : lock[l] # NoProc => lock'[l] = lock[l],
           seen'[p].at <= now,
           TaskInv'
    PROVE  Inv'
<1>1. UNCHANGED <<plan, now, remate, lote, late, adrift>> /\ p \in Procs /\ p \notin Workers
  BY Constants DEF rows
<1>2. TypeOK'
  BY <1>1 DEF Inv, TypeOK
<1>3. \A w \in Workers : w \in Procs \ {p} /\ pc'[w] = pc[w] /\ req'[w] = req[w] /\ seen'[w] = seen[w]
  BY <1>1, Constants
<1>4. RequestInv'
  BY <1>3 DEF Inv, RequestInv
<1>5. HeldInv'
  BY <1>1, <1>3, Constants DEF Inv, HeldInv
<1>6. CreateInv'
  BY <1>1, <1>3 DEF Inv, CreateInv
<1>7. PastInv'
  BY <1>1, <1>3 DEF Inv, PastInv
<1>8. CoverInv' /\ RowsInv'
  BY <1>1, <1>3 DEF Inv, CoverInv, RowsInv, Having
<1>9. StatusInv'
  BY <1>1, <1>3 DEF Inv, StatusInv, ClockFollowsTheRemate, Having, UnderWay
<1> QED BY <1>2, <1>4, <1>5, <1>6, <1>7, <1>8, <1>9 DEF Inv

\* What a transaction knows when it begins.
LEMMA BeginProcs ==
    ASSUME Inv, NEW p \in Procs, NEW kind \in Kinds \cup {"expire", "start", "end"}, NEW l \in Lotes \cup {NoLote},
           NEW phase \in {"read", "waiting", "locked"}, NEW todo \in SUBSET Lotes, Begin(p, kind, l, phase, todo)
    PROVE  /\ pc' \in [Procs -> {"idle", "read", "waiting", "locked"}]
           /\ req' \in [Procs -> Request] /\ seen' \in [Procs -> Reading]
           /\ lock' = lock /\ remateLock' = remateLock /\ UNCHANGED <<plan, now, rows>>
           /\ \A q \in Procs \ {p} : pc'[q] = pc[q] /\ req'[q] = req[q] /\ seen'[q] = seen[q]
           /\ pc'[p] = phase /\ req'[p] = [kind |-> kind, lote |-> l]
           /\ seen'[p].remate = remate /\ seen'[p].todo = todo /\ seen'[p].at = 0
           /\ \A k \in Lotes : seen'[p].rows[k].status = "NONE"
<1> DEFINE s == [NoSeen EXCEPT !.remate = remate, !.todo = todo]
<1>1. s \in Reading /\ s.remate = remate /\ s.todo = todo /\ s.at = 0 /\ s.rows = NoSeen.rows
  BY Constants DEF Inv, TypeOK, Reading
<1>2. [kind |-> kind, lote |-> l] \in Request
  BY DEF Request
<1>3. seen' = [seen EXCEPT ![p] = s]
  BY DEF Begin
<1> HIDE DEF s
<1>4. \A k \in Lotes : s.rows[k].status = "NONE"
  BY <1>1, Constants
<1> QED BY <1>1, <1>2, <1>3, <1>4 DEF Begin, Inv, TypeOK

\* A request begins.
LEMMA WorkerBegins ==
    ASSUME Inv, NEW w \in Workers, NEW kind \in Kinds, NEW l \in Lotes \cup {NoLote},
           NEW phase \in {"read", "waiting", "locked"}, NEW todo \in SUBSET Lotes, Begin(w, kind, l, phase, todo),
           kind \in {"pause", "finish"} => remate = "LIVE" /\ phase = "read",
           kind = "resume" => remate \in {"SCHEDULED", "PAUSED"} /\ phase = "read",
           kind \in RowKinds \cup {"create"} => l \in Lotes,
           phase = "waiting" => kind \in RowKinds,
           kind = "create" => phase = "locked" /\ lote[l].status = "NONE"
                              /\ \A v \in Workers : req[v] # [kind |-> "create", lote |-> l]
    PROVE  Inv'
<1>1. w \in Procs /\ now \in Nat /\ lock \in [Lotes -> Procs \cup {NoProc}]
  BY Constants DEF Inv, TypeOK
<1>2. /\ pc' \in [Procs -> {"idle", "read", "waiting", "locked"}]
      /\ req' \in [Procs -> Request] /\ seen' \in [Procs -> Reading]
      /\ lock' = lock /\ remateLock' = remateLock /\ UNCHANGED <<plan, now, rows>>
      /\ \A q \in Procs \ {w} : pc'[q] = pc[q] /\ req'[q] = req[q] /\ seen'[q] = seen[q]
      /\ pc'[w] = phase /\ req'[w] = [kind |-> kind, lote |-> l]
      /\ seen'[w].remate = remate /\ seen'[w].todo = todo /\ seen'[w].at = 0
      /\ \A k \in Lotes : seen'[w].rows[k].status = "NONE"
  BY <1>1, BeginProcs
<1>3. req'[w].kind = kind /\ req'[w].lote = l
  BY <1>2
<1>4. kind \in GroupKinds => kind \in {"pause", "resume"} /\ phase = "read"
  BY DEF GroupKinds
<1>5. remate \in {"LIVE", "PAUSED"} => UnderWay
  BY DEF UnderWay
<1>6. seen'[w].at <= now
  BY <1>1, <1>2
<1> QED BY <1>1, <1>2, <1>3, <1>4, <1>5, <1>6, WorkerReads

LEMMA ArriveInv == ASSUME Inv, NEW w \in Workers, Arrive(w) PROVE Inv'
<1>1. CASE AskRow(w)
  <2>1. PICK l \in Lotes, kind \in RowKinds : Begin(w, kind, l, "waiting", {l})
    BY <1>1 DEF AskRow
  <2>2. kind \in Kinds /\ kind \notin {"pause", "finish", "resume", "create"}
    BY DEF Kinds, RowKinds
  <2> QED BY ZenonT(60), <2>1, <2>2, WorkerBegins
<1>2. CASE AskCreate(w)
  <2>1. PICK l \in Having("NONE") : /\ \A v \in Workers : req[v] # [kind |-> "create", lote |-> l]
                                    /\ Begin(w, "create", l, "locked", {})
    BY <1>2 DEF AskCreate
  <2>2. l \in Lotes /\ lote[l].status = "NONE" /\ "create" \in Kinds
    BY DEF Having, Kinds, FreeKinds
  <2> QED BY <2>1, <2>2, WorkerBegins
<1>3. CASE AskStatus(w)
  <2>1. PICK kind \in GroupKinds \cup {"finish", "cancel"} :
            /\ <<remate, Target(kind)>> \in RemateMoves
            /\ Begin(w, kind, NoLote, IF kind = "cancel" THEN "locked" ELSE "read", {})
    BY <1>3 DEF AskStatus
  <2>2. kind \in Kinds /\ kind \in {"pause", "resume", "finish", "cancel"}
    BY DEF Kinds, GroupKinds, FreeKinds
  <2>3. /\ kind \in {"pause", "finish"} => remate = "LIVE"
        /\ kind = "resume" => remate \in {"SCHEDULED", "PAUSED"}
    BY <2>1, <2>2 DEF RemateMoves, Target
  <2>4. kind \notin RowKinds \cup {"create"}
    BY <2>2 DEF RowKinds
  <2> DEFINE phase == IF kind = "cancel" THEN "locked" ELSE "read"
  <2>5. phase \in {"read", "locked"} /\ (kind # "cancel" => phase = "read") /\ Begin(w, kind, NoLote, phase, {})
    BY <2>1
  <2> HIDE DEF phase
  <2>6. /\ phase \in {"read", "waiting", "locked"} /\ phase # "waiting" /\ {} \in SUBSET Lotes
        /\ kind \in Kinds /\ kind # "create" /\ kind \notin RowKinds
        /\ kind \in {"pause", "finish"} => remate = "LIVE" /\ phase = "read"
        /\ kind = "resume" => remate \in {"SCHEDULED", "PAUSED"} /\ phase = "read"
    BY <2>2, <2>3, <2>4, <2>5
  <2>7. NoLote \in Lotes \cup {NoLote}
    OBVIOUS
  <2> QED BY <2>5, <2>6, <2>7, WorkerBegins
<1> QED BY <1>1, <1>2, <1>3 DEF Arrive

LEMMA ListOpenInv == ASSUME Inv, NEW w \in Workers, ListOpen(w) PROVE Inv'
<1> DEFINE s == [seen[w] EXCEPT !.todo = Having("OPEN")]
<1>1. w \in Procs /\ TypeOK /\ req[w].kind \in GroupKinds /\ pc[w] = "read" /\ now \in Nat
      /\ seen[w] \in Reading
  BY Constants DEF Inv, ListOpen, TypeOK
<1>2. s \in Reading /\ s.remate = seen[w].remate /\ s.rows = seen[w].rows /\ s.todo = Having("OPEN") /\ s.at = seen[w].at
  BY <1>1 DEF Reading, Having
<1>3. seen' = [seen EXCEPT ![w] = s] /\ UNCHANGED <<plan, now, rows, remateLock, lock, req>>
      /\ pc' = [pc EXCEPT ![w] = IF HasOpenLote THEN "waiting" ELSE "locked"]
  BY DEF ListOpen
<1> HIDE DEF s
<1>4. /\ pc' \in [Procs -> {"idle", "read", "waiting", "locked"}]
      /\ req' \in [Procs -> Request] /\ seen' \in [Procs -> Reading] /\ lock' \in [Lotes -> Procs \cup {NoProc}]
      /\ \A q \in Procs \ {w} : pc'[q] = pc[q] /\ req'[q] = req[q] /\ seen'[q] = seen[q]
      /\ seen'[w] = s /\ req'[w] = req[w] /\ pc'[w] \in {"waiting", "locked"}
      /\ (pc'[w] = "locked" => Having("OPEN") = {})
  BY <1>1, <1>2, <1>3 DEF TypeOK, HasOpenLote
<1>5. req[w].kind \notin RowKinds \cup {"create", "finish"}
  BY <1>1 DEF GroupKinds, RowKinds
<1>6. /\ req[w].kind = "pause" => seen[w].remate = "LIVE"
      /\ req[w].kind = "resume" => seen[w].remate \in {"SCHEDULED", "PAUSED"}
      /\ \A k \in Lotes : seen[w].rows[k].status # "NONE" => lock[k] = w /\ seen[w].rows[k] = lote[k]
      /\ seen[w].remate # "SCHEDULED" => remate # "SCHEDULED"
      /\ seen[w].at <= now
      /\ seen[w].remate \in {"LIVE", "PAUSED"} => UnderWay
  BY <1>1 DEF Inv, RequestInv, HeldInv, PastInv, UnderWay
<1> QED BY <1>1, <1>2, <1>3, <1>4, <1>5, <1>6, WorkerReads

LEMMA CheckOpenInv == ASSUME Inv, NEW w \in Workers, CheckOpen(w) PROVE Inv'
<1>1. w \in Procs /\ TypeOK /\ req[w].kind = "finish" /\ pc[w] = "read" /\ UNCHANGED <<plan, now, rows>>
  BY Constants DEF Inv, CheckOpen, Serving
<1>2. CASE HasOpenLote
  BY <1>1, <1>2, DoneInv DEF CheckOpen
<1>3. CASE ~HasOpenLote
  <2>1. pc' = [pc EXCEPT ![w] = "locked"] /\ UNCHANGED <<remateLock, lock, req, seen>> /\ Having("OPEN") = {}
    BY <1>3 DEF CheckOpen, HasOpenLote
  <2>2. /\ pc' \in [Procs -> {"idle", "read", "waiting", "locked"}]
        /\ req' \in [Procs -> Request] /\ seen' \in [Procs -> Reading] /\ lock' \in [Lotes -> Procs \cup {NoProc}]
        /\ \A q \in Procs \ {w} : pc'[q] = pc[q] /\ req'[q] = req[q] /\ seen'[q] = seen[q]
        /\ pc'[w] = "locked" /\ seen'[w] = seen[w] /\ req'[w] = req[w]
    BY <1>1, <2>1 DEF TypeOK
  <2>3. "finish" \notin RowKinds \cup GroupKinds \cup {"create"}
    BY DEF GroupKinds, RowKinds
  <2>4. /\ seen[w].remate = "LIVE"
        /\ \A k \in Lotes : seen[w].rows[k].status # "NONE" => lock[k] = w /\ seen[w].rows[k] = lote[k]
        /\ seen[w].remate # "SCHEDULED" => remate # "SCHEDULED"
        /\ seen[w].at <= now /\ UnderWay
    BY <1>1 DEF Inv, RequestInv, HeldInv, PastInv, UnderWay
  <2> QED BY <1>1, <2>1, <2>2, <2>3, <2>4, WorkerReads
<1> QED BY <1>2, <1>3

\* A row that is read once its lock is granted.
LEMMA RowRead ==
    ASSUME TypeOK, NEW p \in Procs, NEW l \in Lotes
    PROVE  /\ ReadRow(p, l) \in Reading /\ ReadRow(p, l).remate = seen[p].remate
           /\ ReadRow(p, l).todo = seen[p].todo \ {l} /\ ReadRow(p, l).at = now
           /\ \A k \in Lotes : ReadRow(p, l).rows[k] = IF k = l THEN lote[l] ELSE seen[p].rows[k]
<1> DEFINE f == [seen[p].rows EXCEPT ![l] = lote[l]]
<1>1. seen[p] \in Reading /\ now \in Nat /\ lote[l] \in LoteRow
  BY DEF TypeOK
<1>2. f \in [Lotes -> LoteRow] /\ \A k \in Lotes : f[k] = IF k = l THEN lote[l] ELSE seen[p].rows[k]
  BY <1>1 DEF Reading
<1>3. ReadRow(p, l) = [seen[p] EXCEPT !.rows = f, !.todo = seen[p].todo \ {l}, !.at = now]
  BY DEF ReadRow
<1> HIDE DEF f
<1>4. /\ ReadRow(p, l).rows = f /\ ReadRow(p, l).remate = seen[p].remate
      /\ ReadRow(p, l).todo = seen[p].todo \ {l} /\ ReadRow(p, l).at = now /\ ReadRow(p, l) \in Reading
  BY <1>1, <1>2, <1>3 DEF Reading
<1> QED BY <1>2, <1>4

LEMMA LockRowInv == ASSUME Inv, NEW w \in Workers, LockRow(w) PROVE Inv'
<1>1. w \in Procs /\ TypeOK /\ pc[w] = "waiting" /\ now \in Nat /\ seen[w] \in Reading /\ w # NoProc
      /\ lote \in [Lotes -> LoteRow] /\ UNCHANGED <<plan, now, rows, remateLock, req>>
  BY Constants DEF Inv, LockRow, TypeOK
<1>2. PICK l \in seen[w].todo :
        /\ Hold(w, l)
        /\ pc' = [pc EXCEPT ![w] = IF seen[w].todo = {l} THEN "locked" ELSE "waiting"]
        /\ seen' = [seen EXCEPT ![w] = ReadRow(w, l)]
  BY DEF LockRow
<1>3. l \in Lotes /\ lote[l] \in LoteRow
  BY <1>1 DEF Reading
<1> DEFINE s == ReadRow(w, l)
<1>4. seen' = [seen EXCEPT ![w] = s]
  BY <1>2
<1>5. /\ s \in Reading /\ s.remate = seen[w].remate /\ s.todo = seen[w].todo \ {l} /\ s.at = now
      /\ \A k \in Lotes : s.rows[k] = IF k = l THEN lote[l] ELSE seen[w].rows[k]
  BY <1>1, <1>3, RowRead
<1> HIDE DEF s
<1>6. /\ pc' \in [Procs -> {"idle", "read", "waiting", "locked"}]
      /\ req' \in [Procs -> Request] /\ seen' \in [Procs -> Reading] /\ lock' \in [Lotes -> Procs \cup {NoProc}]
      /\ \A q \in Procs \ {w} : pc'[q] = pc[q] /\ req'[q] = req[q] /\ seen'[q] = seen[q]
      /\ seen'[w] = s /\ req'[w] = req[w] /\ pc'[w] \in {"waiting", "locked"}
      /\ (pc'[w] = "locked" => s.todo = {})
  BY <1>1, <1>2, <1>3, <1>4, <1>5 DEF TypeOK, Hold
<1>7. lock[l] = NoProc /\ lock'[l] = w /\ \A k \in Lotes \ {l} : lock'[k] = lock[k]
  BY <1>2, <1>3, <1>1 DEF Hold, TypeOK
<1>8. /\ req[w].kind \in RowKinds \cup GroupKinds /\ req[w].kind \notin {"create", "finish"}
      /\ req[w].kind = "pause" => seen[w].remate = "LIVE"
      /\ req[w].kind = "resume" => seen[w].remate \in {"SCHEDULED", "PAUSED"}
      /\ req[w].kind \in RowKinds => req[w].lote \in Lotes
      /\ seen[w].remate # "SCHEDULED" => remate # "SCHEDULED"
      /\ seen[w].remate \in {"LIVE", "PAUSED"} => UnderWay
  BY <1>1 DEF Inv, RequestInv, PastInv, UnderWay, RowKinds, GroupKinds
<1>9. \A k \in Lotes : s.rows[k].status # "NONE" => lock'[k] = w /\ s.rows[k] = lote[k]
  BY <1>5, <1>7 DEF Inv, HeldInv
<1>10. \A k \in Having("OPEN") :
           req[w].kind \in GroupKinds /\ seen[w].remate # "SCHEDULED" => k \in s.todo \/ s.rows[k].status = "OPEN"
  <2> SUFFICES ASSUME NEW k \in Having("OPEN"), req[w].kind \in GroupKinds, seen[w].remate # "SCHEDULED"
               PROVE  k \in s.todo \/ s.rows[k].status = "OPEN"
    OBVIOUS
  <2>1. k \in seen[w].todo \/ seen[w].rows[k].status = "OPEN"
    BY <1>1 DEF Inv, CoverInv
  <2>2. k \in Lotes /\ lote[k].status = "OPEN"
    BY DEF Having
  <2> QED BY <1>5, <2>1, <2>2
<1>11. \A k \in Lotes : lock[k] # NoProc => lock'[k] = lock[k]
  BY <1>7
<1>12. pc'[w] # "idle" /\ s.at <= now
  BY <1>1, <1>5, <1>6
<1> QED BY <1>1, <1>5, <1>6, <1>8, <1>9, <1>10, <1>11, <1>12, WorkerReads

LEMMA ServeInv == ASSUME Inv, NEW w \in Workers, Serve(w) PROVE Inv'
<1>1. CASE Refuse(w)
  BY <1>1, DoneInv, Constants DEF Refuse
<1> QED BY <1>1, ListOpenInv, CheckOpenInv, LockRowInv, AcceptBidInv, CancelLoteInv, EditLoteInv, DeleteLoteInv, CreateLoteInv,
           ChangeAllInv, ChangeStatusInv DEF Serve

LEMMA ExpireInv == ASSUME Inv, Expire PROVE Inv'
<1>1. Expiry \in Procs /\ Expiry # Lifecycle /\ TypeOK /\ now \in Nat /\ Expiry # NoProc
  BY Constants DEF Inv, TypeOK
<1>2. CASE ListExpired
  <2> DEFINE overdue == {l \in Lotes : IsExpired(lote[l], now)}
  <2>1. Begin(Expiry, "expire", NoLote, "waiting", overdue) /\ overdue \in SUBSET Lotes
    BY <1>2 DEF ListExpired
  <2> HIDE DEF overdue
  <2>2. /\ pc' \in [Procs -> {"idle", "read", "waiting", "locked"}]
        /\ req' \in [Procs -> Request] /\ seen' \in [Procs -> Reading]
        /\ lock' = lock /\ remateLock' = remateLock /\ UNCHANGED <<plan, now, rows>>
        /\ \A q \in Procs \ {Expiry} : pc'[q] = pc[q] /\ req'[q] = req[q] /\ seen'[q] = seen[q]
        /\ pc'[Expiry] = "waiting" /\ seen'[Expiry].at = 0
    BY <1>1, <2>1, BeginProcs
  <2>3. TaskInv'
    BY <1>1, <2>2, Constants DEF Inv, TaskInv, rows
  <2> QED BY <1>1, <2>2, <2>3, TaskReads DEF TypeOK
<1>3. CASE LockCandidate
  <2>1. PICK l \in seen[Expiry].todo :
          /\ Hold(Expiry, l)
          /\ pc' = [pc EXCEPT ![Expiry] = "locked"]
          /\ req' = [req EXCEPT ![Expiry].lote = l]
          /\ seen' = [seen EXCEPT ![Expiry] = [ReadRow(Expiry, l) EXCEPT !.remate = remate]]
    BY <1>3 DEF LockCandidate
  <2>2. l \in Lotes /\ lote[l] \in LoteRow /\ seen[Expiry] \in Reading /\ remate \in RemateStatus
        /\ UNCHANGED <<plan, now, rows, remateLock>>
    BY <1>1, <1>3 DEF TypeOK, Reading, LockCandidate
  <2> DEFINE r == ReadRow(Expiry, l)
             s == [r EXCEPT !.remate = remate]
  <2>3. seen' = [seen EXCEPT ![Expiry] = s]
    BY <2>1
  <2>4. s \in Reading /\ s.at = now /\ s.rows[l] = lote[l]
    <3>1. r \in Reading /\ r.at = now /\ r.rows[l] = lote[l]
      BY <1>1, <2>2, RowRead
    <3> HIDE DEF r
    <3> QED BY <2>2, <3>1 DEF Reading
  <2> HIDE DEF s, r
  <2>5. req' \in [Procs -> Request] /\ req'[Expiry].lote = l
        /\ \A q \in Procs \ {Expiry} : req'[q] = req[q]
    BY <1>1, <2>1, <2>2 DEF TypeOK, Request
  <2>6. /\ pc' \in [Procs -> {"idle", "read", "waiting", "locked"}]
        /\ seen' \in [Procs -> Reading] /\ lock' \in [Lotes -> Procs \cup {NoProc}]
        /\ \A q \in Procs \ {Expiry} : pc'[q] = pc[q] /\ req'[q] = req[q] /\ seen'[q] = seen[q]
        /\ seen'[Expiry] = s
    BY <1>1, <2>1, <2>3, <2>4, <2>5 DEF TypeOK, Hold
  <2>7. lock'[l] = Expiry /\ \A k \in Lotes : lock[k] # NoProc => lock'[k] = lock[k]
    BY <1>1, <2>1, <2>2 DEF Hold, TypeOK
  <2>8. TaskInv'
    BY <1>1, <2>2, <2>4, <2>5, <2>6, <2>7, Constants DEF Inv, TaskInv, rows
  <2> QED BY <1>1, <2>2, <2>4, <2>5, <2>6, <2>7, <2>8, TaskReads DEF TypeOK
<1>4. CASE CloseByClock
  BY <1>4, CloseByClockInv
<1>5. CASE SkipCandidate /\ seen[Expiry].todo = {}
  BY <1>1, <1>5, DoneInv DEF SkipCandidate
<1>8. CASE FailToClose
  BY <1>1, <1>8, DoneInv DEF FailToClose
<1>6. CASE SkipCandidate /\ seen[Expiry].todo # {}
  <2>1. pc' = [pc EXCEPT ![Expiry] = "waiting"] /\ UNCHANGED <<remateLock, lock, req, seen>>
        /\ UNCHANGED <<plan, now, rows>>
    BY <1>6 DEF SkipCandidate
  <2>2. TaskInv'
    BY <1>1, <2>1, Constants DEF Inv, TaskInv, rows, TypeOK
  <2> QED BY <1>1, <2>1, <2>2, Constants, TaskReads DEF TypeOK, Inv, PastInv
<1> QED BY <1>2, <1>3, <1>4, <1>5, <1>6, <1>8 DEF Expire

LEMMA ConductInv == ASSUME Inv, Conduct PROVE Inv'
<1>1. Lifecycle \in Procs /\ Expiry # Lifecycle /\ TypeOK /\ now \in Nat
  BY Constants DEF Inv, TypeOK
<1>2. CASE ListDue
  <2>1. PICK kind \in {"start", "end"} : Begin(Lifecycle, kind, NoLote, "waiting", {})
    BY <1>2 DEF ListDue
  <2>2. /\ pc' \in [Procs -> {"idle", "read", "waiting", "locked"}]
        /\ req' \in [Procs -> Request] /\ seen' \in [Procs -> Reading]
        /\ lock' = lock /\ remateLock' = remateLock /\ UNCHANGED <<plan, now, rows>>
        /\ \A q \in Procs \ {Lifecycle} : pc'[q] = pc[q] /\ req'[q] = req[q] /\ seen'[q] = seen[q]
        /\ pc'[Lifecycle] = "waiting" /\ seen'[Lifecycle].at = 0
    <3>1. kind \in Kinds \cup {"expire", "start", "end"} /\ NoLote \in Lotes \cup {NoLote} /\ {} \in SUBSET Lotes
      OBVIOUS
    <3> QED BY <1>1, <2>1, <3>1, BeginProcs
  <2>3. TaskInv'
    BY <1>1, <2>2, Constants DEF Inv, TaskInv, rows
  <2> QED BY <1>1, <2>2, <2>3, TaskReads DEF TypeOK
<1>3. CASE LockRemate
  <2> DEFINE s == [seen[Lifecycle] EXCEPT !.remate = remate, !.rows = lote, !.at = now]
  <2>1. /\ seen' = [seen EXCEPT ![Lifecycle] = s] /\ pc' = [pc EXCEPT ![Lifecycle] = "locked"]
        /\ remateLock' = Lifecycle /\ UNCHANGED <<plan, now, rows, lock, req>>
    BY <1>3 DEF LockRemate, HoldRemate
  <2>2. s \in Reading /\ s.at = now /\ s.remate = remate /\ s.rows = lote
    BY <1>1 DEF TypeOK, Reading
  <2> HIDE DEF s
  <2>3. /\ pc' \in [Procs -> {"idle", "read", "waiting", "locked"}]
        /\ req' \in [Procs -> Request] /\ seen' \in [Procs -> Reading]
        /\ \A q \in Procs \ {Lifecycle} : pc'[q] = pc[q] /\ req'[q] = req[q] /\ seen'[q] = seen[q]
        /\ seen'[Lifecycle] = s
    BY <1>1, <2>1, <2>2 DEF TypeOK
  <2>4. TaskInv'
    BY <1>1, <2>1, <2>2, <2>3, Constants DEF Inv, TaskInv, rows
  <2> QED BY <1>1, <2>1, <2>2, <2>3, <2>4, TaskReads DEF TypeOK
<1>4. CASE NotYet
  BY <1>1, <1>4, DoneInv DEF NotYet
<1> QED BY <1>2, <1>3, <1>4, AutoStartInv, AutoFinishInv DEF Conduct

LEMMA TickInv == ASSUME Inv, Tick PROVE Inv'
<1>1. /\ UNCHANGED <<plan, remate, lote, late, adrift, remateLock, lock, pc, req, seen>>
      /\ now' = now + 1 /\ now \in Nat
  BY DEF Tick, rows, procs, Inv, TypeOK
<1>2. TypeOK' /\ RequestInv' /\ HeldInv' /\ CreateInv' /\ TaskInv'
  BY <1>1 DEF Inv, TypeOK, RequestInv, HeldInv, CreateInv, TaskInv
<1>3. PastInv'
  <2>1. \A p \in Procs : seen[p].at \in Nat /\ seen[p].at <= now
    BY DEF Inv, TypeOK, Reading, PastInv
  <2> QED BY <1>1, <2>1 DEF Inv, PastInv
<1>4. CoverInv' /\ RowsInv' /\ StatusInv'
  BY <1>1 DEF Inv, CoverInv, RowsInv, StatusInv, ClockFollowsTheRemate, UnderWay, Having
<1> QED BY <1>2, <1>3, <1>4 DEF Inv

LEMMA StutterInv == ASSUME Inv, UNCHANGED vars PROVE Inv'
<1>1. UNCHANGED <<plan, now, remate, lote, late, adrift, remateLock, lock, pc, req, seen>>
  BY DEF vars, rows, procs
<1> QED BY <1>1 DEF Inv, TypeOK, RequestInv, HeldInv, CreateInv, TaskInv, PastInv, CoverInv, RowsInv, StatusInv,
                    ClockFollowsTheRemate, UnderWay, Having

LEMMA StepInv == Inv /\ [Next]_vars => Inv'
<1> SUFFICES ASSUME Inv, [Next]_vars PROVE Inv'
  OBVIOUS
<1>1. CASE \E p \in Procs : Abort(p)
  BY <1>1, DoneInv DEF Abort
<1> QED BY <1>1, ArriveInv, ServeInv, ExpireInv, ConductInv, TickInv, StutterInv DEF Next, Quiet

LEMMA Invariance == Spec => []Inv
BY InitInv, StepInv, PTL DEF Spec

------------------------------------------------------------------------------
(* The theorems.                                                            *)

\* Every variable has its type in every reachable state.
THEOREM TimedTypeCorrect == Spec => []TypeOK
<1>1. Inv => TypeOK
  BY DEF Inv
<1> QED BY <1>1, Invariance, PTL

\* remates/service.py, pause and resume: however many requests overlap with both tasks, no
\* countdown runs in a pause and every OPEN lote of a LIVE remate has one, unless a resume
\* has committed that had read SCHEDULED.
THEOREM TimedClockFollowsTheRemate == Spec => []ClockFollowsTheRemate
<1>1. Inv => ClockFollowsTheRemate
  BY DEF Inv, StatusInv
<1> QED BY <1>1, Invariance, PTL

\* timed_scheduler.py: the lotes that a remate under way has PENDING are those whose
\* creation committed late.
THEOREM TimedNothingStaysPending == Spec => []NothingStaysPending
<1>1. Inv => NothingStaysPending
  BY DEF Inv, StatusInv, UnderWay, NothingStaysPending
<1> QED BY <1>1, Invariance, PTL

\* ADR-004, ADR-043: the outcome of a closed lote is that of the bids that were accepted.
THEOREM TimedAdjudicatedAsBid == Spec => []AdjudicatedAsBid
<1>1. Inv => AdjudicatedAsBid
  BY DEF Inv, RowsInv, RowOK, AdjudicatedAsBid
<1> QED BY <1>1, Invariance, PTL

\* docs/16: no lote is left OPEN by a remate that finishes, by hand or by itself, nor opened
\* afterwards.
THEOREM TimedFinishedHasNoOpenLote == Spec => []FinishedHasNoOpenLote
<1>1. Inv => FinishedHasNoOpenLote
  BY DEF Inv, StatusInv, HasOpenLote, FinishedHasNoOpenLote
<1> QED BY <1>1, Invariance, PTL

\* A request changes its own phase only.
LEMMA WorkerKeeps ==
    ASSUME Inv, NEW w \in Workers, Arrive(w) \/ Serve(w)
    PROVE  \A q \in Procs \ {w} : pc'[q] = pc[q]
<1>1. pc \in [Procs -> {"idle", "read", "waiting", "locked"}] /\ w \in Procs
  BY Constants DEF Inv, TypeOK
<1>2. Done(w) \/ \E phase \in {"idle", "read", "waiting", "locked"} : pc' = [pc EXCEPT ![w] = phase]
  <2>1. CASE Arrive(w)
    BY <2>1 DEF Arrive, AskRow, AskCreate, AskStatus, Begin
  <2>2. CASE ListOpen(w) \/ CheckOpen(w) \/ LockRow(w)
    BY <2>2 DEF ListOpen, CheckOpen, LockRow
  <2>3. CASE AcceptBid(w) \/ CancelLote(w) \/ EditLote(w) \/ DeleteLote(w) \/ CreateLote(w) \/ Refuse(w) \/ ChangeAll(w) \/ ChangeStatus(w)
    BY <2>3 DEF AcceptBid, CancelLote, EditLote, DeleteLote, CreateLote, Refuse, ChangeAll, ChangeStatus
  <2> QED BY <2>1, <2>2, <2>3 DEF Serve
<1> QED BY <1>1, <1>2 DEF Done

\* The steps of the lifecycle task that change the remate, and the step of the expiry task
\* that changes a lote.
LEMMA TaskCommits ==
    ASSUME Inv, [Next]_vars
    PROVE  /\ pc[Lifecycle] = "locked" /\ pc'[Lifecycle] = "idle" /\ remate' # remate => AutoStart \/ AutoFinish
           /\ pc[Expiry] = "locked" /\ pc'[Expiry] # "locked" /\ lote' # lote => CloseByClock
<1>1. Expiry \in Procs /\ Lifecycle \in Procs /\ Expiry # Lifecycle /\ TypeOK
      /\ \A w \in Workers : Expiry \in Procs \ {w} /\ Lifecycle \in Procs \ {w}
  BY Constants DEF Inv
<1>2. CASE UNCHANGED vars
  BY <1>2 DEF vars, rows, procs
<1>3. CASE \E w \in Workers : Arrive(w) \/ Serve(w)
  <2>1. pc'[Expiry] = pc[Expiry] /\ pc'[Lifecycle] = pc[Lifecycle]
    BY <1>1, <1>3, WorkerKeeps
  <2> QED BY <2>1
<1>4. CASE Tick \/ \E p \in Procs : Abort(p)
  BY <1>4 DEF Tick, Abort, rows
<1>5. CASE Expire
  <2>1. CASE CloseByClock
    BY <2>1 DEF CloseByClock
  <2>2. CASE ListExpired \/ LockCandidate \/ FailToClose \/ SkipCandidate
    BY <2>2 DEF ListExpired, LockCandidate, FailToClose, SkipCandidate, Begin, rows
  <2> QED BY <1>5, <2>1, <2>2 DEF Expire
<1>6. CASE Conduct
  <2>1. CASE AutoStart
    <3>1. pc'[Expiry] = pc[Expiry]
      BY ZenonT(60), <1>1, <2>1, DoneProcs DEF AutoStart
    <3> QED BY <2>1, <3>1
  <2>2. CASE AutoFinish
    BY <2>2 DEF AutoFinish
  <2>3. CASE ListDue \/ LockRemate \/ NotYet
    BY <2>3 DEF ListDue, LockRemate, NotYet, Begin, rows
  <2> QED BY <1>6, <2>1, <2>2, <2>3 DEF Conduct
<1> QED BY <1>2, <1>3, <1>4, <1>5, <1>6 DEF Next, Quiet

\* timer/scheduler.py, timer/timed_scheduler.py: both tasks act on the remate and the lotes
\* as they are when they commit, although no manual action locks the remate.
THEOREM TimedAutomaticStepsAreCurrent == Spec => AutomaticStepsAreCurrent
<1> DEFINE Current ==
             /\ Serving(Lifecycle, "start", "locked") /\ pc'[Lifecycle] = "idle" /\ remate' # remate =>
                   remate = "SCHEDULED" /\ \A l \in Lotes : lote'[l].status # "PENDING"
             /\ Serving(Lifecycle, "end", "locked") /\ pc'[Lifecycle] = "idle" /\ remate' # remate =>
                   remate = "LIVE" /\ ~HasOpenLote
             /\ \A l \in Lotes :
                   Serving(Expiry, "expire", "locked") /\ pc'[Expiry] # "locked" /\ lote'[l] # lote[l] =>
                       remate # "PAUSED" /\ IsExpired(lote[l], now)
<1>1. Inv /\ [Next]_vars => Current
  <2> SUFFICES ASSUME Inv, [Next]_vars PROVE Current
    OBVIOUS
  <2>1. ASSUME Serving(Lifecycle, "start", "locked"), pc'[Lifecycle] = "idle", remate' # remate
        PROVE  remate = "SCHEDULED" /\ \A l \in Lotes : lote'[l].status # "PENDING"
    <3>1. pc[Lifecycle] = "locked" /\ AutoStart
      BY <2>1, TaskCommits DEF Serving, AutoFinish, Ready
    <3>2. remate = "SCHEDULED" /\ Known("PENDING") = Having("PENDING") /\ lote \in [Lotes -> LoteRow]
      BY <3>1, LifecycleKnows DEF AutoStart, CanStart, Inv, TypeOK
    <3>3. lote' = [l \in Lotes |-> IF l \in Known("PENDING")
                     THEN [lote[l] EXCEPT !.status = "OPEN", !.ends = EndsAt, !.paused = NULL] ELSE lote[l]]
      BY <3>1 DEF AutoStart
    <3>4. \A l \in Lotes : lote'[l].status # "PENDING"
      BY <3>2, <3>3 DEF Having, LoteRow
    <3> QED BY <3>2, <3>4
  <2>2. ASSUME Serving(Lifecycle, "end", "locked"), pc'[Lifecycle] = "idle", remate' # remate
        PROVE  remate = "LIVE" /\ ~HasOpenLote
    <3>1. pc[Lifecycle] = "locked" /\ AutoFinish
      BY <2>2, TaskCommits DEF Serving, AutoStart, Ready
    <3> QED BY <3>1, LifecycleKnows DEF AutoFinish, CanFinish, HasOpenLote
  <2>3. ASSUME NEW l \in Lotes, Serving(Expiry, "expire", "locked"), pc'[Expiry] # "locked", lote'[l] # lote[l]
        PROVE  remate # "PAUSED" /\ IsExpired(lote[l], now)
    <3>1. pc[Expiry] = "locked" /\ CloseByClock
      BY <2>3, TaskCommits DEF Serving
    <3> DEFINE k == req[Expiry].lote
    <3>2. k \in Lotes /\ lote[k] = seen[Expiry].rows[k] /\ IsExpired(lote[k], seen[Expiry].at)
      BY <3>1 DEF Inv, TaskInv, CloseByClock, CanCloseByClock, IsExpired
    <3>3. l = k
      BY <2>3, <3>1, <3>2 DEF CloseByClock, Write, Inv, TypeOK
    <3>4. seen[Expiry].at \in Nat /\ seen[Expiry].at <= now /\ now \in Nat /\ lote[l] \in LoteRow
      BY Constants DEF Inv, TypeOK, PastInv, Reading
    <3>5. IsExpired(lote[l], now)
      BY <3>2, <3>3, <3>4 DEF IsExpired, LoteRow, NULL
    <3>6. remate # "PAUSED"
      BY <3>5 DEF Inv, StatusInv, ClockFollowsTheRemate, Having, IsExpired
    <3> QED BY <3>5, <3>6
  <2> QED BY <2>1, <2>2, <2>3
<1>2. Inv /\ [Next]_vars => [Current]_vars
  BY <1>1
<1> QED BY <1>2, Invariance, PTL DEF Spec, AutomaticStepsAreCurrent

\* A commit brings a deadline forward only if it is a bid's.
LEMMA RowWrites ==
    ASSUME Inv, [Next]_vars, NEW l \in Lotes, lote[l].ends # NULL, lote'[l].ends # NULL, lote'[l].ends # lote[l].ends
    PROVE  \E w \in Workers : AcceptBid(w)
<1>1. lote \in [Lotes -> LoteRow] /\ RowOK(lote[l])
  BY DEF Inv, TypeOK, RowsInv
<1>2. ASSUME NEW w \in Workers, ChangeAll(w) PROVE FALSE
  <2>1. l \in Listed(w)
    BY <1>2 DEF ChangeAll
  <2>2. lote'[l] = Frozen(lote[l], seen[w].at) \/ lote'[l] = Unfrozen(lote[l], seen[w].at)
    BY <1>2, <2>1, ListedRows
  <2>3. Frozen(lote[l], seen[w].at).ends = NULL /\ Unfrozen(lote[l], seen[w].at) = lote[l]
    BY <1>1 DEF Frozen, Unfrozen, RowOK, LoteRow
  <2> QED BY <2>2, <2>3
<1>3. ASSUME NEW w \in Workers, CancelLote(w) PROVE FALSE
  <2>1. req[w].lote \in Lotes /\ seen[w].rows[req[w].lote].status # "NONE"
    BY <1>3 DEF Inv, CancelLote, Ready, Serving, RequestInv, RowKinds, CanCancelLote, LoteMoves
  <2>2. lote' = [lote EXCEPT ![req[w].lote] = [lote[req[w].lote] EXCEPT !.status = "CANCELLED"]]
    BY <1>3, <2>1, HeldRow DEF CancelLote, Write
  <2> QED BY <1>1, <2>1, <2>2 DEF LoteRow
<1>11. ASSUME NEW w \in Workers, EditLote(w) PROVE FALSE
  <2>1. req[w].lote \in Lotes /\ seen[w].rows[req[w].lote].status # "NONE"
    BY <1>11 DEF Inv, EditLote, Ready, Serving, RequestInv, RowKinds
  <2>2. PICK dear \in BOOLEAN :
          lote' = [lote EXCEPT ![req[w].lote] = [lote[req[w].lote] EXCEPT !.dear = dear]]
    <3>1. seen[w].rows[req[w].lote] = lote[req[w].lote] /\ lote[req[w].lote].led \in BOOLEAN
      BY <2>1, HeldRow DEF LoteRow
    <3> QED BY <1>11, <3>1 DEF EditLote, Write
  <2> QED BY <1>1, <2>1, <2>2 DEF LoteRow
<1>4. ASSUME NEW w \in Workers, DeleteLote(w) \/ CreateLote(w) PROVE FALSE
  <2>1. \E row \in {NoRow, NewRow} : lote' = [lote EXCEPT ![req[w].lote] = row]
    BY <1>4 DEF DeleteLote, CreateLote, Write
  <2>2. NoRow.ends = NULL /\ NewRow.ends = NULL
    BY DEF NoRow, NewRow
  <2> QED BY <1>1, <2>1, <2>2
<1>5. ASSUME CloseByClock PROVE FALSE
  <2> DEFINE row == [seen[Expiry].rows[req[Expiry].lote] EXCEPT
                        !.status = IF seen[Expiry].rows[req[Expiry].lote].led THEN "CLOSED_SOLD" ELSE "CLOSED_UNSOLD",
                        !.ends = NULL, !.paused = NULL]
  <2>1. lote' = [lote EXCEPT ![req[Expiry].lote] = row]
    BY <1>5 DEF CloseByClock, Write
  <2>2. seen[Expiry].rows[req[Expiry].lote] \in LoteRow
    BY <1>5, Constants DEF Inv, TypeOK, Reading, TaskInv, CloseByClock, Ready, Serving
  <2>3. row.ends = NULL
    BY <2>2 DEF LoteRow
  <2> HIDE DEF row
  <2> QED BY <1>1, <2>1, <2>3
<1>6. ASSUME AutoStart PROVE FALSE
  <2>1. pc[Lifecycle] = "locked" /\ Known("PENDING") = Having("PENDING")
    BY <1>6, LifecycleKnows DEF AutoStart, Ready, Serving
  <2>2. lote[l].status # "PENDING"
    BY <1>1 DEF RowOK
  <2> QED BY <1>6, <2>1, <2>2 DEF AutoStart, Having
<1>7. CASE UNCHANGED lote
  BY <1>7
<1> HIDE DEF NULL
<1>8. CASE \E w \in Workers : Arrive(w) \/ ListOpen(w) \/ CheckOpen(w) \/ LockRow(w) \/ Refuse(w) \/ ChangeStatus(w)
  <2>1. UNCHANGED lote
    BY <1>8 DEF Arrive, AskRow, AskCreate, AskStatus, Begin, ListOpen, CheckOpen, LockRow, Refuse, ChangeStatus, rows
  <2> QED BY <2>1, <1>7
<1>9. CASE ListExpired \/ LockCandidate \/ FailToClose \/ SkipCandidate \/ ListDue \/ LockRemate \/ AutoFinish \/ NotYet \/ Tick
           \/ UNCHANGED vars \/ \E p \in Procs : Abort(p)
  <2>1. UNCHANGED lote
    BY <1>9 DEF ListExpired, LockCandidate, FailToClose, SkipCandidate, ListDue, LockRemate, AutoFinish, NotYet, Tick, Begin,
                Abort, vars, rows
  <2> QED BY <2>1, <1>7
<1>10. CASE \E w \in Workers : AcceptBid(w)
  BY <1>10
<1> QED BY <1>2, <1>3, <1>4, <1>5, <1>6, <1>8, <1>9, <1>10, <1>11 DEF Next, Quiet, Serve, Expire, Conduct

\* ADR-043: whatever overlaps, a deadline is brought forward only by a bid, and only in a
\* remate whose extension is shorter than its window.
THEOREM TimedOnlyAShortExtensionHurries == Spec => OnlyAShortExtensionHurries
<1> DEFINE Hurries(l) == lote[l].ends # NULL /\ lote'[l].ends # NULL /\ lote'[l].ends < lote[l].ends
           Short == \A l \in Lotes : Hurries(l) => plan.duration < plan.window
<1>1. Inv /\ [Next]_vars => Short
  <2> SUFFICES ASSUME Inv, [Next]_vars, NEW l \in Lotes, Hurries(l)
               PROVE  plan.duration < plan.window
    OBVIOUS
  <2>1. lote[l] \in LoteRow /\ plan \in Plan /\ lote \in [Lotes -> LoteRow]
    BY DEF Inv, TypeOK
  <2>2. lote'[l].ends # lote[l].ends
    BY <2>1 DEF LoteRow, NULL
  <2>3. PICK w \in Workers : AcceptBid(w)
    BY <2>2, RowWrites
  <2> DEFINE k == req[w].lote
             e == Extended(lote[k], seen[w].at)
  <2>4. k \in Lotes /\ \E dear \in {FALSE, lote[k].dear} :
                        lote' = [lote EXCEPT ![k] = [e EXCEPT !.led = TRUE, !.dear = dear]]
    BY <2>3, BidRow DEF BidOn
  <2>5. l = k /\ lote[k] \in LoteRow
    BY <2>1, <2>2, <2>4
  <2>6. seen[w].at \in Nat
    BY Constants DEF Inv, TypeOK, Reading
  <2>7. e = (IF plan.window # 0 /\ lote[k].ends # NULL /\ lote[k].ends - seen[w].at <= plan.window
             THEN [lote[k] EXCEPT !.ends = seen[w].at + plan.duration] ELSE lote[k])
    BY DEF Extended
  <2>8. e \in [status : LoteStatus \cup {"NONE"}, ends : Int, paused : Nat \cup {NULL},
               led : BOOLEAN, dear : BOOLEAN]
        /\ e.ends = IF plan.window # 0 /\ lote[k].ends # NULL /\ lote[k].ends - seen[w].at <= plan.window
                    THEN seen[w].at + plan.duration ELSE lote[k].ends
    BY <2>1, <2>5, <2>6, <2>7 DEF LoteRow, Plan, NULL
  <2> HIDE DEF e, k
  <2>9. lote'[l].ends = e.ends
    BY <2>1, <2>4, <2>5, <2>8
  <2> QED BY <2>1, <2>5, <2>6, <2>8, <2>9 DEF LoteRow, Plan, NULL
<1>2. Inv /\ [Next]_vars => [Short]_vars
  BY <1>1
<1> QED BY <1>2, Invariance, PTL DEF Spec, OnlyAShortExtensionHurries
==============================================================================
