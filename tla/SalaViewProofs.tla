---------------------------- MODULE SalaViewProofs ----------------------------
(***************************************************************************)
(* Theorems about what the page of Sala shows, for every set of lotes and  *)
(* every plan: a page that missed nothing shows what the server has.       *)
(*                                                                         *)
(* The argument replays no history.  Each part of the state (the status,   *)
(* a lote, its countdown, the leader) is what the last event about it      *)
(* says; so a copy taken at commit k is right about a part unless an event *)
(* about it, later than k, is still on its way -- as long as none of the   *)
(* events after k was lost.                                                *)
(***************************************************************************)
EXTENDS SalaProofs, SequenceTheorems

------------------------------------------------------------------------------
(* Events on their way to the page.                                         *)

Elements(s) == {s[i] : i \in DOMAIN s}
Transit == {e \in (UNION {Elements(q) : q \in outbox}) \cup Elements(chan) : e.type # "snapshot"}

\* No event between k and the last commit was lost.
Covered(k) == \A j \in (k + 1)..ver : \E e \in Transit : e.v = j

\* An event of these types, later than k, about lote l or about any.
Later(k, types, l) == \E f \in Transit : f.v > k /\ f.type \in types /\ f.lote = l
LaterAny(k, types) == \E f \in Transit : f.v > k /\ f.type \in types

\* The events that say something of a part of the state.
Remate   == {"remate"}
Opens    == {"lote.opened"}
Ends     == {"lote.closed", "lote.cancelled"}
Statuses == Opens \cup Ends \cup {"lote.requeued"}
Timers   == {"lote.closed", "lote.timer"}
Clocks   == {"lote.opened", "lote.timer"}
Leaders  == {"lote.opened", "oferta.accepted"}

StatusSaid(e) ==
    IF e.type = "lote.closed" THEN e.arg
    ELSE IF e.type = "lote.cancelled" THEN "cancelled"
    ELSE IF e.type = "lote.opened" THEN "open" ELSE "pending"
TimerSaid(e) == IF e.type = "lote.closed" THEN "none" ELSE e.arg

Open(l) == lot[l].status = "open"

\* What the last event about a part says is what the server has.
True(e) == Covered(e.v) =>
    /\ e.type = "remate" /\ ~LaterAny(e.v, Remate) => e.arg = status
    /\ e.type \in Statuses /\ ~Later(e.v, Statuses, e.lote) => lot[e.lote].status = StatusSaid(e)
    /\ e.type \in Timers /\ ~Later(e.v, Timers, e.lote) => lot[e.lote].timer = TimerSaid(e)
    /\ e.type \in Ends /\ Open(e.lote) => Later(e.v, Opens, e.lote)
    /\ e.type = "lote.opened" =>
          /\ Open(e.lote) \/ Later(e.v, Ends, e.lote)
          /\ \A m \in Lotes \ {e.lote} : Open(m) => Later(e.v, Opens, m)
          /\ Later(e.v, Timers, e.lote)
          /\ ~LaterAny(e.v, Leaders) /\ Open(e.lote) /\ round[e.lote] = 1 => Leader(e.lote) = 0
    /\ e.type = "oferta.accepted" /\ ~LaterAny(e.v, Leaders) =>
          \A m \in Lotes : Open(m) => Leader(m) = e.oferta

\* A copy of a part, taken at commit k, is right about it unless something about it is
\* on its way.
StatusOK(s, k) == Covered(k) /\ ~LaterAny(k, Remate) => s = status
LoteOK(d, k) == Covered(k) =>
    /\ d.lote # NoLote /\ ~Later(k, Ends, d.lote) => Open(d.lote)
    /\ \A m \in Lotes : Open(m) =>
          /\ d.lote = m \/ Later(k, Opens, m)
          /\ ~Later(k, Clocks, m) => d.timer = lot[m].timer
RawOK(d, k) == Covered(k) =>
    /\ d.lote # NoLote /\ ~Later(k, Ends, d.lote) => Open(d.lote)
    /\ \A m \in Lotes : Open(m) =>
          /\ d.lote = m \/ Later(k, Opens, m)
          /\ ~Later(k, Clocks, m) => d.timer = lot[m].timer
          /\ ~LaterAny(k, Leaders) => d.winner = Leader(m) \/ round[m] > 1
ListOK(d, k) == Covered(k) => \A l \in Lotes :
    /\ ~Later(k, Statuses, l) => d[l].status = lot[l].status
    /\ ~Later(k, Timers, l) => d[l].timer = lot[l].timer

------------------------------------------------------------------------------
(* The shape of the state.                                                  *)

Statused == RoomStatus \ {"none"}
Sent == {e \in Event : /\ e.type = "remate" => e.arg \in Statused
                       /\ e.type # "remate" => e.lote \in Lotes
                       /\ e.type = "lote.closed" => e.arg \in {"closed_sold", "closed_unsold"}
                       /\ e.type = "lote.timer" => e.arg \in TimerState}
Snapshot == [type : {"snapshot"}, at : Nat, data : View]
RawState == [at : Nat, lote : Lotes \cup {NoLote}, timer : TimerState, winner : Nat]
Catalog  == [Lotes -> [status : ListStatus \ {"absent"}, timer : TimerState]]

ServerShape ==
    /\ status \in Statused /\ lot \in Catalog
    /\ round \in [Lotes -> Nat \ {0}] /\ ver \in Nat
    /\ \E U : ofertas \in Seq(Row(U))
    /\ \A q \in outbox : q \in Seq(Sent) /\ q # <<>>
    /\ chan \in Seq(Sent \cup Snapshot)

\* The number of a commit is the number of one event.
Numbered ==
    /\ \A e, f \in Transit : e.v = f.v => e = f
    /\ \A e \in Transit : e.v \in 1..ver

\* At most one lote is open and each has one leader; what was never on sale has none.
Floor ==
    /\ \A l, m \in Lotes : Open(l) /\ Open(m) => l = m
    /\ \A l \in Lotes : lot[l].status = "pending" /\ round[l] = 1 => Leader(l) = 0
    /\ \A i, j \in DOMAIN ofertas :
          /\ ofertas[i].status = "accepted" /\ ofertas[j].status = "accepted"
          /\ ofertas[i].lote = ofertas[j].lote
          => i = j

ServerInv == ServerShape /\ Numbered /\ Floor /\ \A e \in Transit : True(e)

------------------------------------------------------------------------------
(* Lemmas about events on their way.                                        *)

LEMMA TransitType == ASSUME ServerShape PROVE Transit \subseteq Sent
<1>1. ASSUME NEW q \in outbox PROVE Elements(q) \subseteq Sent
  BY <1>1 DEF ServerShape, Elements
<1>2. Elements(chan) \subseteq Sent \cup Snapshot
  BY DEF ServerShape, Elements
<1>3. \A e \in Snapshot : e.type = "snapshot"
  BY DEF Snapshot
<1> QED  BY <1>1, <1>2, <1>3 DEF Transit

\* What is covered later was covered before, and what is later than k stays so.
Continues ==
    /\ ver <= ver'
    /\ \A k \in 0..ver : Covered(k)' => Covered(k)
    /\ \A k \in 0..ver : \A types : Covered(k)' /\ LaterAny(k, types) => LaterAny(k, types)'
    /\ \A k \in 0..ver : \A types, l : Covered(k)' /\ Later(k, types, l) => Later(k, types, l)'

\* Events are taken or lost, and nothing is committed.
LEMMA Thinner ==
    ASSUME Numbered, ver \in Nat, UNCHANGED ver, Transit' \subseteq Transit
    PROVE  Continues /\ Numbered'
<1>1. \A k : Covered(k)' => Covered(k)
  BY DEF Covered
<1>2. ASSUME NEW k \in 0..ver, Covered(k)', NEW f \in Transit, f.v > k PROVE f \in Transit'
  <2>1. f.v \in (k + 1)..ver'
    BY <1>2 DEF Numbered
  <2>2. PICK e \in Transit' : e.v = f.v
    BY <1>2, <2>1 DEF Covered
  <2> QED  BY <2>2 DEF Numbered
<1>3. Numbered'
  BY DEF Numbered
<1> QED  BY <1>1, <1>2, <1>3 DEF Continues, Later, LaterAny

\* Every change of a part has an event on its way that tells of it.
Announced == \A k \in 0..ver :
    /\ status' # status => LaterAny(k, Remate)'
    /\ \A l \in Lotes :
          /\ lot'[l].status # lot[l].status => Later(k, Statuses, l)'
          /\ lot'[l].timer # lot[l].timer => Later(k, Timers, l)'
          /\ lot'[l].timer # lot[l].timer /\ Open(l)' => Later(k, Clocks, l)'
          /\ Open(l)' /\ ~Open(l) => Later(k, Opens, l)' /\ LaterAny(k, Leaders)'
          /\ Open(l) /\ ~Open(l)' => Later(k, Ends, l)'
          /\ Leader(l)' # Leader(l) => LaterAny(k, Leaders)'
          /\ round'[l] >= round[l]

LEMMA StatusKept ==
    ASSUME Continues, Announced, NEW s, NEW k \in 0..ver, StatusOK(s, k)
    PROVE  StatusOK(s, k)'
  BY DEF Continues, Announced, StatusOK

LEMMA LoteKept ==
    ASSUME Continues, Announced, ServerShape, NEW d, NEW k \in 0..ver, LoteOK(d, k),
           d.lote \in Lotes \cup {NoLote}
    PROVE  LoteOK(d, k)'
<1> SUFFICES ASSUME Covered(k)' PROVE
        /\ d.lote # NoLote /\ ~Later(k, Ends, d.lote)' => Open(d.lote)'
        /\ \A m \in Lotes : Open(m)' =>
              /\ d.lote = m \/ Later(k, Opens, m)'
              /\ ~Later(k, Clocks, m)' => d.timer = lot'[m].timer
  BY DEF LoteOK
<1>1. Covered(k)
  BY DEF Continues
<1>2. /\ d.lote # NoLote /\ ~Later(k, Ends, d.lote) => Open(d.lote)
      /\ \A m \in Lotes : Open(m) =>
              /\ d.lote = m \/ Later(k, Opens, m)
              /\ ~Later(k, Clocks, m) => d.timer = lot[m].timer
  BY <1>1 DEF LoteOK
<1>3. /\ \A types : LaterAny(k, types) => LaterAny(k, types)'
      /\ \A types, l : Later(k, types, l) => Later(k, types, l)'
  BY DEF Continues
<1>4. \A l \in Lotes :
          /\ lot'[l].timer # lot[l].timer /\ Open(l)' => Later(k, Clocks, l)'
          /\ Open(l)' /\ ~Open(l) => Later(k, Opens, l)'
          /\ Open(l) /\ ~Open(l)' => Later(k, Ends, l)'
  BY DEF Announced
<1>a. \A m \in Lotes : Later(k, Opens, m)' => Later(k, Clocks, m)'
  BY DEF Later, Opens, Clocks
<1>5. d.lote # NoLote /\ ~Later(k, Ends, d.lote)' => Open(d.lote)'
  BY <1>2, <1>3, <1>4
<1>6. ASSUME NEW m \in Lotes, Open(m)'
      PROVE  /\ d.lote = m \/ Later(k, Opens, m)'
             /\ ~Later(k, Clocks, m)' => d.timer = lot'[m].timer
  <2>1. CASE ~Open(m)
    BY <1>4, <1>6, <1>a, <2>1
  <2>2. CASE Open(m)
    <3> QED  BY <1>2, <1>3, <1>4, <1>6, <2>2
  <2> QED  BY <2>1, <2>2
<1> QED  BY <1>5, <1>6

LEMMA RawKept ==
    ASSUME Continues, Announced, ServerShape, NEW d, NEW k \in 0..ver, RawOK(d, k),
           d.lote \in Lotes \cup {NoLote}, round' \in [Lotes -> Nat \ {0}]
    PROVE  RawOK(d, k)'
<1> SUFFICES ASSUME Covered(k)' PROVE
        /\ d.lote # NoLote /\ ~Later(k, Ends, d.lote)' => Open(d.lote)'
        /\ \A m \in Lotes : Open(m)' =>
              /\ d.lote = m \/ Later(k, Opens, m)'
              /\ ~Later(k, Clocks, m)' => d.timer = lot'[m].timer
              /\ ~LaterAny(k, Leaders)' => d.winner = Leader(m)' \/ round'[m] > 1
  BY DEF RawOK
<1>1. Covered(k)
  BY DEF Continues
<1>2. /\ d.lote # NoLote /\ ~Later(k, Ends, d.lote) => Open(d.lote)
      /\ \A m \in Lotes : Open(m) =>
              /\ d.lote = m \/ Later(k, Opens, m)
              /\ ~Later(k, Clocks, m) => d.timer = lot[m].timer
              /\ ~LaterAny(k, Leaders) => d.winner = Leader(m) \/ round[m] > 1
  BY <1>1 DEF RawOK
<1>3. /\ \A types : LaterAny(k, types) => LaterAny(k, types)'
      /\ \A types, l : Later(k, types, l) => Later(k, types, l)'
  BY DEF Continues
<1>4. \A l \in Lotes :
          /\ lot'[l].timer # lot[l].timer /\ Open(l)' => Later(k, Clocks, l)'
          /\ Open(l)' /\ ~Open(l) => Later(k, Opens, l)' /\ LaterAny(k, Leaders)'
          /\ Open(l) /\ ~Open(l)' => Later(k, Ends, l)'
          /\ Leader(l)' # Leader(l) => LaterAny(k, Leaders)'
          /\ round'[l] >= round[l]
  BY DEF Announced
<1>a. \A m \in Lotes : Later(k, Opens, m)' => Later(k, Clocks, m)'
  BY DEF Later, Opens, Clocks
<1>5. d.lote # NoLote /\ ~Later(k, Ends, d.lote)' => Open(d.lote)'
  BY <1>2, <1>3, <1>4
<1>6. ASSUME NEW m \in Lotes, Open(m)'
      PROVE  /\ d.lote = m \/ Later(k, Opens, m)'
             /\ ~Later(k, Clocks, m)' => d.timer = lot'[m].timer
             /\ ~LaterAny(k, Leaders)' => d.winner = Leader(m)' \/ round'[m] > 1
  <2>1. CASE ~Open(m)
    BY <1>4, <1>6, <1>a, <2>1
  <2>2. CASE Open(m)
    <3>1. round[m] > 1 => round'[m] > 1
      BY <1>4 DEF ServerShape
    <3> QED  BY <1>2, <1>3, <1>4, <1>6, <2>2, <3>1
  <2> QED  BY <2>1, <2>2
<1> QED  BY <1>5, <1>6

LEMMA ListKept ==
    ASSUME Continues, Announced, NEW d, NEW k \in 0..ver, ListOK(d, k)
    PROVE  ListOK(d, k)'
<1> SUFFICES ASSUME Covered(k)', NEW l \in Lotes
             PROVE  /\ ~Later(k, Statuses, l)' => d[l].status = lot'[l].status
                    /\ ~Later(k, Timers, l)' => d[l].timer = lot'[l].timer
  BY DEF ListOK
<1>1. /\ ~Later(k, Statuses, l) => d[l].status = lot[l].status
      /\ ~Later(k, Timers, l) => d[l].timer = lot[l].timer
  BY DEF ListOK, Continues
<1>2. \A types : Later(k, types, l) => Later(k, types, l)'
  BY DEF Continues
<1> QED  BY <1>1, <1>2 DEF Announced

LEMMA TrueKept ==
    ASSUME Continues, Announced, ServerShape, NEW e \in Sent, e.v \in 0..ver, True(e),
           round' \in [Lotes -> Nat \ {0}]
    PROVE  True(e)'
<1> DEFINE k == e.v
<1> SUFFICES ASSUME Covered(k)' PROVE
    /\ e.type = "remate" /\ ~LaterAny(k, Remate)' => e.arg = status'
    /\ e.type \in Statuses /\ ~Later(k, Statuses, e.lote)' => lot'[e.lote].status = StatusSaid(e)
    /\ e.type \in Timers /\ ~Later(k, Timers, e.lote)' => lot'[e.lote].timer = TimerSaid(e)
    /\ e.type \in Ends /\ Open(e.lote)' => Later(k, Opens, e.lote)'
    /\ e.type = "lote.opened" =>
          /\ Open(e.lote)' \/ Later(k, Ends, e.lote)'
          /\ \A m \in Lotes \ {e.lote} : Open(m)' => Later(k, Opens, m)'
          /\ Later(k, Timers, e.lote)'
          /\ ~LaterAny(k, Leaders)' /\ Open(e.lote)' /\ round'[e.lote] = 1 => Leader(e.lote)' = 0
    /\ e.type = "oferta.accepted" /\ ~LaterAny(k, Leaders)' =>
          \A m \in Lotes : Open(m)' => Leader(m)' = e.oferta
  BY DEF True, StatusSaid, TimerSaid
<1>1. Covered(k)
  BY DEF Continues
<1>2. /\ e.type = "remate" /\ ~LaterAny(k, Remate) => e.arg = status
      /\ e.type \in Statuses /\ ~Later(k, Statuses, e.lote) => lot[e.lote].status = StatusSaid(e)
      /\ e.type \in Timers /\ ~Later(k, Timers, e.lote) => lot[e.lote].timer = TimerSaid(e)
      /\ e.type \in Ends /\ Open(e.lote) => Later(k, Opens, e.lote)
      /\ e.type = "lote.opened" =>
            /\ Open(e.lote) \/ Later(k, Ends, e.lote)
            /\ \A m \in Lotes \ {e.lote} : Open(m) => Later(k, Opens, m)
            /\ Later(k, Timers, e.lote)
            /\ ~LaterAny(k, Leaders) /\ Open(e.lote) /\ round[e.lote] = 1 => Leader(e.lote) = 0
      /\ e.type = "oferta.accepted" /\ ~LaterAny(k, Leaders) =>
            \A m \in Lotes : Open(m) => Leader(m) = e.oferta
  BY <1>1 DEF True
<1>3. /\ \A types : LaterAny(k, types) => LaterAny(k, types)'
      /\ \A types, l : Later(k, types, l) => Later(k, types, l)'
  BY DEF Continues
<1>4. /\ status' # status => LaterAny(k, Remate)'
      /\ \A l \in Lotes :
          /\ lot'[l].status # lot[l].status => Later(k, Statuses, l)'
          /\ lot'[l].timer # lot[l].timer => Later(k, Timers, l)'
          /\ Open(l)' /\ ~Open(l) => Later(k, Opens, l)' /\ LaterAny(k, Leaders)'
          /\ Open(l) /\ ~Open(l)' => Later(k, Ends, l)'
          /\ Leader(l)' # Leader(l) => LaterAny(k, Leaders)'
          /\ round'[l] >= round[l]
  BY DEF Announced
<1>5. e.type # "remate" => e.lote \in Lotes
  BY DEF Sent
<1> HIDE DEF k
<1>6. e.type = "remate" /\ ~LaterAny(k, Remate)' => e.arg = status'
  BY <1>2, <1>3, <1>4
<1>7. /\ e.type \in Statuses /\ ~Later(k, Statuses, e.lote)' => lot'[e.lote].status = StatusSaid(e)
      /\ e.type \in Timers /\ ~Later(k, Timers, e.lote)' => lot'[e.lote].timer = TimerSaid(e)
      /\ e.type \in Ends /\ Open(e.lote)' => Later(k, Opens, e.lote)'
  BY <1>2, <1>3, <1>4, <1>5 DEF Statuses, Timers, Ends, Opens
<1>8. ASSUME e.type = "lote.opened"
      PROVE  /\ Open(e.lote)' \/ Later(k, Ends, e.lote)'
             /\ \A m \in Lotes \ {e.lote} : Open(m)' => Later(k, Opens, m)'
             /\ Later(k, Timers, e.lote)'
  BY <1>2, <1>3, <1>4, <1>5, <1>8
<1>9. ASSUME e.type = "lote.opened", ~LaterAny(k, Leaders)', Open(e.lote)', round'[e.lote] = 1
      PROVE  Leader(e.lote)' = 0
  <2>1. e.lote \in Lotes
    BY <1>5, <1>9
  <2>2. round[e.lote] \in Nat \ {0}
    BY <2>1 DEF ServerShape
  <2>3. round'[e.lote] >= round[e.lote]
    BY <1>4, <2>1
  <2>4. round[e.lote] = 1
    BY <1>9, <2>2, <2>3
  <2> QED  BY <1>2, <1>3, <1>4, <1>9, <2>1, <2>4
<1>10. ASSUME e.type = "oferta.accepted", ~LaterAny(k, Leaders)', NEW m \in Lotes, Open(m)'
       PROVE  Leader(m)' = e.oferta
  BY <1>2, <1>3, <1>4, <1>10
<1> QED  BY <1>6, <1>7, <1>8, <1>9, <1>10

LEMMA Patched ==
    ASSUME NEW e, NEW d, NEW x
    PROVE  /\ e.type = "remate" => ApplyToView(d, e, x) = [d EXCEPT !.status = e.arg]
           /\ e.type = "lote.opened" => ApplyToView(d, e, x) = Opened(d, e, x)
           /\ e.type \in Ends => ApplyToView(d, e, x) = Ended(d, e)
           /\ e.type = "lote.timer" => ApplyToView(d, e, x) = TimerMoved(d, e)
           /\ e.type = "oferta.accepted" => ApplyToView(d, e, x) = Accepted(d, e)
           /\ e.type = "lote.requeued" => ApplyToView(d, e, x) = d
  BY Zenon DEF ApplyToView, Ends

LEMMA PatchedList ==
    ASSUME NEW e, NEW x
    PROVE  /\ e.type = "lote.opened" => ApplyToLotes(x, e) = PatchLote(x, e.lote, "open", x[e.lote].timer)
           /\ e.type = "lote.closed" => ApplyToLotes(x, e) = PatchLote(x, e.lote, e.arg, "none")
           /\ e.type = "lote.cancelled" => ApplyToLotes(x, e) = PatchLote(x, e.lote, "cancelled", x[e.lote].timer)
           /\ e.type = "lote.requeued" => ApplyToLotes(x, e) = PatchLote(x, e.lote, "pending", x[e.lote].timer)
           /\ e.type = "lote.timer" => ApplyToLotes(x, e) = PatchLote(x, e.lote, x[e.lote].status, e.arg)
           /\ e.type \in {"remate", "oferta.accepted"} => ApplyToLotes(x, e) = x
  BY Zenon DEF ApplyToLotes

------------------------------------------------------------------------------
(* The steps of the server.                                                 *)

LEMMA LeaderIs ==
    ASSUME ServerShape, NEW l
    PROVE  /\ Leader(l) \in Nat
           /\ Leader(l) # 0 <=> \E i \in DOMAIN ofertas :
                                   ofertas[i].lote = l /\ ofertas[i].status = "accepted"
           /\ Leader(l) # 0 => /\ Leader(l) \in DOMAIN ofertas
                               /\ ofertas[Leader(l)].lote = l
                               /\ ofertas[Leader(l)].status = "accepted"
<1> DEFINE S == {i \in DOMAIN ofertas : ofertas[i].lote = l /\ ofertas[i].status = "accepted"}
<1>1. DOMAIN ofertas \subseteq Nat \ {0}
  BY DEF ServerShape
<1>2. S # {} => (CHOOSE i \in S : TRUE) \in S
  OBVIOUS
<1>3. Leader(l) = IF S = {} THEN 0 ELSE CHOOSE i \in S : TRUE
  BY DEF Leader
<1> QED  BY <1>1, <1>2, <1>3

\* Rows that say the same have the same leaders.
LEMMA SameLeaders ==
    ASSUME DOMAIN ofertas \subseteq DOMAIN ofertas',
           \A i \in DOMAIN ofertas : ofertas'[i] = ofertas[i],
           \A i \in DOMAIN ofertas' \ DOMAIN ofertas : ofertas'[i].status # "accepted",
           NEW l
    PROVE  Leader(l)' = Leader(l)
<1> DEFINE S == {i \in DOMAIN ofertas : ofertas[i].lote = l /\ ofertas[i].status = "accepted"}
           T == {i \in DOMAIN ofertas' : ofertas'[i].lote = l /\ ofertas'[i].status = "accepted"}
<1>1. S = T
  OBVIOUS
<1>2. Leader(l) = IF S = {} THEN 0 ELSE CHOOSE i \in S : TRUE
  BY DEF Leader
<1>3. Leader(l)' = IF T = {} THEN 0 ELSE CHOOSE i \in T : TRUE
  BY DEF Leader
<1> HIDE DEF S, T
<1> QED  BY <1>1, <1>2, <1>3

LEMMA Commits ==
    ASSUME ServerInv, NEW events \in Seq(Sent), events # <<>>, Publishes(events), UNCHANGED chan,
           \A i \in DOMAIN events : events[i].v = ver + i
    PROVE  /\ Continues /\ Numbered'
           /\ ver' \in Nat /\ \A q \in outbox' : q \in Seq(Sent) /\ q # <<>>
           /\ Transit' = Transit \cup Elements(events)
           /\ \A e \in Transit' : e \in Sent
           /\ \A e \in Elements(events), k \in 0..ver : \A types : e.type \in types =>
                 LaterAny(k, types)' /\ Later(k, types, e.lote)'
<1>1. /\ ver' = ver + Len(events) /\ outbox' = outbox \cup {events} /\ ver \in Nat
      /\ ver' \in Nat /\ ver <= ver' /\ Len(events) \in Nat /\ DOMAIN events = 1..Len(events)
  BY DEF Publishes, ServerInv, ServerShape
<1>2. \A e \in Elements(events) : e \in Sent /\ e.v \in (ver + 1)..ver' /\ e.type # "snapshot"
  <2>1. SUFFICES ASSUME NEW i \in 1..Len(events)
                 PROVE  events[i] \in Sent /\ events[i].v \in (ver + 1)..ver' /\ events[i].type # "snapshot"
    BY <1>1 DEF Elements
  <2>2. events[i] \in Sent /\ events[i].v = ver + i
    BY <1>1
  <2>3. \A e \in Sent : e.type # "snapshot"
    BY DEF Sent, Event
  <2> QED  BY <1>1, <2>2, <2>3
<1>3. Transit' = Transit \cup Elements(events)
  BY <1>1, <1>2 DEF Transit
<1>4. \A e, f \in Elements(events) : e.v = f.v => e = f
  BY <1>1 DEF Elements
<1>5. Numbered'
  BY <1>1, <1>2, <1>3, <1>4 DEF Numbered, ServerInv
<1>6. ASSUME NEW k \in 0..ver, Covered(k)' PROVE Covered(k)
  <2>1. SUFFICES ASSUME NEW j \in (k + 1)..ver PROVE \E e \in Transit : e.v = j
    BY DEF Covered
  <2>2. j \in (k + 1)..ver'
    BY <1>1
  <2>3. PICK e \in Transit' : e.v = j
    BY <1>6, <2>2 DEF Covered
  <2> QED  BY <1>1, <1>2, <1>3, <2>3
<1>7. Continues
  BY <1>1, <1>3, <1>6 DEF Continues, Later, LaterAny
<1>8. ASSUME NEW e \in Elements(events), NEW types, NEW k \in 0..ver, e.type \in types
      PROVE  LaterAny(k, types)' /\ Later(k, types, e.lote)'
  <2>1. e \in Transit' /\ e.v > k
    BY <1>1, <1>2, <1>3, <1>8
  <2> QED  BY <1>8, <2>1 DEF Later, LaterAny
<1>9. \A e \in Transit' : e \in Sent
  BY <1>2, <1>3, TransitType DEF ServerInv
<1> QED  BY <1>1, <1>3, <1>5, <1>7, <1>8, <1>9 DEF ServerInv, ServerShape

\* What a step of the server, or a step that only moves events, gives to the page.
Carries == Continues /\ Announced /\ ServerInv'

\* What a commit leaves to show: that its changes are announced, and its events true.
LEMMA CarriesIf ==
    ASSUME ServerInv, Continues, Numbered', Announced, ServerShape', Floor', NEW E,
           Transit' = Transit \cup E, \A e \in E : True(e)'
    PROVE  Carries
<1>1. ASSUME NEW f \in Transit PROVE True(f)'
  <2>1. f \in Sent /\ f.v \in 0..ver
    BY TransitType DEF ServerInv, Numbered
  <2> QED  BY <2>1, TrueKept DEF ServerInv, ServerShape
<1>2. \A f \in Transit' : True(f)'
  BY <1>1
<1> QED  BY <1>2 DEF Carries, ServerInv

LEMMA OneEvent ==
    ASSUME ServerInv, NEW e \in Sent, e.v = ver + 1, Publishes(<<e>>), UNCHANGED chan
    PROVE  /\ Continues /\ Numbered'
           /\ ver' \in Nat /\ \A q \in outbox' : q \in Seq(Sent) /\ q # <<>>
           /\ chan' \in Seq(Sent \cup Snapshot)
           /\ Transit' = Transit \cup {e}
           /\ \A k \in 0..ver : \A types : e.type \in types =>
                 LaterAny(k, types)' /\ Later(k, types, e.lote)'
           /\ Announced /\ ServerShape' /\ Floor' /\ True(e)' => Carries
<1>1. <<e>> \in Seq(Sent) /\ <<e>> # <<>> /\ Elements(<<e>>) = {e}
      /\ \A i \in DOMAIN <<e>> : <<e>>[i].v = ver + i
  BY DEF Elements
<1>2. /\ Continues /\ Numbered' /\ ver' \in Nat /\ \A q \in outbox' : q \in Seq(Sent) /\ q # <<>>
      /\ Transit' = Transit \cup {e}
      /\ \A k \in 0..ver : \A types : e.type \in types =>
            LaterAny(k, types)' /\ Later(k, types, e.lote)'
  BY <1>1, Commits
<1>3. ASSUME Announced, ServerShape', Floor', True(e)' PROVE Carries
  <2>1. PICK E : E = {e}
    OBVIOUS
  <2>2. ASSUME NEW f \in E PROVE True(f)'
    <3>1. f = e
      BY <2>1
    <3> QED  BY <1>3, <3>1
  <2>3. Transit' = Transit \cup E
    BY <1>2, <2>1
  <2> QED  BY <1>2, <1>3, <2>2, <2>3, CarriesIf
<1> QED  BY <1>2, <1>3 DEF ServerInv, ServerShape

LEMMA RemateCarries ==
    ASSUME ServerInv, NEW to \in {"live", "paused", "finished"}, RemateMoves(to), UNCHANGED chan
    PROVE  Carries
<1> PICK e : e = Ev(1, "remate", NoLote, to, 0)
  OBVIOUS
<1>1. /\ ver \in Nat /\ status' = to /\ Publishes(<<e>>) /\ UNCHANGED <<lot, round, ofertas>>
      /\ ServerShape
  BY DEF RemateMoves, ServerInv, ServerShape
<1>2. e \in Sent /\ e.v = ver + 1 /\ e.type = "remate" /\ e.arg = to
  BY <1>1 DEF Ev, Sent, Event, Statused, RoomStatus
<1>3. \A l : Leader(l)' = Leader(l) /\ (Open(l)' <=> Open(l))
  BY <1>1 DEF Leader, Open
<1>4. Announced
  <2>1. \A l \in Lotes : round[l] \in Nat
    BY <1>1 DEF ServerShape
  <2>2. \A k \in 0..ver : LaterAny(k, Remate)'
    BY <1>1, <1>2, OneEvent DEF Remate
  <2> QED  BY <1>1, <1>3, <2>1, <2>2 DEF Announced
<1>5. ServerShape'
  BY <1>1, <1>2, OneEvent DEF ServerShape, Statused, RoomStatus
<1>6. Floor'
  BY <1>1, <1>3 DEF ServerInv, Floor
<1>7. True(e)'
  BY <1>1, <1>2 DEF True, Statuses, Opens, Ends, Timers, StatusSaid, TimerSaid
<1> QED  BY <1>1, <1>2, <1>4, <1>5, <1>6, <1>7, OneEvent

LEMMA EndCarries ==
    ASSUME ServerInv, NEW l \in Lotes, NEW to \in {"closed_sold", "closed_unsold", "cancelled"},
           EndLote(l, to), UNCHANGED chan
    PROVE  Carries
<1> DEFINE type == IF to = "cancelled" THEN "lote.cancelled" ELSE "lote.closed"
           timer == IF to = "cancelled" THEN lot[l].timer ELSE "none"
<1> PICK e : e = Ev(1, type, l, to, 0)
  OBVIOUS
<1>1. /\ ver \in Nat /\ Publishes(<<e>>) /\ UNCHANGED <<status, round, ofertas>>
      /\ Open(l) /\ lot \in Catalog
      /\ lot' = [lot EXCEPT ![l] = [status |-> to, timer |-> timer]]
      /\ ServerShape
  BY DEF EndLote, ServerInv, ServerShape, Open
<1>2. /\ e \in Sent /\ e.v = ver + 1 /\ e.type = type /\ e.arg = to /\ e.lote = l
      /\ type \in Ends /\ timer \in TimerState /\ (type = "lote.closed" => timer = "none")
      /\ type = "lote.cancelled" => to = "cancelled" /\ timer = lot[l].timer
  BY <1>1 DEF Ev, Sent, Event, Statused, RoomStatus, ListStatus, Ends, Catalog, TimerState
<1>a. type \in {"lote.closed", "lote.cancelled"}
  OBVIOUS
<1> HIDE DEF type, timer
<1>3. /\ lot' \in Catalog
      /\ lot'[l].status = to /\ lot'[l].timer = timer
      /\ \A m \in Lotes \ {l} : lot'[m] = lot[m]
  BY <1>1, <1>2 DEF Catalog, ListStatus
<1>4. /\ \A m : Leader(m)' = Leader(m)
      /\ \A m \in Lotes : Open(m)' <=> Open(m) /\ m # l
  BY <1>1, <1>3 DEF Leader, Open
<1>5. Announced
  <2>1. \A m \in Lotes : round[m] \in Nat
    BY <1>1 DEF ServerShape
  <2>2. \A k \in 0..ver : /\ Later(k, Statuses, l)' /\ Later(k, Ends, l)'
                          /\ type = "lote.closed" => Later(k, Timers, l)'
    BY <1>1, <1>2, OneEvent DEF Statuses, Ends, Timers
  <2>3. \A m \in Lotes \ {l} : lot'[m] = lot[m]
    BY <1>3
  <2>4. lot'[l].timer # lot[l].timer => type = "lote.closed"
    BY <1>2, <1>3, <1>a
  <2> QED  BY <1>1, <1>4, <2>1, <2>2, <2>3, <2>4 DEF Announced
<1>6. ServerShape'
  BY <1>1, <1>2, <1>3, OneEvent DEF ServerShape
<1>7. Floor'
  <2>1. \A m \in Lotes : lot'[m].status = "pending" => lot[m].status = "pending"
    BY <1>1, <1>3
  <2> QED  BY <1>1, <1>4, <2>1 DEF ServerInv, Floor
<1>8. True(e)'
  BY <1>2, <1>3, <1>4, <1>a DEF True, Statuses, Opens, Ends, Timers, StatusSaid, TimerSaid
<1> QED  BY <1>1, <1>2, <1>5, <1>6, <1>7, <1>8, OneEvent

LEMMA RequeueCarries ==
    ASSUME ServerInv, NEW l \in Lotes, Requeue(l), UNCHANGED chan PROVE Carries
<1> PICK e : e = Ev(1, "lote.requeued", l, "pending", 0)
  OBVIOUS
<1>1. /\ ver \in Nat /\ Publishes(<<e>>) /\ UNCHANGED <<status, ofertas>>
      /\ lot[l].status = "closed_unsold" /\ lot \in Catalog
      /\ lot' = [lot EXCEPT ![l].status = "pending"] /\ round' = [round EXCEPT ![l] = @ + 1]
      /\ round \in [Lotes -> Nat \ {0}] /\ ServerShape
  BY DEF Requeue, ServerInv, ServerShape
<1>2. e \in Sent /\ e.v = ver + 1 /\ e.type = "lote.requeued" /\ e.lote = l
  BY <1>1 DEF Ev, Sent, Event, ListStatus
<1>3. /\ lot' \in Catalog /\ lot'[l].status = "pending" /\ lot'[l].timer = lot[l].timer
      /\ \A m \in Lotes \ {l} : lot'[m] = lot[m]
  BY <1>1 DEF Catalog, ListStatus
<1>4. /\ round' \in [Lotes -> Nat \ {0}] /\ round'[l] > 1
      /\ \A m \in Lotes : round'[m] >= round[m]
      /\ \A m \in Lotes \ {l} : round'[m] = round[m]
  BY <1>1
<1>5. /\ \A m : Leader(m)' = Leader(m)
      /\ \A m \in Lotes : Open(m)' <=> Open(m)
  BY <1>1, <1>3 DEF Leader, Open
<1>6. Announced
  <2>a. e.type \in Statuses
    BY <1>2 DEF Statuses
  <2>1. \A k \in 0..ver : Later(k, Statuses, l)'
    BY <1>1, <1>2, <2>a, OneEvent
  <2>2. \A m \in Lotes : lot'[m].timer = lot[m].timer
    BY <1>3
  <2> QED  BY <1>1, <1>3, <1>4, <1>5, <2>1, <2>2 DEF Announced
<1>7. ServerShape'
  BY <1>1, <1>2, <1>3, <1>4, OneEvent DEF ServerShape
<1>8. Floor'
  <2>1. ASSUME NEW m \in Lotes, lot'[m].status = "pending", round'[m] = 1
        PROVE  lot[m].status = "pending" /\ round[m] = 1
    <3>1. m # l
      BY <1>4, <2>1
    <3> QED  BY <1>3, <1>4, <2>1, <3>1
  <2> QED  BY <1>1, <1>5, <2>1 DEF ServerInv, Floor
<1>9. True(e)'
  BY <1>2, <1>3 DEF True, Statuses, Opens, Ends, Timers, StatusSaid, TimerSaid
<1> QED  BY <1>1, <1>2, <1>6, <1>7, <1>8, <1>9, OneEvent

LEMMA TimerCarries ==
    ASSUME ServerInv, NEW l \in Lotes, NEW to \in {"running", "paused"}, MoveTimer(l, to),
           UNCHANGED chan
    PROVE  Carries
<1> PICK e : e = Ev(1, "lote.timer", l, to, 0)
  OBVIOUS
<1>1. /\ ver \in Nat /\ Publishes(<<e>>) /\ UNCHANGED <<status, round, ofertas>>
      /\ lot \in Catalog /\ lot' = [lot EXCEPT ![l].timer = to] /\ ServerShape
  BY DEF MoveTimer, ServerInv, ServerShape
<1>2. e \in Sent /\ e.v = ver + 1 /\ e.type = "lote.timer" /\ e.lote = l /\ e.arg = to
  BY <1>1 DEF Ev, Sent, Event, TimerState
<1>3. /\ lot' \in Catalog /\ lot'[l].timer = to
      /\ \A m \in Lotes : lot'[m].status = lot[m].status
      /\ \A m \in Lotes \ {l} : lot'[m] = lot[m]
  BY <1>1 DEF Catalog, TimerState
<1>4. /\ \A m : Leader(m)' = Leader(m)
      /\ \A m \in Lotes : Open(m)' <=> Open(m)
  BY <1>1, <1>3 DEF Leader, Open
<1>5. Announced
  <2>1. \A k \in 0..ver : Later(k, Timers, l)' /\ Later(k, Clocks, l)'
    BY <1>1, <1>2, OneEvent DEF Timers, Clocks
  <2>2. \A m \in Lotes : round[m] \in Nat
    BY <1>1 DEF ServerShape
  <2> QED  BY <1>1, <1>3, <1>4, <2>1, <2>2 DEF Announced
<1>6. ServerShape'
  BY <1>1, <1>2, <1>3, OneEvent DEF ServerShape
<1>7. Floor'
  BY <1>1, <1>3, <1>4 DEF ServerInv, Floor
<1>8. True(e)'
  BY <1>2, <1>3 DEF True, Statuses, Opens, Ends, Timers, StatusSaid, TimerSaid
<1> QED  BY <1>1, <1>2, <1>5, <1>6, <1>7, <1>8, OneEvent

\* An opening is announced by two events, of which the second starts the countdown.
LEMMA OpenCarries ==
    ASSUME ServerInv, NEW l \in Lotes, OpenLote(l), UNCHANGED chan PROVE Carries
<1> PICK a : a = Ev(1, "lote.opened", l, "open", 0)
  OBVIOUS
<1> PICK b : b = Ev(2, "lote.timer", l, "running", 0)
  OBVIOUS
<1> PICK E : E = {a, b}
  OBVIOUS
<1>1. /\ ver \in Nat /\ Publishes(<<a, b>>) /\ UNCHANGED <<status, round, ofertas>>
      /\ lot[l].status = "pending" /\ (\A m \in Lotes : ~Open(m)) /\ lot \in Catalog
      /\ lot' = [lot EXCEPT ![l] = [status |-> "open", timer |-> "running"]]
      /\ ServerShape
  BY DEF OpenLote, OpenLotes, ServerInv, ServerShape, Open
<1>2. /\ a \in Sent /\ a.v = ver + 1 /\ a.type = "lote.opened" /\ a.lote = l
      /\ b \in Sent /\ b.v = ver + 2 /\ b.type = "lote.timer" /\ b.lote = l /\ b.arg = "running"
  BY <1>1 DEF Ev, Sent, Event, TimerState, ListStatus
<1>3. <<a, b>> \in Seq(Sent) /\ <<a, b>> # <<>> /\ Elements(<<a, b>>) = E
      /\ \A i \in DOMAIN <<a, b>> : <<a, b>>[i].v = ver + i
  BY <1>1, <1>2 DEF Elements
<1>4. /\ Continues /\ Numbered' /\ ver' \in Nat /\ \A q \in outbox' : q \in Seq(Sent) /\ q # <<>>
      /\ Transit' = Transit \cup E
      /\ \A e \in E, k \in 0..ver : \A types : e.type \in types =>
            LaterAny(k, types)' /\ Later(k, types, e.lote)'
  BY <1>1, <1>3, Commits
<1>5. /\ lot' \in Catalog /\ lot'[l].status = "open" /\ lot'[l].timer = "running"
      /\ \A m \in Lotes \ {l} : lot'[m] = lot[m]
  BY <1>1 DEF Catalog, ListStatus, TimerState
<1>6. /\ \A m : Leader(m)' = Leader(m)
      /\ \A m \in Lotes : Open(m)' <=> m = l
  BY <1>1, <1>5 DEF Leader, Open
<1>7. Announced
  <2>1. \A k \in 0..ver : /\ Later(k, Statuses, l)' /\ Later(k, Opens, l)' /\ LaterAny(k, Leaders)'
                          /\ Later(k, Clocks, l)' /\ Later(k, Timers, l)'
    BY <1>1, <1>2, <1>4 DEF Statuses, Opens, Leaders, Clocks, Timers
  <2>2. \A m \in Lotes : round[m] \in Nat
    BY <1>1 DEF ServerShape
  <2> QED  BY <1>1, <1>5, <1>6, <2>1, <2>2 DEF Announced
<1>8. ServerShape'
  BY <1>1, <1>4, <1>5 DEF ServerShape
<1>9. Floor'
  <2>1. \A m \in Lotes : lot'[m].status = "pending" => lot[m].status = "pending"
    BY <1>5
  <2> QED  BY <1>1, <1>6, <2>1 DEF ServerInv, Floor
<1>10. True(a)'
  <2>1. Later(a.v, Timers, l)'
    <3>1. b \in Transit' /\ b.v > a.v /\ b.type \in Timers /\ b.lote = l
      BY <1>1, <1>2, <1>4 DEF Timers
    <3> QED  BY <3>1 DEF Later
  <2>2. round'[l] = 1 => Leader(l)' = 0
    BY <1>1, <1>6 DEF ServerInv, Floor
  <2> QED  BY <1>2, <1>5, <1>6, <2>1, <2>2 DEF True, Statuses, Opens, Ends, Timers, StatusSaid
<1>11. True(b)'
  BY <1>2, <1>5 DEF True, Statuses, Opens, Ends, Timers, TimerSaid
<1>12. \A e \in E : True(e)'
  BY <1>10, <1>11
<1> QED  BY <1>4, <1>7, <1>8, <1>9, <1>12, CarriesIf

LEMMA RowsOver ==
    ASSUME NEW U, NEW V, U \subseteq V, ofertas \in Seq(Row(U)) PROVE ofertas \in Seq(Row(V))
<1>1. Row(U) \subseteq Row(V)
  BY DEF Row
<1> QED  BY <1>1

\* An accepted bid leads its lote and no other.
LEMMA AcceptLeads ==
    ASSUME ServerShape, Floor, NEW l \in Lotes, NEW mine \in BOOLEAN, NEW amount, NEW token \in Nat,
           Accept(l, mine, amount, token)
    PROVE  /\ \E U : ofertas' \in Seq(Row(U))
           /\ Leader(l)' = Len(ofertas) + 1
           /\ \A m : m # l => Leader(m)' = Leader(m)
           /\ \A i, j \in DOMAIN ofertas' :
                /\ ofertas'[i].status = "accepted" /\ ofertas'[j].status = "accepted"
                /\ ofertas'[i].lote = ofertas'[j].lote
                => i = j
<1>1. PICK U : ofertas \in Seq(Row(U))
  BY DEF ServerShape
<1>a. PICK V : U \subseteq V /\ l \in V /\ amount \in V
  <2> WITNESS U \cup {l, amount}
  <2> QED  OBVIOUS
<1>2. ofertas \in Seq(Row(V))
  BY <1>1, <1>a, RowsOver
<1>3. /\ RowsKept /\ Outbids(l)
      /\ ofertas' \in Seq(Row(V))
      /\ Len(ofertas') = Len(ofertas) + 1
      /\ ofertas'[Len(ofertas')] = [lote |-> l, mine |-> mine, amount |-> amount,
                                    token |-> token, status |-> "accepted"]
  BY <1>2, <1>a, AcceptKeepsRows
<1> DEFINE n == Len(ofertas) + 1
<1>4. /\ n \in Nat /\ DOMAIN ofertas = 1..Len(ofertas) /\ DOMAIN ofertas' = DOMAIN ofertas \cup {n}
      /\ n \notin DOMAIN ofertas
      /\ ofertas'[n].lote = l /\ ofertas'[n].status = "accepted"
  BY <1>2, <1>3
<1>5. \A i \in DOMAIN ofertas :
        /\ ofertas'[i].lote = ofertas[i].lote
        /\ ofertas'[i].status = IF i = Leader(l) THEN "outbid" ELSE ofertas[i].status
  BY <1>3 DEF RowsKept, Outbids
<1>6. \A i \in DOMAIN ofertas : ofertas[i].lote = l /\ ofertas[i].status = "accepted" => i = Leader(l)
  <2>1. Leader(l) # 0 => /\ Leader(l) \in DOMAIN ofertas
                         /\ ofertas[Leader(l)].lote = l /\ ofertas[Leader(l)].status = "accepted"
    BY LeaderIs
  <2>2. \A i \in DOMAIN ofertas : ofertas[i].lote = l /\ ofertas[i].status = "accepted" => Leader(l) # 0
    BY LeaderIs
  <2> QED  BY <2>1, <2>2 DEF Floor
<1> HIDE DEF n
<1>7. \A i \in DOMAIN ofertas :
        ofertas'[i].status = "accepted" => ofertas[i].status = "accepted" /\ ofertas[i].lote # l
  BY <1>5, <1>6
<1>8. \A i \in DOMAIN ofertas' : ofertas'[i].lote = l /\ ofertas'[i].status = "accepted" <=> i = n
  BY <1>4, <1>5, <1>7
<1>9. Leader(l)' = n
  <2> DEFINE T == {i \in DOMAIN ofertas' : ofertas'[i].lote = l /\ ofertas'[i].status = "accepted"}
  <2>1. T = {n}
    BY <1>4, <1>8
  <2>2. Leader(l)' = IF T = {} THEN 0 ELSE CHOOSE i \in T : TRUE
    BY DEF Leader
  <2> HIDE DEF T
  <2> QED  BY <2>1, <2>2
<1>10. ASSUME NEW m, m # l PROVE Leader(m)' = Leader(m)
  <2> DEFINE S == {i \in DOMAIN ofertas : ofertas[i].lote = m /\ ofertas[i].status = "accepted"}
             T == {i \in DOMAIN ofertas' : ofertas'[i].lote = m /\ ofertas'[i].status = "accepted"}
  <2>1. \A i \in DOMAIN ofertas : ofertas[i].lote = m => i # Leader(l)
    <3>1. Leader(l) \in DOMAIN ofertas => ofertas[Leader(l)].lote = l
      BY LeaderIs, <1>4
    <3> QED  BY <3>1, <1>10
  <2>2. S = T
    BY <1>4, <1>5, <1>10, <2>1
  <2>3. Leader(m) = IF S = {} THEN 0 ELSE CHOOSE i \in S : TRUE
    BY DEF Leader
  <2>4. Leader(m)' = IF T = {} THEN 0 ELSE CHOOSE i \in T : TRUE
    BY DEF Leader
  <2> HIDE DEF S, T
  <2> QED  BY <2>2, <2>3, <2>4
<1>11. ASSUME NEW i \in DOMAIN ofertas', NEW j \in DOMAIN ofertas',
              ofertas'[i].status = "accepted", ofertas'[j].status = "accepted",
              ofertas'[i].lote = ofertas'[j].lote
       PROVE  i = j
  <2>1. CASE ofertas'[i].lote = l
    BY <1>8, <1>11, <2>1
  <2>2. CASE ofertas'[i].lote # l
    BY <1>4, <1>5, <1>7, <1>11, <2>2 DEF Floor
  <2> QED  BY <2>1, <2>2
<1> QED  BY <1>3, <1>9, <1>10, <1>11 DEF n

LEMMA AcceptCarries ==
    ASSUME ServerInv, NEW l \in Lotes, NEW mine \in BOOLEAN, NEW amount, NEW token \in Nat,
           Accept(l, mine, amount, token), Open(l), UNCHANGED chan
    PROVE  Carries
<1> PICK e : e = Ev(1, "oferta.accepted", l, "none", Len(ofertas) + 1)
  OBVIOUS
<1>1. /\ ver \in Nat /\ Publishes(<<e>>) /\ UNCHANGED <<status, lot, round>>
      /\ lot \in Catalog /\ ServerShape /\ Floor /\ Len(ofertas) \in Nat
  BY DEF Accept, ServerInv, ServerShape
<1>2. e \in Sent /\ e.v = ver + 1 /\ e.type = "oferta.accepted" /\ e.lote = l
      /\ e.oferta = Len(ofertas) + 1
  BY <1>1 DEF Ev, Sent, Event, TimerState
<1>3. /\ \E U : ofertas' \in Seq(Row(U))
      /\ Leader(l)' = Len(ofertas) + 1
      /\ \A m : m # l => Leader(m)' = Leader(m)
      /\ \A i, j \in DOMAIN ofertas' :
           /\ ofertas'[i].status = "accepted" /\ ofertas'[j].status = "accepted"
           /\ ofertas'[i].lote = ofertas'[j].lote
           => i = j
  BY <1>1, AcceptLeads
<1>4. /\ \A m \in Lotes : Open(m)' <=> Open(m)
      /\ \A m \in Lotes : Open(m) => m = l
      /\ lot[l].status # "pending"
  BY <1>1 DEF Open, Floor
<1>5. Announced
  <2>1. \A k \in 0..ver : LaterAny(k, Leaders)'
    BY <1>1, <1>2, OneEvent DEF Leaders
  <2>2. \A m \in Lotes : round[m] \in Nat
    BY <1>1 DEF ServerShape
  <2> QED  BY <1>1, <1>4, <2>1, <2>2 DEF Announced
<1>6. ServerShape'
  BY <1>1, <1>2, <1>3, OneEvent DEF ServerShape
<1>7. Floor'
  BY <1>1, <1>3, <1>4 DEF Floor
<1>8. True(e)'
  BY <1>1, <1>2, <1>3, <1>4 DEF True, Statuses, Opens, Ends, Timers
<1> QED  BY <1>1, <1>2, <1>5, <1>6, <1>7, <1>8, OneEvent

\* Steps that publish nothing: events are forwarded, taken or lost, and rows that
\* lead nothing are written.
LEMMA ThinCarries ==
    ASSUME ServerInv, UNCHANGED <<ver, status, lot, round>>, Transit' \subseteq Transit,
           \A m : Leader(m)' = Leader(m), ServerShape', Floor'
    PROVE  Carries
<1>1. Continues /\ Numbered'
  BY Thinner DEF ServerInv, ServerShape
<1>2. Announced
  <2>1. \A l \in Lotes : round[l] \in Nat
    BY DEF ServerInv, ServerShape
  <2> QED  BY <2>1 DEF Announced, Open
<1>3. ASSUME NEW e \in Transit' PROVE True(e)'
  <2>1. e \in Sent /\ e.v \in 0..ver /\ True(e)
    BY TransitType DEF ServerInv, Numbered
  <2> QED  BY <1>1, <1>2, <2>1, TrueKept DEF ServerInv, ServerShape
<1> QED  BY <1>1, <1>2, <1>3 DEF Carries, ServerInv

\* The server's own variables stay and events move or disappear.
LEMMA MovesCarry ==
    ASSUME ServerInv, UNCHANGED <<ver, status, lot, round, ofertas>>, Transit' \subseteq Transit,
           \A q \in outbox' : q \in Seq(Sent) /\ q # <<>>, chan' \in Seq(Sent \cup Snapshot)
    PROVE  Carries
<1>1. \A m : Leader(m)' = Leader(m)
  BY DEF Leader
<1>2. ServerShape'
  BY DEF ServerInv, ServerShape
<1>3. Floor'
  BY <1>1 DEF ServerInv, Floor, Open
<1> QED  BY <1>1, <1>2, <1>3, ThinCarries

------------------------------------------------------------------------------
(* Taking an event.                                                         *)

\* A copy that takes the event after its age, or an older one, is as old as it: what
\* was on its way for the copy is on its way still, but for the event it takes.
LEMMA Past ==
    ASSUME Numbered, ver \in Nat, NEW e \in Transit, NEW k \in 0..ver, e.v <= k + 1, Covered(e.v)
    PROVE  /\ Covered(k)
           /\ \A types : e.type \notin types /\ LaterAny(k, types) => LaterAny(e.v, types)
           /\ \A types, l : (e.type \notin types \/ e.lote # l) /\ Later(k, types, l)
                            => Later(e.v, types, l)
<1>1. e.v \in 1..ver
  BY DEF Numbered
<1>2. ASSUME NEW j \in (k + 1)..ver PROVE \E f \in Transit : f.v = j
  <2>1. CASE j = e.v
    BY <2>1
  <2>2. CASE j # e.v
    BY <1>1, <2>2 DEF Covered
  <2> QED  BY <2>1, <2>2
<1>3. Covered(k)
  BY <1>2 DEF Covered
<1>4. ASSUME NEW f \in Transit, f.v > k, f # e PROVE f.v > e.v
  <2>1. f.v \in 1..ver /\ f.v # e.v
    BY <1>4 DEF Numbered
  <2> QED  BY <1>1, <1>4, <2>1
<1> QED  BY <1>3, <1>4 DEF Later, LaterAny

\* A lote that an event ended and that is open was opened after it.
LEMMA EndedFirst ==
    ASSUME ServerInv, NEW e \in Transit, Covered(e.v), NEW l, Open(l), Later(e.v, Ends, l)
    PROVE  Later(e.v, Opens, l)
<1>1. PICK f \in Transit : f.v > e.v /\ f.type \in Ends /\ f.lote = l
  BY DEF Later
<1>2. e.v \in 1..ver /\ f.v \in 1..ver
  BY DEF ServerInv, Numbered
<1>3. Covered(f.v)
  BY <1>1, <1>2 DEF Covered, ServerInv, ServerShape
<1>4. Later(f.v, Opens, l)
  BY <1>1, <1>3 DEF ServerInv, True
<1> QED  BY <1>1, <1>2, <1>4, TransitType DEF ServerInv, Later, Numbered

\* An open lote whose countdown no later event starts or moves was not closed later.
LEMMA NoClock ==
    ASSUME ServerInv, NEW e \in Transit, Covered(e.v), NEW l, Open(l), ~Later(e.v, Clocks, l)
    PROVE  ~Later(e.v, Timers, l)
<1>1. ~Later(e.v, Opens, l)
  BY DEF Later, Clocks, Opens
<1>2. ~Later(e.v, Ends, l)
  BY <1>1, EndedFirst
<1> QED  BY <1>2 DEF Later, Timers, Ends, Clocks

LEMMA Differ ==
    ASSUME NEW m, NEW k
    PROVE  /\ Later(k, Opens, m) => Later(k, Clocks, m) /\ LaterAny(k, Leaders)
  BY DEF Later, LaterAny, Opens, Clocks, Leaders

LEMMA StatusTaken ==
    ASSUME ServerInv, NEW e \in Transit, NEW k \in 0..ver, e.v <= k + 1,
           NEW s, StatusOK(s, k)
    PROVE  StatusOK(IF e.type = "remate" THEN e.arg ELSE s, e.v)
<1> SUFFICES ASSUME Covered(e.v), ~LaterAny(e.v, Remate)
             PROVE  (IF e.type = "remate" THEN e.arg ELSE s) = status
  BY DEF StatusOK
<1>1. CASE e.type = "remate"
  BY <1>1 DEF ServerInv, True
<1>2. CASE e.type # "remate"
  BY <1>2, Past DEF ServerInv, ServerShape, StatusOK, Remate
<1> QED  BY <1>1, <1>2

LEMMA RawTaken ==
    ASSUME ServerInv, NEW e \in Transit, NEW k \in 0..ver, e.v <= k + 1,
           NEW d \in View, RawOK(d, k), NEW x \in Catalog
    PROVE  RawOK(ApplyToView(d, e, x), e.v)
<1> PICK d2 : d2 = ApplyToView(d, e, x)
  OBVIOUS
<1> SUFFICES ASSUME Covered(e.v) PROVE
        /\ d2.lote # NoLote /\ ~Later(e.v, Ends, d2.lote) => Open(d2.lote)
        /\ \A m \in Lotes : Open(m) =>
              /\ d2.lote = m \/ Later(e.v, Opens, m)
              /\ ~Later(e.v, Clocks, m) => d2.timer = lot[m].timer
              /\ ~LaterAny(e.v, Leaders) => d2.winner = Leader(m) \/ round[m] > 1
  BY DEF RawOK
<1>1. e \in Sent /\ e.type \in {"remate", "lote.opened", "lote.closed", "lote.cancelled",
                                "lote.requeued", "lote.timer", "oferta.accepted"}
  BY TransitType DEF ServerInv, Sent, Event
<1>2. /\ Covered(k)
      /\ \A types : e.type \notin types /\ LaterAny(k, types) => LaterAny(e.v, types)
      /\ \A types, l : (e.type \notin types \/ e.lote # l) /\ Later(k, types, l)
                       => Later(e.v, types, l)
  BY Past DEF ServerInv, ServerShape
<1>3. /\ d.lote # NoLote /\ ~Later(k, Ends, d.lote) => Open(d.lote)
      /\ \A m \in Lotes : Open(m) =>
              /\ d.lote = m \/ Later(k, Opens, m)
              /\ ~Later(k, Clocks, m) => d.timer = lot[m].timer
              /\ ~LaterAny(k, Leaders) => d.winner = Leader(m) \/ round[m] > 1
  BY <1>2 DEF RawOK
<1>4. True(e) /\ ServerShape
  BY DEF ServerInv
<1>5. \A m : Later(e.v, Opens, m) => Later(e.v, Clocks, m) /\ LaterAny(e.v, Leaders)
  BY Differ
<1>6. CASE e.type \in {"remate", "lote.requeued"}
  <2>1. d2.lote = d.lote /\ d2.timer = d.timer /\ d2.winner = d.winner
    BY <1>6, Patched DEF View
  <2>2. e.type \notin Ends /\ e.type \notin Opens /\ e.type \notin Clocks /\ e.type \notin Leaders
    BY <1>6 DEF Ends, Opens, Clocks, Leaders
  <2> QED  BY <1>2, <1>3, <2>1, <2>2
<1>7. CASE e.type = "lote.opened"
  <2>1. e.lote \in Lotes /\ x[e.lote].status # "absent"
    BY <1>1, <1>7 DEF Sent, Catalog
  <2>2. d2.lote = e.lote /\ d2.winner = 0
    <3>1. d2 = Opened(d, e, x)
      BY <1>7, Patched
    <3>2. d2 = [d EXCEPT !.lote = e.lote, !.timer = x[e.lote].timer, !.winner = 0]
      BY <2>1, <3>1 DEF Opened
    <3> QED  BY <3>2 DEF View
  <2>3. /\ Open(e.lote) \/ Later(e.v, Ends, e.lote)
        /\ \A m \in Lotes \ {e.lote} : Open(m) => Later(e.v, Opens, m)
        /\ Later(e.v, Timers, e.lote)
        /\ ~LaterAny(e.v, Leaders) /\ Open(e.lote) /\ round[e.lote] = 1 => Leader(e.lote) = 0
    BY <1>4, <1>7 DEF True
  <2>4. Open(e.lote) => Later(e.v, Clocks, e.lote)
    BY <2>3, NoClock
  <2>5. round[e.lote] \in Nat \ {0}
    BY <1>4, <2>1 DEF ServerShape
  <2>6. round[e.lote] = 1 \/ round[e.lote] > 1
    BY <2>5
  <2> QED  BY <1>5, <2>2, <2>3, <2>4, <2>6
<1>8. CASE e.type \in Ends
  <2>1. e.type \notin Opens /\ e.type \notin Clocks /\ e.type \notin Leaders
    BY <1>8 DEF Ends, Opens, Clocks, Leaders
  <2>2. CASE d.lote # e.lote
    <3>1. d2 = d
      BY <1>8, <2>2, Patched DEF Ended
    <3> QED  BY <1>2, <1>3, <2>1, <2>2, <3>1
  <2>3. CASE d.lote = e.lote
    <3>0. d2 = Ended(d, e)
      BY <1>8, Patched
    <3>1. d2.lote = NoLote
      BY <2>3, <3>0 DEF Ended, View
    <3>2. ASSUME NEW m \in Lotes, Open(m) PROVE Later(e.v, Opens, m)
      <4>1. CASE m = e.lote
        BY <1>4, <1>8, <3>2, <4>1 DEF True
      <4>2. CASE m # e.lote
        BY <1>2, <1>3, <2>1, <2>3, <3>2, <4>2
      <4> QED  BY <4>1, <4>2
    <3> QED  BY <1>5, <3>1, <3>2
  <2> QED  BY <2>2, <2>3
<1>9. CASE e.type = "lote.timer"
  <2>1. e.type \notin Ends /\ e.type \notin Opens /\ e.type \notin Leaders
    BY <1>9 DEF Ends, Opens, Leaders
  <2>2. CASE d.lote # e.lote
    <3>1. d2 = d
      BY <1>9, <2>2, Patched DEF TimerMoved
    <3>2. ASSUME NEW m \in Lotes, Open(m), ~Later(e.v, Clocks, m) PROVE ~Later(k, Clocks, m)
      <4>1. m # e.lote
        BY <1>2, <1>3, <1>5, <2>1, <2>2, <3>2
      <4> QED  BY <1>2, <3>2, <4>1
    <3> QED  BY <1>2, <1>3, <2>1, <3>1, <3>2
  <2>3. CASE d.lote = e.lote
    <3>1. d2.lote = d.lote /\ d2.timer = e.arg /\ d2.winner = d.winner
      BY <1>9, <2>3, Patched DEF TimerMoved, View
    <3>2. ASSUME NEW m \in Lotes, Open(m), ~Later(e.v, Clocks, m) PROVE e.arg = lot[m].timer
      <4>1. m = e.lote
        BY <1>2, <1>3, <1>5, <2>1, <2>3, <3>2
      <4>2. ~Later(e.v, Timers, m)
        BY <3>2, NoClock
      <4>3. e.type \in Timers /\ TimerSaid(e) = e.arg
        BY <1>9 DEF Timers, TimerSaid
      <4> QED  BY <1>4, <4>1, <4>2, <4>3 DEF True
    <3> QED  BY <1>2, <1>3, <2>1, <3>1, <3>2
  <2> QED  BY <2>2, <2>3
<1>10. CASE e.type = "oferta.accepted"
  <2>1. e.type \notin Ends /\ e.type \notin Opens /\ e.type \notin Clocks
    BY <1>10 DEF Ends, Opens, Clocks
  <2>2. d2.lote = d.lote /\ d2.timer = d.timer /\ d2.winner = e.oferta
    BY <1>10, Patched DEF Accepted, View
  <2>3. ~LaterAny(e.v, Leaders) => \A m \in Lotes : Open(m) => Leader(m) = e.oferta
    BY <1>4, <1>10 DEF True
  <2> QED  BY <1>2, <1>3, <2>1, <2>2, <2>3
<1> QED  BY <1>1, <1>6, <1>7, <1>8, <1>9, <1>10 DEF Ends

LEMMA ListTaken ==
    ASSUME ServerInv, NEW e \in Transit, NEW k \in 0..ver, e.v <= k + 1,
           NEW x \in Catalog, ListOK(x, k)
    PROVE  ListOK(ApplyToLotes(x, e), e.v)
<1> PICK y : y = ApplyToLotes(x, e)
  OBVIOUS
<1> SUFFICES ASSUME Covered(e.v), NEW l \in Lotes
             PROVE  /\ ~Later(e.v, Statuses, l) => y[l].status = lot[l].status
                    /\ ~Later(e.v, Timers, l) => y[l].timer = lot[l].timer
  BY DEF ListOK
<1>1. /\ e \in Sent /\ e.type \in {"remate", "lote.opened", "lote.closed", "lote.cancelled",
                                "lote.requeued", "lote.timer", "oferta.accepted"}
      /\ True(e)
  BY TransitType DEF ServerInv, Sent, Event
<1>2. /\ Covered(k)
      /\ \A types, m : (e.type \notin types \/ e.lote # m) /\ Later(k, types, m)
                       => Later(e.v, types, m)
  BY Past DEF ServerInv, ServerShape
<1>3. /\ ~Later(k, Statuses, l) => x[l].status = lot[l].status
      /\ ~Later(k, Timers, l) => x[l].timer = lot[l].timer
  BY <1>2 DEF ListOK
<1>4. CASE e.type \in {"remate", "oferta.accepted"}
  <2>1. y = x /\ e.type \notin Statuses /\ e.type \notin Timers
    BY <1>4, PatchedList DEF Statuses, Opens, Ends, Timers
  <2> QED  BY <1>2, <1>3, <2>1
<1>5. CASE e.type \notin {"remate", "oferta.accepted"}
  <2>1. e.lote \in Lotes /\ x[e.lote].status # "absent"
    BY <1>1, <1>5 DEF Sent, Catalog
  <2> DEFINE s == IF e.type \in Statuses THEN StatusSaid(e) ELSE x[e.lote].status
             t == IF e.type \in Timers THEN TimerSaid(e) ELSE x[e.lote].timer
  <2>2. y = [x EXCEPT ![e.lote] = [status |-> s, timer |-> t]]
    BY <1>1, <1>5, <2>1, PatchedList
       DEF PatchLote, Statuses, Opens, Ends, Timers, StatusSaid, TimerSaid
  <2> HIDE DEF s, t
  <2>3. y[e.lote].status = s /\ y[e.lote].timer = t /\ (l # e.lote => y[l] = x[l])
    BY <2>1, <2>2 DEF Catalog
  <2>4. CASE l # e.lote
    BY <1>2, <1>3, <2>3, <2>4
  <2>5. CASE l = e.lote
    <3>1. CASE e.type \in Statuses /\ e.type \in Timers
      BY <1>1, <2>3, <2>5, <3>1 DEF s, t, True
    <3>2. CASE e.type \in Statuses /\ e.type \notin Timers
      BY <1>1, <1>2, <1>3, <2>3, <2>5, <3>2 DEF s, t, True
    <3>3. CASE e.type \notin Statuses
      <4>1. e.type \in Timers
        BY <1>1, <1>5, <3>3 DEF Statuses, Opens, Ends, Timers
      <4> QED  BY <1>1, <1>2, <1>3, <2>3, <2>5, <3>3, <4>1 DEF s, t, True
    <3> QED  BY <3>1, <3>2, <3>3
  <2> QED  BY <2>4, <2>5
<1> QED  BY <1>4, <1>5

------------------------------------------------------------------------------
(* Copies of what the server has, and what is known of them.                *)

StatusKnown(s, k) == k \in 0..ver /\ s \in Statused /\ StatusOK(s, k)
RawKnown(d, k) ==
    /\ k \in 0..ver
    /\ d.lote \in Lotes \cup {NoLote} /\ d.timer \in TimerState /\ d.winner \in Nat
    /\ RawOK(d, k)
LoteKnown(d, k) ==
    /\ k \in 0..ver
    /\ d.lote \in Lotes \cup {NoLote} /\ d.timer \in TimerState
    /\ LoteOK(d, k)
ViewKnown(d, k) == d \in View /\ StatusKnown(d.status, k) /\ RawKnown(d, k)
ListKnown(x, k) == k \in 0..ver /\ x \in Catalog /\ ListOK(x, k)

\* Where there is a copy, and how old it is.
HoldsStatus(s, k) ==
    \/ owed[1] \in {"remate", "lote"} /\ s = owed[2] /\ k = owed[3]
    \/ page[1] \in {"remate", "lote"} /\ s = page[2] /\ k = page[3]
HoldsLote(d, k) ==
    \/ owed[1] = "lote" /\ d = owed[4] /\ k = owed[4].at
    \/ page[1] = "lote" /\ d = page[4] /\ k = page[4].at
HoldsRaw(d, k) == cache # NoCache /\ d = cache /\ k = cache.at
Sends(m) == m \in Elements(chan) /\ m.type = "snapshot"
HoldsView(d, k) ==
    \/ sync.at >= 0 /\ d = view /\ k = sync.at
    \/ page[1] = "answer" /\ d = page[2].data /\ k = page[2].at
    \/ \E m : Sends(m) /\ d = m.data /\ k = m.at
HoldsList(x, k) ==
    \/ listSync.at >= 0 /\ x = list /\ k = listSync.at
    \/ lotes[1] = "answer" /\ x = lotes[2].data /\ k = lotes[2].at

Known == /\ \A s, k : HoldsStatus(s, k) => StatusKnown(s, k)
         /\ \A d, k : HoldsLote(d, k) => LoteKnown(d, k)
         /\ \A d, k : HoldsRaw(d, k) => RawKnown(d, k)
         /\ \A d, k : HoldsView(d, k) => ViewKnown(d, k)
         /\ \A x, k : HoldsList(x, k) => ListKnown(x, k)

PageShape ==
    /\ view \in View /\ shown \in View /\ list \in Catalog \cup {NoList}
    /\ \A r \in reqs : r.lote \in Lotes

ViewInv == ServerInv /\ PageShape /\ Known

LEMMA KnownKept ==
    ASSUME ServerInv, Carries
    PROVE  /\ \A s, k : StatusKnown(s, k) => StatusKnown(s, k)'
           /\ \A d, k : LoteKnown(d, k) => LoteKnown(d, k)'
           /\ \A d, k : RawKnown(d, k) => RawKnown(d, k)'
           /\ \A d, k : ViewKnown(d, k) => ViewKnown(d, k)'
           /\ \A x, k : ListKnown(x, k) => ListKnown(x, k)'
<1>1. /\ Continues /\ Announced /\ ServerShape /\ round' \in [Lotes -> Nat \ {0}]
      /\ ver \in Nat /\ ver' \in Nat /\ ver <= ver'
  BY DEF Carries, ServerInv, ServerShape, Continues
<1>2. ASSUME NEW s, NEW k, StatusKnown(s, k) PROVE StatusKnown(s, k)'
  BY <1>1, <1>2, StatusKept DEF StatusKnown
<1>3. ASSUME NEW d, NEW k, RawKnown(d, k) PROVE RawKnown(d, k)'
  <2>1. RawOK(d, k)'
    BY <1>1, <1>3, RawKept DEF RawKnown
  <2> QED  BY <1>1, <1>3, <2>1 DEF RawKnown
<1>4. ASSUME NEW d, NEW k, ViewKnown(d, k) PROVE ViewKnown(d, k)'
  <2>1. PICK s : s = d.status
    OBVIOUS
  <2>2. StatusKnown(s, k)' /\ RawKnown(d, k)'
    BY <1>2, <1>3, <1>4, <2>1 DEF ViewKnown
  <2> QED  BY <1>4, <2>1, <2>2 DEF ViewKnown
<1>5. ASSUME NEW x, NEW k, ListKnown(x, k) PROVE ListKnown(x, k)'
  BY <1>1, <1>5, ListKept DEF ListKnown
<1>6. ASSUME NEW d, NEW k, LoteKnown(d, k) PROVE LoteKnown(d, k)'
  <2>1. LoteOK(d, k)'
    BY <1>1, <1>6, LoteKept DEF LoteKnown
  <2> QED  BY <1>1, <1>6, <2>1 DEF LoteKnown
<1> QED  BY <1>2, <1>3, <1>4, <1>5, <1>6

\* A step after which every copy is right about the server as it was before it.
LEMMA KnownIf ==
    ASSUME ServerInv, Carries,
           \A s, k : HoldsStatus(s, k)' => StatusKnown(s, k),
           \A d, k : HoldsLote(d, k)' => LoteKnown(d, k),
           \A d, k : HoldsRaw(d, k)' => RawKnown(d, k),
           \A d, k : HoldsView(d, k)' => ViewKnown(d, k),
           \A x, k : HoldsList(x, k)' => ListKnown(x, k)
    PROVE  Known'
  BY KnownKept DEF Known

\* A lote read at commit k, with the leader it has now, is right about what the server
\* had at k.
LEMMA Completed ==
    ASSUME ServerInv, NEW found, NEW k, LoteKnown(found, k)
    PROVE  RawKnown(WithLeader(found), k) /\ WithLeader(found).at = found.at
<1> PICK raw : raw = WithLeader(found)
  OBVIOUS
<1>1. /\ raw.at = found.at /\ raw.lote = found.lote /\ raw.timer = found.timer
      /\ raw.winner = IF found.lote = NoLote THEN 0 ELSE Leader(found.lote)
  BY DEF WithLeader
<1>2. raw.winner \in Nat
  BY <1>1, LeaderIs DEF ServerInv
<1>3. ASSUME Covered(k), NEW m \in Lotes, Open(m), ~LaterAny(k, Leaders) PROVE raw.winner = Leader(m)
  <2>1. ~Later(k, Opens, m)
    BY <1>3 DEF Later, LaterAny, Opens, Leaders
  <2>2. found.lote = m
    BY <1>3, <2>1 DEF LoteKnown, LoteOK
  <2> QED  BY <1>1, <2>2, PlansAssumption
<1>4. RawOK(raw, k)
  BY <1>1, <1>3 DEF RawOK, LoteKnown, LoteOK
<1> QED  BY <1>1, <1>2, <1>4 DEF RawKnown, LoteKnown

\* What the server has now is known.
LEMMA KnownNow ==
    ASSUME ServerInv
    PROVE  /\ StatusKnown(status, ver) /\ RawKnown(Raw, ver) /\ Raw.at = ver /\ ListKnown(lot, ver)
           /\ LoteKnown(ActiveLote, ver) /\ ActiveLote.at = ver
<1>1. ServerShape /\ Floor /\ ver \in 0..ver
  BY DEF ServerInv, ServerShape
<1>2. StatusKnown(status, ver)
  BY <1>1 DEF StatusKnown, StatusOK, ServerShape
<1>3. ListKnown(lot, ver)
  BY <1>1 DEF ListKnown, ListOK, ServerShape
<1>4. ASSUME OpenLotes = {} PROVE LoteKnown(ActiveLote, ver) /\ ActiveLote.at = ver
  <2>1. ActiveLote = [at |-> ver, lote |-> NoLote, timer |-> "none"]
    BY <1>4 DEF ActiveLote
  <2>2. ActiveLote.lote = NoLote /\ ActiveLote.timer = "none" /\ ActiveLote.at = ver
    BY <2>1
  <2> QED  BY <1>1, <1>4, <2>2 DEF LoteKnown, LoteOK, OpenLotes, Open, TimerState
<1>5. ASSUME OpenLotes # {} PROVE LoteKnown(ActiveLote, ver) /\ ActiveLote.at = ver
  <2>1. PICK l : l = CHOOSE m \in OpenLotes : TRUE
    OBVIOUS
  <2>2. l \in OpenLotes
    BY <1>5, <2>1
  <2>3. ActiveLote = [at |-> ver, lote |-> l, timer |-> lot[l].timer]
    BY <1>5, <2>1 DEF ActiveLote
  <2>4. ActiveLote.lote = l /\ ActiveLote.timer = lot[l].timer /\ ActiveLote.at = ver
    BY <2>3
  <2>5. l \in Lotes /\ Open(l) /\ (\A m \in Lotes : Open(m) => m = l)
    BY <1>1, <2>2 DEF OpenLotes, Open, Floor
  <2>6. lot[l].timer \in TimerState
    BY <1>1, <2>5 DEF ServerShape, Catalog
  <2> QED  BY <1>1, <2>4, <2>5, <2>6 DEF LoteKnown, LoteOK
<1>6. LoteKnown(ActiveLote, ver) /\ ActiveLote.at = ver
  BY <1>4, <1>5
<1>7. RawKnown(Raw, ver) /\ Raw.at = ver
  BY <1>6, Completed DEF Raw
<1> QED  BY <1>2, <1>3, <1>6, <1>7

\* A copy is as good as an older one.
LEMMA Ages ==
    ASSUME ServerInv, NEW k \in 0..ver, NEW n \in 0..ver, k <= n
    PROVE  /\ \A s : StatusKnown(s, n) => StatusKnown(s, k)
           /\ \A d : RawKnown(d, n) => RawKnown(d, k)
<1>1. Covered(k) => Covered(n)
  BY DEF Covered, ServerInv, ServerShape
<1>2. \A e \in Transit : e.v > n => e.v > k
  BY DEF ServerInv, ServerShape, Numbered
<1>3. /\ \A types : LaterAny(n, types) => LaterAny(k, types)
      /\ \A types, l : Later(n, types, l) => Later(k, types, l)
  BY <1>2 DEF Later, LaterAny
<1>4. ASSUME NEW s, StatusKnown(s, n) PROVE StatusKnown(s, k)
  BY <1>1, <1>3, <1>4 DEF StatusKnown, StatusOK
<1>5. ASSUME NEW d, RawKnown(d, n) PROVE RawKnown(d, k)
  <2>1. RawOK(d, n) => RawOK(d, k)
    BY <1>1, <1>3 DEF RawOK
  <2> QED  BY <1>5, <2>1 DEF RawKnown
<1> QED  BY <1>4, <1>5

\* What a reader takes is the cache, or the lote it found with the leader of now.
LEMMA RawOfKnown ==
    ASSUME ViewInv, NEW read, HasRaw(read), read[1] = "lote" => LoteKnown(read[4], read[4].at)
    PROVE  RawKnown(RawOf(read), RawOf(read).at)
<1>1. CASE read[1] = "lote"
  <2>1. PICK found : found = read[4]
    OBVIOUS
  <2>2. RawKnown(WithLeader(found), found.at) /\ WithLeader(found).at = found.at
    BY <1>1, <2>1, Completed DEF ViewInv
  <2> QED  BY <1>1, <2>1, <2>2 DEF RawOf
<1>2. CASE read[1] # "lote"
  BY <1>2 DEF HasRaw, RawOf, ViewInv, Known, HoldsRaw
<1> QED  BY <1>1, <1>2

\* A snapshot put together from several readings is as old as the oldest.
LEMMA BuiltKnown ==
    ASSUME ViewInv, NEW read, NEW raw, StatusKnown(read[2], read[3]), RawKnown(raw, raw.at)
    PROVE  ViewKnown(Built(read, raw).data, Built(read, raw).at)
<1> PICK s, k : s = read[2] /\ k = read[3]
  OBVIOUS
<1> DEFINE n == IF k < raw.at THEN k ELSE raw.at
           d == [status |-> s, lote |-> raw.lote, timer |-> raw.timer, winner |-> raw.winner]
<1>1. Built(read, raw).data = d /\ Built(read, raw).at = n
  BY DEF Built
<1>2. StatusKnown(s, k) /\ RawKnown(raw, raw.at)
  OBVIOUS
<1>3. k \in 0..ver /\ raw.at \in 0..ver /\ ServerInv /\ ver \in Nat /\ s \in Statused
  BY <1>2 DEF StatusKnown, RawKnown, ViewInv, ServerInv, ServerShape
<1>4. n \in 0..ver /\ n <= k /\ n <= raw.at
  BY <1>3
<1> HIDE DEF n
<1>5. StatusKnown(s, n) /\ RawKnown(raw, n)
  BY <1>2, <1>3, <1>4, Ages
<1>6. d \in View /\ d.status = s /\ d.lote = raw.lote /\ d.timer = raw.timer /\ d.winner = raw.winner
  BY <1>3, <1>5 DEF View, RawKnown, Statused, RoomStatus
<1> HIDE DEF d
<1>7. RawKnown(d, n)
  BY <1>5, <1>6 DEF RawKnown, RawOK
<1> QED  BY <1>1, <1>5, <1>6, <1>7 DEF ViewKnown

------------------------------------------------------------------------------
(* The steps.                                                               *)

\* The variables that hold copies, and the rest of what PageShape speaks of.
copies == <<view, list, sync, listSync, page, lotes, owed, cache, chan>>

LEMMA CopiesStay ==
    ASSUME ViewInv, Carries, UNCHANGED copies, shown' \in View, \A r \in reqs' : r.lote \in Lotes
    PROVE  ViewInv'
<1>1. Known'
  BY KnownIf DEF ViewInv, Known, copies, HoldsStatus, HoldsLote, HoldsRaw, HoldsView, HoldsList, Sends, Elements
<1> QED  BY <1>1 DEF ViewInv, Carries, PageShape, copies

LEMMA ServerKeepsView ==
    ASSUME ViewInv, ServerStep PROVE ViewInv'
<1>1. UNCHANGED <<copies, shown, reqs>> /\ UNCHANGED chan /\ ServerInv
  BY DEF ServerStep, copies, net, client, state, bids, ViewInv
<1>2. Carries
  <2>1. CASE \E to \in {"live", "paused", "finished"} : RemateMoves(to)
    BY <1>1, <2>1, RemateCarries
  <2>2. CASE \E l \in Lotes : OpenLote(l)
    BY <1>1, <2>2, OpenCarries
  <2>3. CASE \E l \in Lotes : Requeue(l)
    BY <1>1, <2>3, RequeueCarries
  <2>4. CASE \E l \in Lotes : RivalBids(l)
    <3>1. PICK l \in Lotes : RivalBids(l)
      BY <2>4
    <3>2. PICK a : Accept(l, FALSE, a, 0)
      BY <3>1 DEF RivalBids
    <3>3. Open(l)
      BY <3>1 DEF RivalBids, Refused, Open
    <3> QED  BY <1>1, <3>2, <3>3, AcceptCarries
  <2>5. CASE \E l \in Lotes : \E to \in {"closed_sold", "closed_unsold", "cancelled"} : EndLote(l, to)
    BY <1>1, <2>5, EndCarries
  <2>6. CASE \E l \in Lotes : \E to \in {"running", "paused"} : MoveTimer(l, to)
    BY <1>1, <2>6, TimerCarries
  <2> QED  BY <2>1, <2>2, <2>3, <2>4, <2>5, <2>6 DEF ServerStep
<1> QED  BY <1>1, <1>2, CopiesStay DEF ViewInv, PageShape

\* Steps that leave the server, its outbox and the room's messages alone, or only
\* drop or add what is no event.
LEMMA QuietCarries ==
    ASSUME ServerInv, UNCHANGED server, chan' \in Seq(Sent \cup Snapshot),
           \A m \in Elements(chan') : m \in Elements(chan) \/ m.type = "snapshot"
    PROVE  Carries
<1>1. Transit' \subseteq Transit
  BY DEF server, Transit, Elements
<1>2. \A q \in outbox' : q \in Seq(Sent) /\ q # <<>>
  BY DEF server, ServerInv, ServerShape
<1> QED  BY <1>1, <1>2, MovesCarry DEF server

LEMMA StillCarries ==
    ASSUME ServerInv, UNCHANGED server, UNCHANGED chan PROVE Carries
  BY QuietCarries DEF ServerInv, ServerShape

LEMMA EmptiedCarries ==
    ASSUME ServerInv, UNCHANGED server, chan' = <<>> PROVE Carries
  BY QuietCarries DEF Elements

LEMMA GatewayKeepsView ==
    ASSUME ViewInv, GatewayStep PROVE ViewInv'
<1>0. ServerInv /\ PageShape /\ Known
  BY DEF ViewInv
<1>1. CASE BuildSnapshot \/ LoteForSnapshot
  <2>1. /\ UNCHANGED server /\ UNCHANGED chan
        /\ UNCHANGED <<view, list, sync, listSync, page, lotes, cache, shown, reqs>>
        /\ \/ owed' = <<"remate", status, ver>>
           \/ owed[1] = "remate" /\ owed' = <<"lote", owed[2], owed[3], ActiveLote>>
    BY <1>1 DEF BuildSnapshot, LoteForSnapshot, ReadRemate, ReadLote, MissesCache, client, state, bids
  <2>2. Carries
    BY <1>0, <2>1, StillCarries
  <2>3. ASSUME NEW s, NEW k, HoldsStatus(s, k)' PROVE StatusKnown(s, k)
    BY <1>0, <2>1, <2>3, KnownNow DEF HoldsStatus, Known
  <2>4. ASSUME NEW d, NEW k, HoldsLote(d, k)' PROVE LoteKnown(d, k)
    <3> PICK found : found = ActiveLote
      OBVIOUS
    <3>1. LoteKnown(found, ver) /\ found.at = ver
      BY <1>0, KnownNow
    <3> QED  BY <1>0, <2>1, <2>4, <3>1 DEF HoldsLote, Known
  <2>5. /\ \A d, k : HoldsRaw(d, k)' => RawKnown(d, k)
        /\ \A d, k : HoldsView(d, k)' => ViewKnown(d, k)
        /\ \A x, k : HoldsList(x, k)' => ListKnown(x, k)
    BY <1>0, <2>1 DEF HoldsRaw, HoldsView, HoldsList, Known, Sends, Elements
  <2>6. Known'
    BY <1>0, <2>2, <2>3, <2>4, <2>5, KnownIf
  <2> QED  BY <1>0, <2>1, <2>2, <2>6 DEF ViewInv, Carries, PageShape
<1>2. CASE SendSnapshot
  <2> PICK raw : raw = RawOf(owed)
    OBVIOUS
  <2> PICK b : b = Built(owed, raw)
    OBVIOUS
  <2> PICK m : m = [type |-> "snapshot", at |-> b.at, data |-> b.data]
    OBVIOUS
  <2>1. StatusKnown(owed[2], owed[3]) /\ RawKnown(raw, raw.at)
    <3>1. HasRaw(owed) /\ owed[1] \in {"remate", "lote"}
      BY <1>2 DEF SendSnapshot, HasRaw
    <3>2. StatusKnown(owed[2], owed[3])
      BY <1>0, <3>1 DEF Known, HoldsStatus
    <3>3. owed[1] = "lote" => LoteKnown(owed[4], owed[4].at)
      BY <1>0 DEF Known, HoldsLote
    <3> QED  BY <3>1, <3>2, <3>3, RawOfKnown
  <2>2. ViewKnown(b.data, b.at)
    BY <2>1, BuiltKnown
  <2>3. chan' = Append(chan, m) /\ owed' = <<"no">> /\ cache' = raw
    BY <1>2 DEF SendSnapshot
  <2>4. m \in Snapshot /\ chan \in Seq(Sent \cup Snapshot)
    BY <1>0, <2>2 DEF Snapshot, ViewKnown, RawKnown, ServerInv, ServerShape
  <2>5. \A n \in Elements(chan') : n \in Elements(chan) \/ n = m
    BY <2>3, <2>4 DEF Elements
  <2>6. Carries
    BY <1>0, <1>2, <2>3, <2>4, <2>5, QuietCarries DEF SendSnapshot
  <2>7. ASSUME NEW d, NEW k, HoldsView(d, k)' PROVE ViewKnown(d, k)
    <3>1. HoldsView(d, k) \/ (d = m.data /\ k = m.at)
      BY <1>2, <2>5, <2>7 DEF SendSnapshot, HoldsView, Sends, client, state, Elements
    <3> QED  BY <1>0, <2>2, <3>1 DEF Known
  <2>8. /\ \A d, k : HoldsRaw(d, k)' => RawKnown(d, k)
        /\ \A d, k : HoldsLote(d, k)' => LoteKnown(d, k)
        /\ \A s, k : HoldsStatus(s, k)' => StatusKnown(s, k)
        /\ \A x, k : HoldsList(x, k)' => ListKnown(x, k)
    BY <1>0, <1>2, <2>1, <2>3
       DEF SendSnapshot, HoldsLote, HoldsRaw, HoldsStatus, HoldsList, Known, client, state
  <2>9. Known'
    BY <1>0, <2>6, <2>7, <2>8, KnownIf
  <2> QED  BY <1>0, <1>2, <2>6, <2>9 DEF ViewInv, Carries, PageShape, SendSnapshot, client, state, bids
<1>3. CASE JoinRoom \/ RefuseJoin \/ SnapshotFails
  <2>1. /\ UNCHANGED server /\ UNCHANGED chan
        /\ UNCHANGED <<view, list, sync, listSync, page, lotes, cache, shown, reqs>>
        /\ owed'[1] \notin {"remate", "lote"}
    BY <1>3 DEF JoinRoom, RefuseJoin, SnapshotFails, Asked, client, state, bids
  <2>2. Carries
    BY <1>0, <2>1, StillCarries
  <2>3. Known'
    BY <1>0, <2>1, <2>2, KnownIf DEF HoldsStatus, HoldsLote, HoldsRaw, HoldsView, HoldsList,
       Known, Sends, Elements
  <2> QED  BY <1>0, <2>1, <2>2, <2>3 DEF ViewInv, Carries, PageShape
<1>4. CASE ExpireCache
  <2>1. Carries
    BY <1>0, <1>4, StillCarries DEF ExpireCache, net
  <2>2. Known'
    BY <1>0, <1>4, <2>1, KnownIf DEF ExpireCache, HoldsStatus, HoldsLote, HoldsRaw, HoldsView, HoldsList,
       Known, net, client, state, Sends, Elements
  <2> QED  BY <1>0, <1>4, <2>1, <2>2 DEF ViewInv, Carries, PageShape, ExpireCache, client, state, bids
<1> QED  BY <1>1, <1>2, <1>3, <1>4 DEF GatewayStep

\* An event is forwarded, or dropped, or lost: none appears.
LEMMA BusThins ==
    ASSUME ServerInv, BusStep
    PROVE  /\ Carries /\ Transit' \subseteq Transit /\ \A m : Sends(m)' => Sends(m)
           /\ UNCHANGED <<view, list, sync, listSync, page, lotes, owed, cache, shown, reqs>>
<1> PICK q \in outbox : Publish(q) \/ LoseEvent(q)
  BY DEF BusStep
<1>1. /\ outbox' = Next1(q) /\ chan' \in {chan, Append(chan, Head(q))}
      /\ UNCHANGED <<ver, status, lot, round, ofertas>>
      /\ UNCHANGED <<view, list, sync, listSync, page, lotes, owed, cache, shown, reqs>>
  BY DEF Publish, LoseEvent, net, client, state, bids
<1>2. q \in Seq(Sent) /\ q # <<>> /\ chan \in Seq(Sent \cup Snapshot)
  BY DEF ServerInv, ServerShape
<1>3. /\ Head(q) \in Elements(q) /\ Head(q) \in Sent /\ Head(q).type # "snapshot"
      /\ Elements(Tail(q)) \subseteq Elements(q)
      /\ Len(q) > 1 => Tail(q) \in Seq(Sent) /\ Tail(q) # <<>>
  <2>1. 1 \in DOMAIN q /\ Head(q) = q[1] /\ Head(q) \in Sent
    BY <1>2
  <2>2. \A e \in Sent : e.type # "snapshot"
    BY DEF Sent, Event
  <2>3. \A i \in DOMAIN Tail(q) : i + 1 \in DOMAIN q /\ Tail(q)[i] = q[i + 1]
    BY <1>2
  <2>4. Tail(q) \in Seq(Sent) /\ Len(Tail(q)) = Len(q) - 1
    BY <1>2, HeadTailProperties
  <2>5. ASSUME Len(q) > 1 PROVE Tail(q) # <<>>
    <3> DEFINE r == Tail(q)
    <3>1. Len(q) \in Nat /\ Len(r) = Len(q) - 1
      BY <1>2, <2>4
    <3> HIDE DEF r
    <3>2. Len(r) # 0
      BY <2>5, <3>1
    <3>3. r # <<>>
      BY <3>2
    <3> QED  BY <3>3 DEF r
  <2> QED  BY <2>1, <2>2, <2>3, <2>4, <2>5 DEF Elements
<1>4. \A p \in outbox' : p \in outbox \/ (p = Tail(q) /\ Len(q) > 1)
  BY <1>1 DEF Next1
<1>5. \A m \in Elements(chan') : m \in Elements(chan) \/ m = Head(q)
  <2>1. CASE chan' = chan
    BY <2>1 DEF Elements
  <2>2. CASE chan' = Append(chan, Head(q))
    <3>1. Head(q) \in Sent \cup Snapshot
      BY <1>3
    <3>2. /\ Len(chan) \in Nat /\ DOMAIN chan = 1..Len(chan) /\ DOMAIN chan' = 1..Len(chan) + 1
          /\ \A i \in 1..Len(chan) : chan'[i] = chan[i]
          /\ chan'[Len(chan) + 1] = Head(q)
      BY <1>2, <2>2, <3>1, AppendProperties
    <3>3. \A i \in DOMAIN chan' : i \in DOMAIN chan \/ i = Len(chan) + 1
      BY <3>2
    <3> QED  BY <3>2, <3>3 DEF Elements
  <2> QED  BY <1>1, <2>1, <2>2
<1>6. ASSUME NEW e \in Transit' PROVE e \in Transit
  <2>1. CASE e \in Elements(chan')
    BY <1>3, <1>5, <2>1 DEF Transit
  <2>2. CASE e \notin Elements(chan')
    <3>1. PICK p \in outbox' : e \in Elements(p) /\ e.type # "snapshot"
      BY <2>2 DEF Transit, Elements
    <3> QED  BY <1>3, <1>4, <3>1 DEF Transit
  <2> QED  BY <2>1, <2>2
<1>7. Carries
  <2>1. \A p \in outbox' : p \in Seq(Sent) /\ p # <<>>
    BY <1>3, <1>4 DEF ServerInv, ServerShape
  <2>2. chan' \in Seq(Sent \cup Snapshot)
    BY <1>1, <1>2, <1>3
  <2>3. Transit' \subseteq Transit
    BY <1>6
  <2> QED  BY <1>1, <2>1, <2>2, <2>3, MovesCarry
<1>8. ASSUME NEW m, Sends(m)' PROVE Sends(m)
  BY <1>3, <1>5, <1>8 DEF Sends, Elements
<1> QED  BY <1>1, <1>6, <1>7, <1>8

LEMMA BusKeepsView ==
    ASSUME ViewInv, BusStep PROVE ViewInv'
<1>0. ServerInv /\ PageShape /\ Known
  BY DEF ViewInv
<1>1. /\ Carries /\ \A m : Sends(m)' => Sends(m)
      /\ UNCHANGED <<view, list, sync, listSync, page, lotes, owed, cache, shown, reqs>>
  BY <1>0, BusThins
<1>2. Known'
  BY <1>0, <1>1, KnownIf DEF HoldsStatus, HoldsLote, HoldsRaw, HoldsView, HoldsList, Known
<1> QED  BY <1>0, <1>1, <1>2 DEF ViewInv, Carries, PageShape

LEMMA SocketKeepsView ==
    ASSUME ViewInv, SocketStep PROVE ViewInv'
<1>0. ServerInv /\ PageShape /\ Known
  BY DEF ViewInv
<1>1. /\ UNCHANGED <<view, list, sync, listSync, page, lotes, cache, shown, reqs>>
      /\ UNCHANGED server
      /\ owed' \in {owed, <<"join">>, <<"no">>} /\ chan' \in {chan, <<>>}
  BY DEF SocketStep, Connected, Drop, Reconnect, Gone, client, state, bids
<1>2. Carries
  BY <1>0, <1>1, StillCarries, EmptiedCarries
<1>3. Known'
  <2>1. \A m : Sends(m)' => Sends(m)
    BY <1>1 DEF Sends, Elements
  <2>2. owed' = owed \/ owed'[1] \notin {"remate", "lote"}
    BY <1>1
  <2> QED  BY <1>0, <1>1, <1>2, <2>1, <2>2, KnownIf
          DEF HoldsStatus, HoldsLote, HoldsRaw, HoldsView, HoldsList, Known
<1> QED  BY <1>0, <1>1, <1>2, <1>3 DEF ViewInv, Carries, PageShape

\* Steps of the requests, which leave the server and the messages of the room alone.
LEMMA PageKeepsView ==
    ASSUME ViewInv, PageStep PROVE ViewInv'
<1>0. ServerInv /\ PageShape /\ Known
  BY DEF ViewInv
<1>1. /\ UNCHANGED <<owed, chan, shown, reqs>> /\ UNCHANGED server
  BY DEF PageStep, BuildPage, LoteForPage, ServePage, PageArrives, PageFails, Reload, ServeLotes, LotesArrive,
     net, bids
<1>2. Carries
  BY <1>0, <1>1, StillCarries
<1>3. \A m : Sends(m)' => Sends(m)
  BY <1>1 DEF Sends, Elements
<1> USE DEF Asked, ReadRemate
<1>4. CASE BuildPage \/ LoteForPage
  <2>1. /\ UNCHANGED <<view, list, sync, listSync, lotes, cache>>
        /\ \/ page' = <<"remate", status, ver>>
           \/ page[1] = "remate" /\ page' = <<"lote", page[2], page[3], ActiveLote>>
    BY <1>4 DEF BuildPage, LoteForPage, MissesCache, ReadLote, state
  <2>2. ASSUME NEW s, NEW k, HoldsStatus(s, k)' PROVE StatusKnown(s, k)
    BY <1>0, <1>1, <2>1, <2>2, KnownNow DEF HoldsStatus, Known
  <2>3. ASSUME NEW d, NEW k, HoldsLote(d, k)' PROVE LoteKnown(d, k)
    <3> PICK found : found = ActiveLote
      OBVIOUS
    <3>1. LoteKnown(found, ver) /\ found.at = ver
      BY <1>0, KnownNow
    <3> QED  BY <1>0, <1>1, <2>1, <2>3, <3>1 DEF HoldsLote, Known
  <2>4. Known'
    BY <1>0, <1>1, <1>2, <1>3, <2>1, <2>2, <2>3, KnownIf DEF HoldsRaw, HoldsView, HoldsList, Known
  <2> QED  BY <1>0, <1>1, <1>2, <2>1, <2>4 DEF ViewInv, Carries, PageShape
<1>5. CASE ServePage
  <2> PICK raw : raw = RawOf(page)
    OBVIOUS
  <2> PICK b : b = Built(page, raw)
    OBVIOUS
  <2>1. /\ UNCHANGED <<view, list, sync, listSync, lotes>> /\ page' = <<"answer", b>> /\ cache' = raw
        /\ HasRaw(page) /\ page[1] \in {"remate", "lote"}
    BY <1>5 DEF ServePage, HasRaw, state
  <2>2. StatusKnown(page[2], page[3]) /\ RawKnown(raw, raw.at)
    <3>1. StatusKnown(page[2], page[3])
      BY <1>0, <2>1 DEF Known, HoldsStatus
    <3>2. page[1] = "lote" => LoteKnown(page[4], page[4].at)
      BY <1>0 DEF Known, HoldsLote
    <3> QED  BY <2>1, <3>1, <3>2, RawOfKnown
  <2>3. ViewKnown(b.data, b.at)
    BY <2>2, BuiltKnown
  <2>4. ASSUME NEW d, NEW k, HoldsView(d, k)' PROVE ViewKnown(d, k)
    BY <1>0, <1>3, <2>1, <2>3, <2>4 DEF Known, HoldsView
  <2>5. /\ \A s, k : HoldsStatus(s, k)' => StatusKnown(s, k)
        /\ \A d, k : HoldsLote(d, k)' => LoteKnown(d, k)
        /\ \A d, k : HoldsRaw(d, k)' => RawKnown(d, k)
        /\ \A x, k : HoldsList(x, k)' => ListKnown(x, k)
    BY <1>0, <1>1, <2>1, <2>2 DEF Known, HoldsStatus, HoldsLote, HoldsRaw, HoldsList
  <2>6. Known'
    BY <1>0, <1>2, <2>4, <2>5, KnownIf
  <2> QED  BY <1>0, <1>1, <1>2, <2>1, <2>6 DEF ViewInv, Carries, PageShape
<1>6. CASE PageArrives
  <2>1. /\ UNCHANGED <<list, listSync, lotes, cache>> /\ page' = <<"done">> /\ page[1] = "answer"
        /\ view' = page[2].data /\ sync'.at = page[2].at
    BY <1>6 DEF PageArrives
  <2>2. ViewKnown(page[2].data, page[2].at)
    BY <1>0, <2>1 DEF Known, HoldsView
  <2>3. Known'
    BY <1>0, <1>1, <1>2, <1>3, <2>1, <2>2, KnownIf
       DEF HoldsStatus, HoldsLote, HoldsRaw, HoldsView, HoldsList, Known
  <2> QED  BY <1>0, <1>1, <1>2, <2>1, <2>2, <2>3 DEF ViewInv, Carries, PageShape, ViewKnown
<1>7. CASE PageFails \/ Reload
  <2>1. /\ UNCHANGED <<view, list, sync, listSync, lotes, cache>>
        /\ page' \in {<<"asked", "none", 0>>, <<"failed">>}
    BY <1>7 DEF PageFails, Reload, state
  <2>2. Known'
    BY <1>0, <1>1, <1>2, <1>3, <2>1, KnownIf
       DEF HoldsStatus, HoldsLote, HoldsRaw, HoldsView, HoldsList, Known
  <2> QED  BY <1>0, <1>1, <1>2, <2>1, <2>2 DEF ViewInv, Carries, PageShape
<1>8. CASE ServeLotes
  <2>1. /\ UNCHANGED <<view, list, sync, listSync, page, cache>>
        /\ lotes' = <<"answer", [at |-> ver, data |-> lot]>>
    BY <1>8 DEF ServeLotes, state
  <2>2. Known'
    BY <1>0, <1>1, <1>2, <1>3, <2>1, KnownIf, KnownNow
       DEF HoldsStatus, HoldsLote, HoldsRaw, HoldsView, HoldsList, Known
  <2> QED  BY <1>0, <1>1, <1>2, <2>1, <2>2 DEF ViewInv, Carries, PageShape
<1>9. CASE LotesArrive
  <2>1. /\ UNCHANGED <<view, sync, page, cache>> /\ lotes' = <<"done">> /\ lotes[1] = "answer"
        /\ list' = lotes[2].data /\ listSync'.at = lotes[2].at
    BY <1>9 DEF LotesArrive
  <2>2. ListKnown(lotes[2].data, lotes[2].at)
    BY <1>0, <2>1 DEF Known, HoldsList
  <2>3. Known'
    BY <1>0, <1>1, <1>2, <1>3, <2>1, <2>2, KnownIf
       DEF HoldsStatus, HoldsLote, HoldsRaw, HoldsView, HoldsList, Known
  <2> QED  BY <1>0, <1>1, <1>2, <2>1, <2>2, <2>3 DEF ViewInv, Carries, PageShape, ListKnown
<1> QED  BY <1>4, <1>5, <1>6, <1>7, <1>8, <1>9 DEF PageStep

\* What the reducer leaves is a snapshot and a list.
LEMMA TakenType ==
    ASSUME ServerShape, NEW e \in Sent, NEW d \in View, NEW x \in Catalog \cup {NoList}
    PROVE  /\ ApplyToView(d, e, x) \in View
           /\ ApplyToLotes(x, e) \in Catalog \cup {NoList}
           /\ x \in Catalog => ApplyToLotes(x, e) \in Catalog
           /\ x \notin Catalog => ApplyToLotes(x, e) = x
<1>1. /\ e.type \in {"remate", "lote.opened", "lote.closed", "lote.cancelled",
                     "lote.requeued", "lote.timer", "oferta.accepted"}
      /\ e.type = "remate" => e.arg \in Statused
      /\ e.type # "remate" => e.lote \in Lotes
      /\ e.type = "lote.closed" => e.arg \in {"closed_sold", "closed_unsold"}
      /\ e.type = "lote.timer" => e.arg \in TimerState
      /\ e.oferta \in Nat
  BY DEF Sent, Event
<1>2. ASSUME NEW l \in Lotes PROVE x[l].timer \in TimerState
  <2>1. x \in Catalog => x[l] \in [status : ListStatus \ {"absent"}, timer : TimerState]
    BY <1>2 DEF Catalog
  <2>2. x = NoList => x[l].timer = "none"
    BY <1>2 DEF NoList
  <2> QED  BY <2>1, <2>2 DEF TimerState
<1>3. ApplyToView(d, e, x) \in View
  <2>1. CASE e.type = "remate"
    BY <1>1, <2>1, Patched DEF View, Statused
  <2>2. CASE e.type = "lote.opened"
    <3>1. ApplyToView(d, e, x) = Opened(d, e, x)
      BY <2>2, Patched
    <3>2. e.lote \in Lotes /\ x[e.lote].timer \in TimerState
      BY <1>1, <1>2, <2>2
    <3>3. [d EXCEPT !.lote = e.lote, !.timer = x[e.lote].timer, !.winner = 0] \in View
      BY <3>2 DEF View
    <3> QED  BY <3>1, <3>3 DEF Opened
  <2>3. CASE e.type \in Ends
    <3>1. ApplyToView(d, e, x) = Ended(d, e)
      BY <2>3, Patched
    <3> QED  BY <3>1 DEF Ended, View, TimerState
  <2>4. CASE e.type = "lote.timer"
    <3>1. ApplyToView(d, e, x) = TimerMoved(d, e)
      BY <2>4, Patched
    <3> QED  BY <1>1, <2>4, <3>1 DEF TimerMoved, View
  <2>5. CASE e.type = "oferta.accepted"
    BY <1>1, <2>5, Patched DEF Accepted, View
  <2>6. CASE e.type = "lote.requeued"
    BY <2>6, Patched
  <2> QED  BY <1>1, <2>1, <2>2, <2>3, <2>4, <2>5, <2>6 DEF Ends
<1>4. CASE e.type \in {"remate", "oferta.accepted"}
  BY <1>3, <1>4, PatchedList
<1>5. CASE e.type \notin {"remate", "oferta.accepted"}
  <2>1. e.lote \in Lotes
    BY <1>1, <1>5
  <2>2. PICK s \in ListStatus \ {"absent"}, t \in TimerState :
           ApplyToLotes(x, e) = PatchLote(x, e.lote, s, t) \/ x \notin Catalog
    <3>1. x \in Catalog => x[e.lote].status \in ListStatus \ {"absent"}
      BY <2>1 DEF Catalog
    <3>2. x[e.lote].timer \in TimerState
      BY <1>2, <2>1
    <3> QED  BY <1>1, <1>5, <3>1, <3>2, PatchedList DEF ListStatus, TimerState
  <2>3. CASE x \in Catalog
    <3>1. [x EXCEPT ![e.lote] = [status |-> s, timer |-> t]] \in Catalog
      BY <2>3 DEF Catalog
    <3> QED  BY <1>3, <2>2, <2>3, <3>1 DEF PatchLote
  <2>4. CASE x \notin Catalog
    <3>1. x[e.lote].status = "absent"
      BY <2>1, <2>4 DEF NoList
    <3>2. \A s1, t1 : PatchLote(x, e.lote, s1, t1) = x
      BY <3>1 DEF PatchLote
    <3>3. ApplyToLotes(x, e) = x
      BY <1>1, <1>5, <3>2, PatchedList
    <3> QED  BY <1>3, <2>4, <3>3
  <2> QED  BY <2>3, <2>4
<1> QED  BY <1>4, <1>5

LEMMA Followed ==
    ASSUME NEW s, NEW e, Follow(s, e).at >= 0, e.v \in Nat
    PROVE  /\ s.at >= 0 /\ Follow(s, e).at = e.v
           /\ s.at \in Nat => e.v <= s.at + 1
  BY DEF Follow, Lost

\* A view that has followed the server and still does took the next event of the room,
\* or an older one.
LEMMA DeliverTakes ==
    ASSUME ViewInv, Deliver, NEW e, e = Head(chan), e.type # "snapshot", sync'.at >= 0,
           view.status # "none"
    PROVE  /\ e \in Transit /\ e \in Sent /\ e.v \in 1..ver /\ sync'.at = e.v
           /\ sync.at \in 0..ver /\ e.v <= sync.at + 1 /\ ViewKnown(view, sync.at)
           /\ \E x \in Catalog : view' = ApplyToView(view, e, x)
<1>0. ServerInv /\ PageShape /\ Known
  BY DEF ViewInv
<1>1. /\ e \in Transit /\ e \in Sent /\ e.v \in 1..ver /\ ver \in Nat
  <2>1. chan \in Seq(Sent \cup Snapshot) /\ chan # <<>>
    BY <1>0 DEF Deliver, ServerInv, ServerShape
  <2>2. e \in Elements(chan)
    BY <2>1 DEF Elements
  <2> QED  BY <1>0, <2>2, TransitType DEF Transit, ServerInv, ServerShape, Numbered
<1>2. /\ view' = ApplyToView(view, e, list)
      /\ sync' = IF e.type = "lote.opened" /\ list = NoList THEN Lost ELSE Follow(sync, e)
  BY DEF Deliver, DeliverEvent
<1>3. /\ view \in View /\ list \in Catalog \cup {NoList} /\ lot \in Catalog
  BY <1>0 DEF PageShape, ServerInv, ServerShape
<1>4. sync' = Follow(sync, e) /\ ~(e.type = "lote.opened" /\ list = NoList)
  BY <1>2 DEF Lost
<1>5. sync.at >= 0 /\ sync'.at = e.v
  BY <1>1, <1>4, Followed
<1>6. ViewKnown(view, sync.at) /\ sync.at \in 0..ver
  BY <1>0, <1>5 DEF Known, HoldsView, ViewKnown, RawKnown
<1>7. e.v <= sync.at + 1
  BY <1>1, <1>4, <1>6, Followed
<1>8. \E x \in Catalog : view' = ApplyToView(view, e, x)
  <2>1. CASE list \in Catalog
    BY <1>2, <2>1
  <2>2. CASE list = NoList
    <3>1. e.type \in {"remate", "lote.closed", "lote.cancelled",
                      "lote.requeued", "lote.timer", "oferta.accepted"}
      BY <1>1, <1>4, <2>2 DEF Sent, Event
    <3>2. ApplyToView(view, e, list) = ApplyToView(view, e, lot)
      BY <3>1, Patched DEF Ends
    <3> QED  BY <1>2, <1>3, <3>2
  <2> QED  BY <1>3, <2>1, <2>2
<1> QED  BY <1>1, <1>5, <1>6, <1>7, <1>8

\* Deliver takes one message of the room, an event or a snapshot.
LEMMA DeliverKeepsView ==
    ASSUME ViewInv, Deliver PROVE ViewInv'
<1>0. ServerInv /\ PageShape /\ Known
  BY DEF ViewInv
<1> PICK e : e = Head(chan)
  OBVIOUS
<1>1. /\ UNCHANGED <<owed, page, lotes, cache, shown, reqs>> /\ UNCHANGED server
      /\ chan # <<>> /\ chan' = Tail(chan)
      /\ IF e.type = "snapshot" THEN DeliverSnapshot(e) ELSE DeliverEvent(e)
  BY DEF Deliver, bids
<1>2. /\ e \in Elements(chan) /\ e \in Sent \cup Snapshot
      /\ chan' \in Seq(Sent \cup Snapshot) /\ Elements(chan') \subseteq Elements(chan)
  <2>1. chan \in Seq(Sent \cup Snapshot)
    BY <1>0 DEF ServerInv, ServerShape
  <2>2. 1 \in DOMAIN chan /\ e = chan[1]
    BY <1>1, <2>1
  <2>3. \A i \in DOMAIN Tail(chan) : i + 1 \in DOMAIN chan /\ Tail(chan)[i] = chan[i + 1]
    BY <2>1
  <2> QED  BY <1>1, <2>1, <2>2, <2>3 DEF Elements
<1>3. Carries
  BY <1>0, <1>1, <1>2, QuietCarries
<1>4. \A m : Sends(m)' => Sends(m)
  BY <1>2 DEF Sends, Elements
<1>5. /\ \A s, k : HoldsStatus(s, k)' => StatusKnown(s, k)
      /\ \A d, k : HoldsLote(d, k)' => LoteKnown(d, k)
      /\ \A d, k : HoldsRaw(d, k)' => RawKnown(d, k)
  BY <1>0, <1>1 DEF HoldsStatus, HoldsLote, HoldsRaw, Known
<1>6. CASE e.type = "snapshot"
  <2>1. /\ view' = e.data /\ sync'.at = e.at /\ UNCHANGED <<list, listSync>>
    BY <1>1, <1>6 DEF DeliverSnapshot
  <2>2. ViewKnown(e.data, e.at)
    BY <1>0, <1>2, <1>6 DEF Known, HoldsView, Sends
  <2>3. \A d, k : HoldsView(d, k)' => ViewKnown(d, k)
    BY <1>0, <1>1, <1>4, <2>1, <2>2 DEF HoldsView, Known
  <2>4. \A x, k : HoldsList(x, k)' => ListKnown(x, k)
    BY <1>0, <1>1, <2>1 DEF HoldsList, Known
  <2>5. Known'
    BY <1>0, <1>3, <1>5, <2>3, <2>4, KnownIf
  <2> QED  BY <1>0, <1>1, <1>3, <2>1, <2>2, <2>5 DEF ViewInv, Carries, PageShape, ViewKnown
<1>7. CASE e.type # "snapshot"
  <2>1. /\ e \in Transit /\ e \in Sent /\ e.v \in 1..ver /\ ver \in Nat
    BY <1>0, <1>2, <1>7, TransitType DEF Transit, ServerInv, ServerShape, Numbered
  <2>2. /\ list' = ApplyToLotes(list, e)
        /\ listSync' = IF list = NoList THEN listSync ELSE Follow(listSync, e)
        /\ IF view.status = "none" THEN UNCHANGED <<view, sync>>
           ELSE /\ view' = ApplyToView(view, e, list)
                /\ sync' = IF e.type = "lote.opened" /\ list = NoList THEN Lost ELSE Follow(sync, e)
    BY <1>1, <1>7 DEF DeliverEvent
  <2>3. /\ view \in View /\ list \in Catalog \cup {NoList} /\ lot \in Catalog /\ ServerShape
    BY <1>0 DEF PageShape, ServerInv, ServerShape
  <2>4. view' \in View /\ list' \in Catalog \cup {NoList}
    BY <2>1, <2>2, <2>3, TakenType
  <2>5. ASSUME NEW d, NEW k, sync'.at >= 0, d = view', k = sync'.at PROVE ViewKnown(d, k)
    <3>1. CASE view.status = "none"
      <4>1. HoldsView(d, k)
        BY <2>2, <2>5, <3>1 DEF HoldsView
      <4> QED  BY <1>0, <4>1 DEF Known
    <3>2. CASE view.status # "none"
      <4>1. /\ k = e.v /\ e.v <= sync.at + 1 /\ ViewKnown(view, sync.at)
            /\ \E x \in Catalog : d = ApplyToView(view, e, x)
        BY <1>7, <2>5, <3>2, DeliverTakes
      <4>2. PICK x \in Catalog : d = ApplyToView(view, e, x)
        BY <4>1
      <4>3. sync.at \in 0..ver /\ RawOK(view, sync.at) /\ StatusOK(view.status, sync.at)
            /\ view.status \in Statused
        BY <4>1 DEF ViewKnown, RawKnown, StatusKnown
      <4>4. RawOK(d, k)
        BY <1>0, <2>1, <2>3, <4>1, <4>2, <4>3, RawTaken
      <4>5. d.status = IF e.type = "remate" THEN e.arg ELSE view.status
        <5>1. e.type \in {"remate", "lote.opened", "lote.closed", "lote.cancelled",
                          "lote.requeued", "lote.timer", "oferta.accepted"}
          BY <2>1 DEF Sent, Event
        <5>2. CASE e.type = "remate"
          BY <2>3, <4>2, <5>2, Patched DEF View
        <5>3. CASE e.type \in {"lote.opened", "oferta.accepted", "lote.requeued"}
          <6>1. d \in {Opened(view, e, x), Accepted(view, e), view}
            BY <4>2, <5>3, Patched
          <6> QED  BY <2>3, <5>3, <6>1 DEF View, Opened, Accepted
        <5>4. CASE e.type \in {"lote.closed", "lote.cancelled", "lote.timer"}
          <6>1. d \in {Ended(view, e), TimerMoved(view, e)}
            BY <4>2, <5>4, Patched DEF Ends
          <6> QED  BY <2>3, <5>4, <6>1 DEF View, Ended, TimerMoved
        <5> QED  BY <5>1, <5>2, <5>3, <5>4
      <4>6. d.status \in Statused
        BY <2>1, <4>3, <4>5 DEF Sent
      <4>7. StatusOK(d.status, k)
        BY <1>0, <2>1, <4>1, <4>3, <4>5, StatusTaken
      <4> QED  BY <2>1, <2>4, <2>5, <4>1, <4>4, <4>6, <4>7
               DEF ViewKnown, RawKnown, StatusKnown, View
    <3> QED  BY <3>1, <3>2
  <2>6. ASSUME NEW x, NEW k, listSync'.at >= 0, x = list', k = listSync'.at PROVE ListKnown(x, k)
    <3>1. CASE list = NoList
      <4>1. list' = list
        <5>1. CASE e.type \in {"remate", "oferta.accepted"}
          BY <2>2, <5>1, PatchedList
        <5>2. CASE e.type \notin {"remate", "oferta.accepted"}
          <6>1. e.lote \in Lotes
            BY <2>1, <5>2 DEF Sent
          <6>2. NoList[e.lote].status = "absent"
            BY <6>1 DEF NoList
          <6>3. list \notin Catalog
            BY <3>1, <6>1, <6>2 DEF Catalog
          <6> QED  BY <2>1, <2>2, <2>3, <6>3, TakenType
        <5> QED  BY <5>1, <5>2
      <4>2. HoldsList(x, k)
        BY <2>2, <2>6, <3>1, <4>1 DEF HoldsList
      <4> QED  BY <1>0, <4>2 DEF Known
    <3>2. CASE list # NoList
      <4>1. listSync.at >= 0 /\ k = e.v
        BY <2>1, <2>2, <2>6, <3>2, Followed
      <4>2. ListKnown(list, listSync.at)
        BY <1>0, <4>1 DEF Known, HoldsList
      <4>3. listSync.at \in 0..ver /\ list \in Catalog /\ ListOK(list, listSync.at)
        BY <4>2 DEF ListKnown
      <4>4. e.v <= listSync.at + 1
        BY <2>1, <2>2, <2>6, <3>2, <4>3, Followed
      <4>5. ListOK(x, k)
        BY <1>0, <2>1, <2>2, <2>6, <4>1, <4>3, <4>4, ListTaken
      <4>6. x \in Catalog
        BY <2>1, <2>2, <2>3, <2>6, <4>3, TakenType
      <4> QED  BY <2>1, <4>1, <4>5, <4>6 DEF ListKnown
    <3> QED  BY <3>1, <3>2
  <2>7. \A d, k : HoldsView(d, k)' => ViewKnown(d, k)
    BY <1>0, <1>1, <1>4, <2>5 DEF HoldsView, Known
  <2>8. \A x, k : HoldsList(x, k)' => ListKnown(x, k)
    BY <1>0, <1>1, <2>6 DEF HoldsList, Known
  <2>9. Known'
    BY <1>0, <1>3, <1>5, <2>7, <2>8, KnownIf
  <2> QED  BY <1>0, <1>1, <1>3, <2>4, <2>9 DEF ViewInv, Carries, PageShape
<1> QED  BY <1>6, <1>7

LEMMA ScreenKeepsView ==
    ASSUME BidInv, ViewInv, ScreenStep PROVE ViewInv'
<1>0. ServerInv /\ PageShape /\ Known
  BY DEF ViewInv
<1>1. CASE Deliver
  BY <1>1, DeliverKeepsView
<1>2. CASE Render
  <2>1. UNCHANGED server /\ UNCHANGED copies /\ UNCHANGED chan /\ shown' = view
    BY <1>2 DEF Render, copies, net, state
  <2>2. \A r \in reqs' : r.lote \in Lotes
    <3>1. CASE Mounted(view)
      BY <1>0, <1>2, <3>1 DEF Render, PageShape
    <3>2. CASE ~Mounted(view)
      <4>1. reqs' = {[r EXCEPT !.form = FALSE] : r \in reqs}
        BY <1>2, <3>2 DEF Render
      <4>2. PICK U : reqs \subseteq Bid(U)
        BY DEF BidInv, Typed
      <4>3. \A r \in reqs : [r EXCEPT !.form = FALSE].lote = r.lote
        BY <4>2 DEF Bid
      <4> QED  BY <1>0, <4>1, <4>3 DEF PageShape
    <3> QED  BY <3>1, <3>2
  <2> QED  BY <1>0, <2>1, <2>2, StillCarries, CopiesStay DEF PageShape
<1>3. CASE Continue
  <2>1. UNCHANGED server /\ UNCHANGED copies /\ UNCHANGED chan /\ UNCHANGED <<shown, reqs>>
    BY <1>3 DEF Continue, copies, net, state, bids
  <2> QED  BY <1>0, <2>1, StillCarries, CopiesStay DEF PageShape
<1>4. CASE Leave
  <2>1. /\ UNCHANGED <<view, list, sync, listSync, page, lotes, cache, shown, reqs>>
        /\ UNCHANGED server /\ owed' = <<"no">> /\ chan' = <<>>
    BY <1>4 DEF Leave, Disconnect, Gone, state, bids
  <2>2. Carries
    BY <1>0, <2>1, EmptiedCarries
  <2>3. Known'
    <3>1. \A m : Sends(m)' => Sends(m)
      BY <2>1 DEF Sends, Elements
    <3> QED  BY <1>0, <2>1, <2>2, <3>1, KnownIf
            DEF HoldsStatus, HoldsLote, HoldsRaw, HoldsView, HoldsList, Known
  <2> QED  BY <1>0, <2>1, <2>2, <2>3 DEF ViewInv, Carries, PageShape
<1> QED  BY <1>1, <1>2, <1>3, <1>4 DEF ScreenStep

\* A bid of the buyer is served like a rival's, or leaves a row that leads nothing.
LEMMA ServeKeepsView ==
    ASSUME BidInv, ViewInv, NEW r \in reqs, ServeBid(r) PROVE ViewInv'
<1>0. ServerInv /\ ServerShape /\ PageShape /\ r.lote \in Lotes
  BY DEF ViewInv, ServerInv, PageShape
<1>1. UNCHANGED copies /\ UNCHANGED chan /\ UNCHANGED shown
  BY DEF ServeBid, copies, net, client, state
<1>2. \A q \in reqs' : q.lote \in Lotes
  <2>1. PICK a : Answered(r, a)
    BY DEF ServeBid
  <2>2. PICK U : reqs \subseteq Bid(U)
    BY DEF BidInv, Typed
  <2>3. [r EXCEPT !.answer = a].lote = r.lote
    BY <2>2 DEF Bid
  <2> QED  BY <1>0, <2>1, <2>3 DEF Answered, PageShape
<1>3. CASE UNCHANGED server
  BY <1>0, <1>1, <1>2, <1>3, StillCarries, CopiesStay DEF PageShape
<1>4. CASE ~ UNCHANGED server /\ Refused(r.lote, r.amount)
  <2> DEFINE row == [lote |-> r.lote, mine |-> TRUE, amount |-> r.amount, token |-> r.token,
                     status |-> "rejected"]
  <2>1. ofertas' = Append(ofertas, row) /\ UNCHANGED <<status, lot, round, ver, outbox>>
    BY <1>4 DEF ServeBid
  <2>2. PICK U : ofertas \in Seq(Row(U))
    BY <1>0 DEF ServerShape
  <2>3. PICK V : U \subseteq V /\ r.lote \in V /\ r.amount \in V
    <3> WITNESS U \cup {r.lote, r.amount}
    <3> QED  OBVIOUS
  <2>4. ofertas \in Seq(Row(V))
    BY <2>2, <2>3, RowsOver
  <2>5. r.token \in Nat
    BY DEF BidInv, Typed, Bid
  <2>6. row \in Row(V) /\ row.status = "rejected"
    BY <2>3, <2>5 DEF Row, OfertaStatus
  <2> HIDE DEF row
  <2>7. ofertas' \in Seq(Row(V))
    BY <2>1, <2>4, <2>6
  <2>8. /\ DOMAIN ofertas \subseteq DOMAIN ofertas'
        /\ \A i \in DOMAIN ofertas : ofertas'[i] = ofertas[i]
        /\ \A i \in DOMAIN ofertas' \ DOMAIN ofertas : ofertas'[i] = row
    BY <2>1, <2>4, <2>6
  <2>9. \A m : Leader(m)' = Leader(m)
    BY <2>6, <2>8, SameLeaders
  <2>10. Transit' \subseteq Transit
    BY <1>1, <2>1 DEF Transit, Elements
  <2>11. ServerShape'
    BY <1>0, <1>1, <2>1, <2>7 DEF ServerShape
  <2>12. Floor'
    <3>1. ASSUME NEW i \in DOMAIN ofertas', NEW j \in DOMAIN ofertas',
                 ofertas'[i].status = "accepted", ofertas'[j].status = "accepted",
                 ofertas'[i].lote = ofertas'[j].lote
          PROVE  i = j
      BY <1>0, <2>6, <2>8, <3>1 DEF ServerInv, Floor
    <3> QED  BY <1>0, <2>1, <2>9, <3>1 DEF ServerInv, Floor, Open
  <2>13. Carries
    BY <1>0, <2>1, <2>9, <2>10, <2>11, <2>12, ThinCarries
  <2> QED  BY <1>0, <1>1, <1>2, <2>13, CopiesStay DEF PageShape
<1>5. CASE ~ UNCHANGED server /\ ~Refused(r.lote, r.amount)
  <2>1. Accept(r.lote, TRUE, r.amount, r.token)
    BY <1>5 DEF ServeBid
  <2>2. Open(r.lote)
    BY <1>5 DEF Refused, Open
  <2>3. r.token \in Nat
    BY DEF BidInv, Typed, Bid
  <2>4. Carries
    BY <1>0, <1>1, <2>1, <2>2, <2>3, AcceptCarries
  <2> QED  BY <1>0, <1>1, <1>2, <2>4, CopiesStay DEF PageShape
<1> QED  BY <1>3, <1>4, <1>5

LEMMA BidKeepsView ==
    ASSUME BidInv, ViewInv, BidStep PROVE ViewInv'
<1>0. ServerInv /\ PageShape
  BY DEF ViewInv
<1>1. ASSUME NEW r \in reqs, ServeBid(r) PROVE ViewInv'
  BY <1>1, ServeKeepsView
<1>2. CASE Submit \/ (\E a \in 1..plan.amount : Touch(a)) \/ \E r \in reqs : GiveUp(r) \/ Answer(r)
  <2>1. UNCHANGED server /\ UNCHANGED copies /\ UNCHANGED chan /\ UNCHANGED shown
    BY <1>2 DEF Submit, Touch, GiveUp, Answer, copies, net, client, state
  <2>2. ASSUME NEW q \in reqs' PROVE q.lote \in Lotes
    <3>1. CASE Submit
      <4>1. shown.lote \in Lotes
        BY <1>0, <3>1 DEF Submit, CanBid, Mounted, PageShape, View
      <4> QED  BY <1>0, <2>2, <3>1, <4>1 DEF Submit, PageShape
    <3>2. CASE \E a \in 1..plan.amount : Touch(a)
      BY <1>0, <2>2, <3>2 DEF Touch, PageShape
    <3>3. CASE \E r \in reqs : GiveUp(r) \/ Answer(r)
      <4>1. PICK r \in reqs : GiveUp(r) \/ Answer(r)
        BY <3>3
      <4>2. PICK U : reqs \subseteq Bid(U)
        BY DEF BidInv, Typed
      <4>3. [r EXCEPT !.waiting = FALSE, !.form = FALSE].lote = r.lote
        BY <4>1, <4>2 DEF Bid
      <4> QED  BY <1>0, <2>2, <4>1, <4>3 DEF GiveUp, Answer, PageShape
    <3> QED  BY <1>2, <3>1, <3>2, <3>3
  <2> QED  BY <1>0, <2>1, <2>2, StillCarries, CopiesStay DEF PageShape
<1> QED  BY <1>1, <1>2 DEF BidStep

LEMMA InitView == ASSUME Init PROVE ViewInv
<1>1. /\ status \in Statused /\ ver = 0 /\ outbox = {} /\ chan = <<>> /\ ofertas = <<>>
      /\ round = [l \in Lotes |-> 1] /\ Transit = {} /\ \A l : Leader(l) = 0
  BY DEF Init, Statused, RoomStatus, Transit, Elements, Leader
<1>2. PICK w : Enters \/ Watches(w)
  BY DEF Init
<1>3. lot \in Catalog /\ \A l, m \in Lotes : Open(l) /\ Open(m) => l = m
  BY <1>2 DEF Enters, Watches, Catalog, ListStatus, TimerState, Open
<1>4. ServerShape
  <2>1. ofertas \in Seq(Row({})) /\ chan \in Seq(Sent \cup Snapshot)
    BY <1>1
  <2> QED  BY <1>1, <1>3, <2>1 DEF ServerShape
<1>5. ServerInv
  BY <1>1, <1>3, <1>4 DEF ServerInv, Numbered, Floor
<1>6. cache = NoCache /\ owed[1] \notin {"remate", "lote"} /\ shown = view /\ reqs = {}
      /\ (\A m : ~Sends(m)) /\ page[1] \notin {"remate", "lote", "answer"} /\ lotes[1] # "answer"
  BY <1>1, <1>2 DEF Init, Sends, Elements, Enters, Watches, Asked
<1>7. CASE Enters
  <2>1. view = NoView /\ list = NoList /\ sync.at = -1 /\ listSync.at = -1
    BY <1>7 DEF Enters, Lost
  <2> QED  BY <1>5, <1>6, <2>1 DEF ViewInv, PageShape, Known, HoldsStatus, HoldsLote, HoldsRaw, HoldsView,
           HoldsList, View, NoView, RoomStatus, TimerState
<1>8. CASE Watches(w)
  <2>1. /\ view = [status |-> status, lote |-> Raw.lote, timer |-> Raw.timer, winner |-> Raw.winner]
        /\ list = lot /\ sync.at = 0 /\ listSync.at = 0
    BY <1>6, <1>8 DEF Watches, Built, ReadRemate
  <2>2. StatusKnown(status, 0) /\ RawKnown(Raw, 0) /\ ListKnown(lot, 0)
    BY <1>1, <1>5, KnownNow
  <2>3. view \in View /\ view.status = status
        /\ view.lote = Raw.lote /\ view.timer = Raw.timer /\ view.winner = Raw.winner
    BY <1>1, <2>1, <2>2 DEF View, RawKnown, Statused
  <2>4. RawKnown(view, 0)
    BY <2>2, <2>3 DEF RawKnown, RawOK
  <2>5. ViewKnown(view, 0)
    BY <2>2, <2>3, <2>4 DEF ViewKnown
  <2> QED  BY <1>3, <1>5, <1>6, <2>1, <2>2, <2>3, <2>5 DEF ViewInv, PageShape, Known, HoldsStatus,
           HoldsLote, HoldsRaw, HoldsView, HoldsList
<1> QED  BY <1>2, <1>7, <1>8

LEMMA StepKeepsView ==
    ASSUME BidInv, ViewInv, [Next]_vars PROVE ViewInv'
<1>1. CASE UNCHANGED vars
  <2>1. UNCHANGED server /\ UNCHANGED copies /\ UNCHANGED chan /\ UNCHANGED <<shown, reqs>>
    BY <1>1 DEF vars, copies, net, client, state, bids
  <2> QED  BY <2>1, StillCarries, CopiesStay DEF ViewInv, PageShape
<1> QED  BY <1>1, ServerKeepsView, GatewayKeepsView, BusKeepsView, SocketKeepsView, PageKeepsView,
         ScreenKeepsView, BidKeepsView DEF Next

\* The copies of the page, of its requests and of the Gateway, and the rows of the bids.
THEOREM Follows == Spec => [](BidInv /\ ViewInv)
<1>1. Init => BidInv /\ ViewInv
  BY InitBid, InitView
<1>2. BidInv /\ ViewInv /\ [Next]_vars => (BidInv /\ ViewInv)'
  BY StepKeepsBids, StepKeepsView
<1> QED  BY <1>1, <1>2, PTL DEF Spec

\* A copy as old as the last commit has nothing to wait for.
LEMMA UpToDate ==
    ASSUME ServerInv
    PROVE  /\ Covered(ver)
           /\ \A types : ~LaterAny(ver, types)
           /\ \A types, l : ~Later(ver, types, l)
  BY DEF ServerInv, ServerShape, Numbered, Covered, LaterAny, Later

LEMMA RawIs ==
    ASSUME ServerInv
    PROVE  \/ (\A m \in Lotes : ~Open(m)) /\ Raw.lote = NoLote
           \/ /\ Raw.lote \in Lotes /\ Open(Raw.lote)
              /\ Raw.timer = lot[Raw.lote].timer /\ Raw.winner = Leader(Raw.lote)
<1>1. CASE OpenLotes = {}
  <2>1. ActiveLote = [at |-> ver, lote |-> NoLote, timer |-> "none"]
    BY <1>1 DEF ActiveLote
  <2>2. Raw.lote = NoLote
    BY <2>1 DEF Raw, WithLeader
  <2> QED  BY <1>1, <2>2 DEF OpenLotes, Open
<1>2. CASE OpenLotes # {}
  <2>1. PICK l : l = CHOOSE m \in OpenLotes : TRUE
    OBVIOUS
  <2>2. l \in Lotes /\ Open(l)
    BY <1>2, <2>1 DEF OpenLotes, Open
  <2>3. ActiveLote = [at |-> ver, lote |-> l, timer |-> lot[l].timer]
    BY <1>2, <2>1 DEF ActiveLote
  <2>4. Raw.lote = l /\ Raw.timer = lot[l].timer /\ Raw.winner = Leader(l)
    BY <2>2, <2>3, PlansAssumption DEF Raw, WithLeader
  <2> QED  BY <2>2, <2>4
<1> QED  BY <1>1, <1>2

LEMMA ViewIsCurrent == ASSUME ViewInv PROVE CompleteViewIsCurrent
<1> SUFFICES ASSUME sync.at = ver
             PROVE  /\ view.status = status
                    /\ view.lote = Raw.lote
                    /\ view.lote # NoLote =>
                          /\ view.timer = Raw.timer
                          /\ view.winner # Raw.winner => round[view.lote] > 1
  BY DEF CompleteViewIsCurrent
<1>1. ServerInv /\ ver \in Nat
  BY DEF ViewInv, ServerInv, ServerShape
<1>2. HoldsView(view, ver)
  BY <1>1 DEF HoldsView
<1>3. StatusOK(view.status, ver) /\ RawOK(view, ver) /\ view.lote \in Lotes \cup {NoLote}
  BY <1>2 DEF ViewInv, Known, ViewKnown, StatusKnown, RawKnown
<1>4. /\ view.lote # NoLote => Open(view.lote)
      /\ \A m \in Lotes : Open(m) => /\ view.lote = m /\ view.timer = lot[m].timer
                                     /\ view.winner = Leader(m) \/ round[m] > 1
  BY <1>1, <1>3, UpToDate DEF RawOK
<1>5. view.status = status
  BY <1>1, <1>3, UpToDate DEF StatusOK
<1> QED  BY <1>1, <1>3, <1>4, <1>5, RawIs

LEMMA ListIsCurrent == ASSUME ViewInv PROVE CompleteListIsCurrent
<1> SUFFICES ASSUME listSync.at = ver PROVE list = lot
  BY DEF CompleteListIsCurrent
<1>1. ServerInv /\ ver \in Nat /\ lot \in Catalog
  BY DEF ViewInv, ServerInv, ServerShape
<1>2. ListKnown(list, ver)
  BY <1>1 DEF HoldsList, ViewInv, Known
<1>3. list \in Catalog /\ \A l \in Lotes : list[l].status = lot[l].status /\ list[l].timer = lot[l].timer
  BY <1>1, <1>2, UpToDate DEF ListKnown, ListOK
<1>4. ASSUME NEW l \in Lotes PROVE list[l] = lot[l]
  <2>1. /\ list[l] \in [status : ListStatus \ {"absent"}, timer : TimerState]
        /\ lot[l] \in [status : ListStatus \ {"absent"}, timer : TimerState]
    BY <1>1, <1>3 DEF Catalog
  <2>2. \A a, b \in [status : ListStatus \ {"absent"}, timer : TimerState] :
           a.status = b.status /\ a.timer = b.timer => a = b
    OBVIOUS
  <2> QED  BY <1>3, <2>1, <2>2
<1> QED  BY <1>1, <1>3, <1>4 DEF Catalog

\* A page that got every event since its snapshot shows what the server has: build of
\* the snapshot, the order in which the server publishes and applyDomainEventToSnapshot.
THEOREM CompleteViewsAreCurrent == Spec => []CompleteViewIsCurrent
  BY Follows, ViewIsCurrent, PTL

\* The same of the list of lotes: GET lotes and applyDomainEventToLotes.
THEOREM CompleteListsAreCurrent == Spec => []CompleteListIsCurrent
  BY Follows, ListIsCurrent, PTL

------------------------------------------------------------------------------
(* The rows the page points at.                                             *)

\* An oferta a page may point at: none, or a row that was accepted.
Placed(w) == w = 0 \/ (w \in DOMAIN ofertas /\ ofertas[w].status # "rejected")

LEMMA StepKeepsRows ==
    ASSUME BidInv, [Next]_vars PROVE RowsKept
<1>1. PICK U : Typed(U)
  BY DEF BidInv
<1>2. ASSUME NEW l, NEW mine \in BOOLEAN, NEW a, NEW token \in Nat, Accept(l, mine, a, token)
      PROVE  RowsKept
  <2>1. PICK V : U \subseteq V /\ l \in V /\ a \in V
    <3> WITNESS U \cup {l, a}
    <3> QED  OBVIOUS
  <2> QED  BY <1>1, <1>2, <2>1, RowsOver, AcceptKeepsRows DEF Typed
<1>3. ASSUME NEW row, ofertas' = Append(ofertas, row) PROVE RowsKept
  <2>1. ofertas \in Seq(Row(U))
    BY <1>1 DEF Typed
  <2>2. \A i \in DOMAIN ofertas : i \in DOMAIN ofertas' /\ ofertas'[i] = ofertas[i]
    BY <1>3, <2>1
  <2> QED  BY <2>2 DEF RowsKept
<1>4. CASE UNCHANGED ofertas
  BY <1>4 DEF RowsKept
<1>5. CASE ServerStep
  <2>1. CASE \E l \in Lotes : RivalBids(l)
    BY <1>2, <2>1 DEF RivalBids
  <2>2. CASE ~ \E l \in Lotes : RivalBids(l)
    BY <1>4, <1>5, <2>2 DEF ServerStep, RemateMoves, OpenLote, EndLote, Requeue, MoveTimer
  <2> QED  BY <2>1, <2>2
<1>6. ASSUME NEW r \in reqs, ServeBid(r) PROVE RowsKept
  <2>1. r.token \in Nat
    BY <1>1 DEF Typed, Bid
  <2> QED  BY <1>2, <1>3, <1>4, <1>6, <2>1 DEF ServeBid, server
<1>7. CASE ~ServerStep /\ ~ \E r \in reqs : ServeBid(r)
  BY <1>4, <1>7 DEF Next, vars, server, GatewayStep, JoinRoom, RefuseJoin,
     BuildSnapshot, LoteForSnapshot, SendSnapshot, SnapshotFails, ExpireCache, BusStep, Publish, LoseEvent, SocketStep, Connected, Drop, Reconnect, PageStep,
     BuildPage, LoteForPage, ServePage, PageArrives, PageFails, Reload, ServeLotes, LotesArrive, ScreenStep,
     Deliver, Render, Continue, Leave, BidStep, Submit, Touch, GiveUp, Answer
<1> QED  BY <1>5, <1>6, <1>7

\* The ofertas that a view, a snapshot or an event points at.
HoldsWinner(w) ==
    \/ w = view.winner \/ w = shown.winner
    \/ cache # NoCache /\ w = cache.winner
    \/ page[1] = "answer" /\ w = page[2].data.winner
    \/ \E m : Sends(m) /\ w = m.data.winner
    \/ \E e \in Transit : w = e.oferta

Pointed == \A w : HoldsWinner(w) => Placed(w)

LEMMA PlacedKept == ASSUME RowsKept, NEW w, Placed(w) PROVE Placed(w)'
  BY DEF RowsKept, Placed

LEMMA LeaderPlaced == ASSUME ServerShape, NEW l PROVE Placed(Leader(l))
<1>1. Leader(l) # 0 => Leader(l) \in DOMAIN ofertas /\ ofertas[Leader(l)].status = "accepted"
  BY LeaderIs
<1> QED  BY <1>1 DEF Placed

LEMMA RawOfPlaced == ASSUME ServerInv, Pointed, NEW read, HasRaw(read) PROVE Placed(RawOf(read).winner)
<1>1. CASE read[1] = "lote"
  <2>1. RawOf(read).winner = 0 \/ RawOf(read).winner = Leader(read[4].lote)
    BY <1>1 DEF RawOf, WithLeader
  <2> QED  BY <2>1, LeaderPlaced DEF Placed, ServerInv
<1>2. CASE read[1] # "lote"
  BY <1>2 DEF HasRaw, RawOf, Pointed, HoldsWinner
<1> QED  BY <1>1, <1>2

LEMMA PointedIf ==
    ASSUME RowsKept, \A w : HoldsWinner(w)' => Placed(w) \/ Placed(w)'
    PROVE  Pointed'
  BY PlacedKept DEF Pointed

LEMMA PublishedBy ==
    ASSUME NEW events, Publishes(events), UNCHANGED chan
    PROVE  \A e \in Transit' : e \in Transit \/ e \in Elements(events)
<1>1. outbox' = outbox \cup {events}
  BY DEF Publishes
<1> QED  BY <1>1 DEF Transit, Elements

\* An accepted bid is a row one may point at.
LEMMA AcceptPoints ==
    ASSUME ServerShape, Pointed, RowsKept, NEW l \in Lotes, NEW mine \in BOOLEAN, NEW amount, NEW token \in Nat,
           Accept(l, mine, amount, token), UNCHANGED <<view, shown, cache, page, chan>>
    PROVE  Pointed'
<1> PICK e : e = Ev(1, "oferta.accepted", l, "none", Len(ofertas) + 1)
  OBVIOUS
<1>1. Publishes(<<e>>) /\ e.oferta = Len(ofertas) + 1
  BY DEF Accept, Ev
<1>2. \A f \in Transit' : f \in Transit \/ f = e
  BY <1>1, PublishedBy DEF Elements
<1>3. Placed(e.oferta)'
  <2>1. PICK U : ofertas \in Seq(Row(U))
    BY DEF ServerShape
  <2>2. PICK V : U \subseteq V /\ l \in V /\ amount \in V
    <3> WITNESS U \cup {l, amount}
    <3> QED  OBVIOUS
  <2>3. /\ ofertas' \in Seq(Row(V)) /\ Len(ofertas') = Len(ofertas) + 1
        /\ ofertas'[Len(ofertas')] = [lote |-> l, mine |-> mine, amount |-> amount,
                                      token |-> token, status |-> "accepted"]
    BY <2>1, <2>2, RowsOver, AcceptKeepsRows
  <2>4. Len(ofertas') \in DOMAIN ofertas' /\ ofertas'[Len(ofertas')].status = "accepted"
    BY <2>1, <2>3
  <2> QED  BY <1>1, <2>3, <2>4 DEF Placed
<1>4. ASSUME NEW w, HoldsWinner(w)' PROVE HoldsWinner(w) \/ w = e.oferta
  BY <1>2, <1>4 DEF HoldsWinner, Sends, Elements
<1>5. ASSUME NEW w, HoldsWinner(w)' PROVE Placed(w) \/ Placed(w)'
  BY <1>3, <1>4, <1>5 DEF Pointed
<1> QED  BY <1>5, PointedIf

LEMMA ServerPoints ==
    ASSUME ServerInv, Pointed, RowsKept, ServerStep PROVE Pointed'
<1>1. UNCHANGED <<view, shown, cache, page, chan>>
  BY DEF ServerStep, net, client, state
<1>2. CASE \E l \in Lotes : RivalBids(l)
  BY <1>1, <1>2, AcceptPoints DEF RivalBids, ServerInv
<1>3. CASE ~ \E l \in Lotes : RivalBids(l)
  <2>1. PICK events : Publishes(events) /\ \A e \in Elements(events) : e.oferta = 0
    <3>1. CASE \E l \in Lotes : OpenLote(l)
      BY <3>1 DEF OpenLote, Elements, Ev
    <3>2. CASE ~ \E l \in Lotes : OpenLote(l)
      <4>1. PICK t, l, a : Publishes(<<Ev(1, t, l, a, 0)>>)
        BY <1>3, <3>2 DEF ServerStep, RemateMoves, Requeue, EndLote, MoveTimer
      <4>2. \A e \in Elements(<<Ev(1, t, l, a, 0)>>) : e.oferta = 0
        BY DEF Elements, Ev
      <4> QED  BY <4>1, <4>2
    <3> QED  BY <3>1, <3>2
  <2>2. \A e \in Transit' : e \in Transit \/ e.oferta = 0
    BY <1>1, <2>1, PublishedBy
  <2>3. ASSUME NEW w, HoldsWinner(w)' PROVE HoldsWinner(w) \/ w = 0
    BY <1>1, <2>2, <2>3 DEF HoldsWinner, Sends, Elements
  <2>4. \A w : HoldsWinner(w)' => Placed(w)
    BY <2>3 DEF Pointed, Placed
  <2> QED  BY <2>4, PointedIf
<1> QED  BY <1>2, <1>3

\* Messages of the room are taken or one snapshot is added: no event appears.
LEMMA QuietThins ==
    ASSUME UNCHANGED server,
           \A m \in Elements(chan') : m \in Elements(chan) \/ m.type = "snapshot"
    PROVE  Transit' \subseteq Transit
  BY DEF server, Transit, Elements

LEMMA BuiltWinner == ASSUME NEW read, NEW raw PROVE Built(read, raw).data.winner = raw.winner
  BY DEF Built

LEMMA GatewayPoints ==
    ASSUME ServerInv, Pointed, RowsKept, GatewayStep PROVE Pointed'
<1>1. UNCHANGED <<view, shown, page>> /\ UNCHANGED server
  BY DEF GatewayStep, JoinRoom, RefuseJoin,
     BuildSnapshot, LoteForSnapshot, SendSnapshot, SnapshotFails, ExpireCache, net, client, state
<1>2. CASE SendSnapshot
  <2> PICK raw : raw = RawOf(owed)
    OBVIOUS
  <2> PICK m : m = [type |-> "snapshot", at |-> Built(owed, raw).at, data |-> Built(owed, raw).data]
    OBVIOUS
  <2>1. chan' = Append(chan, m) /\ cache' = raw /\ m.type = "snapshot" /\ HasRaw(owed)
    BY <1>2 DEF SendSnapshot
  <2>2. Placed(raw.winner) /\ m.data.winner = raw.winner
    BY <2>1, RawOfPlaced, BuiltWinner
  <2>3. \A n \in Elements(chan') : n \in Elements(chan) \/ n = m
    <3>1. chan \in Seq(Sent \cup Snapshot)
      BY DEF ServerInv, ServerShape
    <3> QED  BY <2>1, <3>1 DEF Elements
  <2>4. Transit' \subseteq Transit
    BY <1>1, <2>1, <2>3, QuietThins
  <2>5. ASSUME NEW w, HoldsWinner(w)' PROVE HoldsWinner(w) \/ w = raw.winner
    <3>1. \A n : Sends(n)' => Sends(n) \/ n = m
      BY <2>3 DEF Sends, Elements
    <3> QED  BY <1>1, <2>1, <2>2, <2>4, <2>5, <3>1 DEF HoldsWinner
  <2> QED  BY <2>2, <2>5, PointedIf DEF Pointed
<1>3. CASE ~SendSnapshot
  <2>1. UNCHANGED chan /\ cache' \in {cache, NoCache}
    BY <1>3 DEF GatewayStep, JoinRoom, RefuseJoin, BuildSnapshot, LoteForSnapshot, SnapshotFails, ExpireCache, net
  <2>2. Transit' \subseteq Transit
    BY <1>1, <2>1, QuietThins
  <2>3. ASSUME NEW w, HoldsWinner(w)' PROVE HoldsWinner(w)
    BY <1>1, <2>1, <2>2, <2>3 DEF HoldsWinner, Sends, Elements
  <2> QED  BY <2>3, PointedIf DEF Pointed
<1> QED  BY <1>2, <1>3

LEMMA PagePoints ==
    ASSUME ServerInv, Pointed, RowsKept, PageStep PROVE Pointed'
<1>1. UNCHANGED <<shown, chan>> /\ UNCHANGED server
  BY DEF PageStep, BuildPage, LoteForPage, ServePage, PageArrives, PageFails, Reload, ServeLotes, LotesArrive, net
<1>2. Transit' \subseteq Transit /\ (\A m : Sends(m)' => Sends(m))
  BY <1>1, QuietThins DEF Sends, Elements
<1>3. CASE ServePage
  <2> PICK raw : raw = RawOf(page)
    OBVIOUS
  <2> PICK b : b = Built(page, raw)
    OBVIOUS
  <2>1. /\ page' = <<"answer", b>> /\ cache' = raw /\ UNCHANGED view /\ HasRaw(page)
    BY <1>3 DEF ServePage, state
  <2>2. Placed(raw.winner) /\ b.data.winner = raw.winner
    BY <2>1, RawOfPlaced, BuiltWinner
  <2>3. ASSUME NEW w, HoldsWinner(w)' PROVE HoldsWinner(w) \/ w = raw.winner
    BY <1>1, <1>2, <2>1, <2>2, <2>3 DEF HoldsWinner
  <2> QED  BY <2>2, <2>3, PointedIf DEF Pointed
<1>4. CASE PageArrives
  <2>1. page' = <<"done">> /\ UNCHANGED cache /\ view' = page[2].data /\ page[1] = "answer"
    BY <1>4 DEF PageArrives
  <2>2. ASSUME NEW w, HoldsWinner(w)' PROVE HoldsWinner(w)
    BY <1>1, <1>2, <2>1, <2>2 DEF HoldsWinner
  <2> QED  BY <2>2, PointedIf DEF Pointed
<1>5. CASE ~ServePage /\ ~PageArrives
  <2>1. UNCHANGED <<cache, view>> /\ (page' = page \/ page'[1] # "answer")
    BY <1>5 DEF PageStep, BuildPage, LoteForPage, PageFails, Reload, ServeLotes, LotesArrive, state,
       Asked, ReadRemate, ReadLote
  <2>2. ASSUME NEW w, HoldsWinner(w)' PROVE HoldsWinner(w)
    BY <1>1, <1>2, <2>1, <2>2 DEF HoldsWinner
  <2> QED  BY <2>2, PointedIf DEF Pointed
<1> QED  BY <1>3, <1>4, <1>5

LEMMA TakenWinner ==
    ASSUME NEW e \in Sent, NEW d \in View, NEW x
    PROVE  ApplyToView(d, e, x).winner \in {d.winner, 0, e.oferta}
<1>1. e.type \in {"remate", "lote.opened", "lote.closed", "lote.cancelled",
                  "lote.requeued", "lote.timer", "oferta.accepted"}
  BY DEF Sent, Event
<1>2. ApplyToView(d, e, x) \in {[d EXCEPT !.status = e.arg], Opened(d, e, x), Ended(d, e),
                                TimerMoved(d, e), Accepted(d, e), d}
  BY <1>1, Patched DEF Ends
<1>3. Opened(d, e, x).winner \in {d.winner, 0}
  BY DEF Opened, View
<1> QED  BY <1>2, <1>3 DEF View, Ended, TimerMoved, Accepted

LEMMA ScreenPoints ==
    ASSUME ViewInv, Pointed, RowsKept, ScreenStep PROVE Pointed'
<1>1. UNCHANGED <<cache, page>> /\ UNCHANGED server
  BY DEF ScreenStep, Deliver, Render, Continue, Leave, bids, net
<1>2. CASE Deliver
  <2> PICK e : e = Head(chan)
    OBVIOUS
  <2>1. chan \in Seq(Sent \cup Snapshot) /\ chan # <<>> /\ chan' = Tail(chan)
        /\ UNCHANGED shown /\ view \in View
    BY <1>2 DEF Deliver, ViewInv, ServerInv, ServerShape, PageShape
  <2>2. e \in Elements(chan) /\ e \in Sent \cup Snapshot
    BY <2>1 DEF Elements
  <2>3. Elements(chan') \subseteq Elements(chan)
    BY <2>1 DEF Elements
  <2>4. Transit' \subseteq Transit /\ (\A m : Sends(m)' => Sends(m))
    BY <1>1, <2>3, QuietThins DEF Sends, Elements
  <2>5. HoldsWinner(view'.winner) \/ view'.winner = 0
    <3>1. CASE e.type = "snapshot"
      BY <1>2, <2>2, <3>1 DEF Deliver, DeliverSnapshot, HoldsWinner, Sends
    <3>2. CASE e.type # "snapshot"
      <4>1. e \in Sent /\ e \in Transit
        BY <2>2, <3>2 DEF Snapshot, Transit
      <4>2. view' \in {view, ApplyToView(view, e, list)}
        BY <1>2, <3>2 DEF Deliver, DeliverEvent
      <4>3. view'.winner \in {view.winner, 0, e.oferta}
        BY <2>1, <4>1, <4>2, TakenWinner
      <4> QED  BY <4>1, <4>3 DEF HoldsWinner
    <3> QED  BY <3>1, <3>2
  <2>6. ASSUME NEW w, HoldsWinner(w)' PROVE HoldsWinner(w) \/ w = view'.winner
    BY <1>1, <2>1, <2>4, <2>6 DEF HoldsWinner
  <2>7. \A w : HoldsWinner(w)' => Placed(w)
    BY <2>5, <2>6 DEF Pointed, Placed
  <2> QED  BY <2>7, PointedIf
<1>3. CASE ~Deliver
  <2>1. UNCHANGED view /\ shown' \in {shown, view} /\ chan' \in {chan, <<>>}
    BY <1>3 DEF ScreenStep, Render, Continue, Leave, Disconnect, Gone, state, net
  <2>2. Transit' \subseteq Transit /\ (\A m : Sends(m)' => Sends(m))
    BY <1>1, <2>1, QuietThins DEF Sends, Elements
  <2>3. ASSUME NEW w, HoldsWinner(w)' PROVE HoldsWinner(w)
    BY <1>1, <2>1, <2>2, <2>3 DEF HoldsWinner
  <2> QED  BY <2>3, PointedIf DEF Pointed
<1> QED  BY <1>2, <1>3

\* The form and the socket point at nothing new; a row that is served may.
LEMMA BidPoints ==
    ASSUME BidInv, ViewInv, Pointed, RowsKept, BidStep \/ SocketStep \/ UNCHANGED vars PROVE Pointed'
<1>1. UNCHANGED <<view, shown, cache, page>>
  BY DEF BidStep, Submit, Touch, ServeBid, GiveUp, Answer, SocketStep, Connected, Drop, Reconnect,
     vars, client, state
<1>2. CASE \E r \in reqs : ServeBid(r) /\ Accept(r.lote, TRUE, r.amount, r.token)
  <2>1. PICK r \in reqs : ServeBid(r) /\ Accept(r.lote, TRUE, r.amount, r.token)
    BY <1>2
  <2>2. r.token \in Nat /\ r.lote \in Lotes /\ UNCHANGED chan
    BY <2>1 DEF BidInv, Typed, Bid, ViewInv, PageShape, ServeBid, net
  <2> QED  BY <1>1, <2>1, <2>2, AcceptPoints DEF ViewInv, ServerInv
<1>3. CASE ~ \E r \in reqs : ServeBid(r) /\ Accept(r.lote, TRUE, r.amount, r.token)
  <2>1. UNCHANGED outbox /\ chan' \in {chan, <<>>}
    BY <1>3 DEF BidStep, Submit, Touch, ServeBid, GiveUp, Answer, SocketStep, Connected, Drop,
       Reconnect, Gone, vars, server, net
  <2>2. Transit' \subseteq Transit /\ (\A m : Sends(m)' => Sends(m))
    BY <2>1 DEF Transit, Elements, Sends
  <2>3. ASSUME NEW w, HoldsWinner(w)' PROVE HoldsWinner(w)
    BY <1>1, <2>2, <2>3 DEF HoldsWinner
  <2> QED  BY <2>3, PointedIf DEF Pointed
<1> QED  BY <1>2, <1>3

LEMMA StepPoints ==
    ASSUME BidInv, ViewInv, Pointed, [Next]_vars PROVE Pointed'
<1>1. RowsKept /\ ServerInv
  BY StepKeepsRows DEF ViewInv
<1>2. CASE BusStep
  <2>1. /\ Transit' \subseteq Transit /\ (\A m : Sends(m)' => Sends(m))
        /\ UNCHANGED <<view, page, cache, shown>>
    BY <1>1, <1>2, BusThins
  <2>2. ASSUME NEW w, HoldsWinner(w)' PROVE HoldsWinner(w)
    BY <2>1, <2>2 DEF HoldsWinner
  <2> QED  BY <1>1, <2>2, PointedIf DEF Pointed
<1> QED  BY <1>1, <1>2, ServerPoints, GatewayPoints, PagePoints, ScreenPoints, BidPoints DEF Next

------------------------------------------------------------------------------
(* Amounts, and what the form takes them from.                              *)

\* In a lote every bid accepted beat the one before: the bids that were outbid are
\* below the one that leads, and there is one that leads.
Ladder ==
    /\ \A i \in DOMAIN ofertas : ofertas[i].amount \in Nat \ {0}
    /\ \A i, j \in DOMAIN ofertas :
         /\ ofertas[i].lote = ofertas[j].lote
         /\ ofertas[i].status = "outbid" /\ ofertas[j].status = "accepted"
         => ofertas[i].amount < ofertas[j].amount
    /\ \A m : (\E i \in DOMAIN ofertas : ofertas[i].lote = m /\ ofertas[i].status = "outbid")
              => Leader(m) # 0

\* A bid of an amount that was suggested asks one more than the offer it was shown,
\* which was not the buyer's own.
Asked1(r) == ~r.touched => /\ r.amount = Amount(r.seen) + 1
                           /\ Placed(r.seen) /\ (r.seen # 0 => ~ofertas[r.seen].mine)
Asks == \A r \in reqs : r.amount \in Nat \ {0} /\ Asked1(r)

\* "Te superaron" is not on the screen of who leads it.
Overtaken == form.outbid => ~Mine(shown)

FormInv == plan.amount \in Nat /\ Pointed /\ Ladder /\ Asks /\ Overtaken

LEMMA AcceptClimbs ==
    ASSUME ServerShape, Floor, Ladder, NEW l \in Lotes, NEW mine \in BOOLEAN,
           NEW amount \in Nat \ {0}, NEW token \in Nat,
           Accept(l, mine, amount, token), amount >= Amount(Leader(l)) + 1
    PROVE  Ladder'
<1>1. PICK U : ofertas \in Seq(Row(U))
  BY DEF ServerShape
<1>2. PICK V : U \subseteq V /\ l \in V /\ amount \in V
  <2> WITNESS U \cup {l, amount}
  <2> QED  OBVIOUS
<1> DEFINE n == Len(ofertas) + 1
<1>3. /\ RowsKept /\ Outbids(l) /\ Len(ofertas') = n /\ ofertas' \in Seq(Row(V))
      /\ ofertas'[n] = [lote |-> l, mine |-> mine, amount |-> amount,
                        token |-> token, status |-> "accepted"]
  <2>1. ofertas \in Seq(Row(V)) /\ l \in V /\ amount \in V
    BY <1>1, <1>2, RowsOver
  <2> HIDE DEF n
  <2>2. /\ RowsKept /\ Outbids(l) /\ Len(ofertas') = Len(ofertas) + 1 /\ ofertas' \in Seq(Row(V))
        /\ ofertas'[Len(ofertas) + 1] = [lote |-> l, mine |-> mine, amount |-> amount,
                                         token |-> token, status |-> "accepted"]
    BY <2>1, AcceptKeepsRows
  <2> QED  BY <2>2 DEF n
<1>4. /\ DOMAIN ofertas' = DOMAIN ofertas \cup {n}
      /\ ofertas'[n].lote = l /\ ofertas'[n].amount = amount /\ ofertas'[n].status = "accepted"
  <2>1. Len(ofertas) \in Nat /\ DOMAIN ofertas = 1..Len(ofertas)
    BY <1>1
  <2>2. DOMAIN ofertas' = 1..n
    BY <1>3
  <2>3. 1..n = 1..Len(ofertas) \cup {n}
    BY <2>1
  <2>4. DOMAIN ofertas' = DOMAIN ofertas \cup {n}
    BY <2>1, <2>2, <2>3
  <2> QED  BY <1>3, <2>4
<1> HIDE DEF n
<1>5. \A i \in DOMAIN ofertas :
        /\ ofertas'[i].lote = ofertas[i].lote /\ ofertas'[i].amount = ofertas[i].amount
        /\ ofertas'[i].status = IF i = Leader(l) THEN "outbid" ELSE ofertas[i].status
  BY <1>3 DEF RowsKept, Outbids
<1>6. /\ Leader(l) # 0 => /\ Leader(l) \in DOMAIN ofertas
                          /\ ofertas[Leader(l)].lote = l /\ ofertas[Leader(l)].status = "accepted"
                          /\ ofertas[Leader(l)].amount < amount
      /\ \A i \in DOMAIN ofertas : ofertas[i].lote = l /\ ofertas[i].status = "accepted" => i = Leader(l)
      /\ \A i \in DOMAIN ofertas : i = Leader(l) => ofertas[i].lote = l /\ ofertas[i].amount < amount
  <2>0. 0 \notin DOMAIN ofertas
    BY <1>1
  <2>1. Leader(l) # 0 => /\ Leader(l) \in DOMAIN ofertas
                         /\ ofertas[Leader(l)].lote = l /\ ofertas[Leader(l)].status = "accepted"
    BY LeaderIs
  <2>2. \A i \in DOMAIN ofertas : ofertas[i].lote = l /\ ofertas[i].status = "accepted" => Leader(l) # 0
    BY LeaderIs
  <2>3. Leader(l) # 0 => ofertas[Leader(l)].amount < amount
    BY <2>1 DEF Amount, Ladder
  <2> QED  BY <2>0, <2>1, <2>2, <2>3 DEF Floor
<1>7. \A i \in DOMAIN ofertas : i # Leader(l) /\ ofertas[i].status = "outbid" /\ ofertas[i].lote = l
                                => ofertas[i].amount < amount
  <2>1. SUFFICES ASSUME NEW i \in DOMAIN ofertas, ofertas[i].status = "outbid", ofertas[i].lote = l
                 PROVE  ofertas[i].amount < amount
    OBVIOUS
  <2>2. Leader(l) # 0
    BY <2>1 DEF Ladder
  <2>3. ofertas[i].amount < ofertas[Leader(l)].amount
    BY <1>6, <2>1, <2>2 DEF Ladder
  <2> QED  BY <1>6, <2>1, <2>2, <2>3 DEF Ladder
<1>8. ASSUME NEW i \in DOMAIN ofertas', NEW j \in DOMAIN ofertas',
             ofertas'[i].lote = ofertas'[j].lote,
             ofertas'[i].status = "outbid", ofertas'[j].status = "accepted"
      PROVE  ofertas'[i].amount < ofertas'[j].amount
  <2>1. i \in DOMAIN ofertas
    BY <1>4, <1>8
  <2>2. CASE j = n
    <3>1. ofertas[i].lote = l /\ ofertas'[j].amount = amount
      BY <1>4, <1>5, <1>8, <2>1, <2>2
    <3>2. ofertas[i].amount < amount
      <4>1. CASE i = Leader(l)
        BY <1>6, <2>1, <4>1
      <4>2. CASE i # Leader(l)
        BY <1>5, <1>7, <1>8, <2>1, <3>1, <4>2
      <4> QED  BY <4>1, <4>2
    <3> QED  BY <1>5, <2>1, <3>1, <3>2
  <2>3. CASE j # n
    <3>1. j \in DOMAIN ofertas /\ j # Leader(l) /\ ofertas[j].status = "accepted"
      BY <1>4, <1>5, <1>8, <2>3
    <3>2. ofertas[j].lote # l
      BY <1>6, <3>1
    <3>3. ofertas[i].lote = ofertas[j].lote
      BY <1>5, <1>8, <2>1, <3>1
    <3>4. i # Leader(l)
      BY <1>6, <2>1, <3>2, <3>3
    <3>5. ofertas[i].status = "outbid"
      BY <1>5, <1>8, <2>1, <3>4
    <3> QED  BY <1>5, <2>1, <3>1, <3>3, <3>5 DEF Ladder
  <2> QED  BY <2>2, <2>3
<1>9. ASSUME NEW m, NEW i \in DOMAIN ofertas', ofertas'[i].lote = m, ofertas'[i].status = "outbid"
      PROVE  Leader(m)' # 0
  <2>1. /\ Leader(l)' = Len(ofertas) + 1 /\ Len(ofertas) \in Nat
        /\ m # l => Leader(m)' = Leader(m)
    BY <1>1, AcceptLeads
  <2>2. i \in DOMAIN ofertas /\ m = ofertas[i].lote
    BY <1>4, <1>5, <1>9
  <2>3. m # l => i # Leader(l)
    BY <1>6, <2>2
  <2>4. m # l => Leader(m) # 0
    BY <1>5, <1>9, <2>2, <2>3 DEF Ladder
  <2> QED  BY <2>1, <2>4
<1>10. \A i \in DOMAIN ofertas' : ofertas'[i].amount \in Nat \ {0}
  BY <1>4, <1>5 DEF Ladder
<1> QED  BY <1>8, <1>9, <1>10 DEF Ladder

\* A bid that was refused is on no rung.
LEMMA RefusalClimbs ==
    ASSUME ServerShape, Ladder, NEW row, row.status = "rejected", row.amount \in Nat \ {0},
           ofertas' = Append(ofertas, row)
    PROVE  Ladder'
<1>1. PICK U : ofertas \in Seq(Row(U))
  BY DEF ServerShape
<1>2. /\ DOMAIN ofertas \subseteq DOMAIN ofertas'
      /\ \A i \in DOMAIN ofertas : ofertas'[i] = ofertas[i]
      /\ \A i \in DOMAIN ofertas' \ DOMAIN ofertas : ofertas'[i] = row
  BY <1>1
<1>3. \A m : Leader(m)' = Leader(m)
  BY <1>2, SameLeaders
<1>4. \A i \in DOMAIN ofertas' : i \in DOMAIN ofertas \/ ofertas'[i] = row
  BY <1>2
<1>5. \A i \in DOMAIN ofertas' : ofertas'[i].amount \in Nat \ {0}
  BY <1>2, <1>4 DEF Ladder
<1>6. \A i \in DOMAIN ofertas' : ofertas'[i].status # "rejected" => i \in DOMAIN ofertas /\ ofertas'[i] = ofertas[i]
  BY <1>2, <1>4
<1>7. ASSUME NEW i \in DOMAIN ofertas', NEW j \in DOMAIN ofertas',
             ofertas'[i].lote = ofertas'[j].lote,
             ofertas'[i].status = "outbid", ofertas'[j].status = "accepted"
      PROVE  ofertas'[i].amount < ofertas'[j].amount
  BY <1>6, <1>7 DEF Ladder
<1>8. ASSUME NEW m, NEW i \in DOMAIN ofertas', ofertas'[i].lote = m, ofertas'[i].status = "outbid"
      PROVE  Leader(m)' # 0
  BY <1>3, <1>6, <1>8 DEF Ladder
<1> QED  BY <1>5, <1>7, <1>8 DEF Ladder

LEMMA AmountIs ==
    ASSUME ServerShape, Ladder, NEW w, Placed(w) PROVE Amount(w) \in Nat
  BY DEF Amount, Placed, Ladder

LEMMA LadderStays == ASSUME Ladder, UNCHANGED ofertas PROVE Ladder'
<1>1. \A m : Leader(m)' = Leader(m)
  BY DEF Leader
<1> QED  BY <1>1 DEF Ladder

LEMMA ServedAmount ==
    ASSUME ServerShape, Ladder, NEW l, NEW amount \in Nat, ~Refused(l, amount)
    PROVE  amount >= Amount(Leader(l)) + 1 /\ Open(l)
<1>1. Amount(Leader(l)) \in Nat
  BY LeaderPlaced, AmountIs
<1> QED  BY <1>1 DEF Refused, Open

LEMMA StepClimbs ==
    ASSUME BidInv, ViewInv, FormInv, [Next]_vars PROVE Ladder'
<1>0. ServerShape /\ Floor /\ Ladder
  BY DEF ViewInv, ServerInv, FormInv
<1>1. CASE \E l \in Lotes : RivalBids(l)
  <2>1. PICK l \in Lotes : RivalBids(l)
    BY <1>1
  <2> PICK a : a = Amount(Leader(l)) + 1
    OBVIOUS
  <2>2. a \in Nat \ {0} /\ a >= Amount(Leader(l)) + 1
    <3>1. Amount(Leader(l)) \in Nat
      BY <1>0, LeaderPlaced, AmountIs
    <3> QED  BY <3>1
  <2>3. Accept(l, FALSE, a, 0)
    BY <2>1 DEF RivalBids
  <2> QED  BY <1>0, <2>2, <2>3, AcceptClimbs
<1>2. ASSUME NEW r \in reqs, ServeBid(r) PROVE Ladder'
  <2>1. r.token \in Nat /\ r.lote \in Lotes /\ r.amount \in Nat \ {0}
    BY DEF BidInv, Typed, Bid, ViewInv, PageShape, FormInv, Asks
  <2>2. CASE UNCHANGED ofertas
    BY <1>0, <2>2, LadderStays
  <2>3. CASE ~UNCHANGED ofertas /\ Refused(r.lote, r.amount)
    <3>1. PICK row : /\ ofertas' = Append(ofertas, row) /\ row.status = "rejected"
                     /\ row.amount = r.amount
      BY <1>2, <2>3 DEF ServeBid, server
    <3> QED  BY <1>0, <2>1, <3>1, RefusalClimbs
  <2>4. CASE ~UNCHANGED ofertas /\ ~Refused(r.lote, r.amount)
    <3>1. Accept(r.lote, TRUE, r.amount, r.token)
      BY <1>2, <2>4 DEF ServeBid, server
    <3>2. r.amount >= Amount(Leader(r.lote)) + 1
      BY <1>0, <2>1, <2>4, ServedAmount
    <3> QED  BY <1>0, <2>1, <3>1, <3>2, AcceptClimbs
  <2> QED  BY <2>2, <2>3, <2>4
<1>3. CASE (~ \E l \in Lotes : RivalBids(l)) /\ ~ \E r \in reqs : ServeBid(r)
  <2>1. UNCHANGED ofertas
    BY <1>3 DEF Next, vars, server, ServerStep, RemateMoves, OpenLote, EndLote, Requeue, MoveTimer,
     GatewayStep, JoinRoom, RefuseJoin,
     BuildSnapshot, LoteForSnapshot, SendSnapshot, SnapshotFails, ExpireCache, BusStep, Publish, LoseEvent, SocketStep, Connected, Drop, Reconnect, PageStep,
     BuildPage, LoteForPage, ServePage, PageArrives, PageFails, Reload, ServeLotes, LotesArrive, ScreenStep,
     Deliver, Render, Continue, Leave, BidStep, Submit, Touch, GiveUp, Answer
  <2> QED  BY <1>0, <2>1, LadderStays
<1> QED  BY <1>1, <1>2, <1>3

\* A bid in flight was in flight before, or is the one submitted now.
Same(q, r) == /\ q.lote = r.lote /\ q.amount = r.amount /\ q.touched = r.touched
              /\ q.seen = r.seen

LEMMA ReqsFrom ==
    ASSUME BidInv, [Next]_vars, ~Submit
    PROVE  \A q \in reqs' : \E r \in reqs : Same(q, r)
<1>1. PICK U : reqs \subseteq Bid(U)
  BY DEF BidInv, Typed
<1>2. ASSUME NEW r \in reqs
      PROVE  /\ \A a : Same([r EXCEPT !.answer = a], r)
             /\ Same([r EXCEPT !.form = FALSE], r)
             /\ Same([r EXCEPT !.waiting = FALSE, !.form = FALSE], r)
             /\ Same(r, r)
  BY <1>1, <1>2 DEF Bid, Same
<1>3. CASE reqs' \subseteq reqs
  BY <1>2, <1>3
<1>4. CASE Render
  <2>1. reqs' = reqs \/ reqs' = {[r EXCEPT !.form = FALSE] : r \in reqs}
    BY <1>4 DEF Render
  <2>2. ASSUME NEW q \in reqs' PROVE \E r \in reqs : q = r \/ q = [r EXCEPT !.form = FALSE]
    BY <2>1, <2>2
  <2>3. ASSUME NEW q \in reqs' PROVE \E r \in reqs : Same(q, r)
    <3>1. PICK r \in reqs : q = r \/ q = [r EXCEPT !.form = FALSE]
      BY <2>2, <2>3
    <3>2. Same(r, r) /\ Same([r EXCEPT !.form = FALSE], r)
      BY <1>2
    <3> QED  BY <3>1, <3>2
  <2> QED  BY <2>3
<1>5. ASSUME NEW r \in reqs, ServeBid(r) \/ GiveUp(r) \/ Answer(r)
      PROVE  \A q \in reqs' : \E r2 \in reqs : Same(q, r2)
  <2>1. PICK a : reqs' \subseteq reqs \cup {[r EXCEPT !.answer = a],
                                            [r EXCEPT !.waiting = FALSE, !.form = FALSE]}
    BY <1>5 DEF ServeBid, GiveUp, Answer, Answered
  <2>2. /\ Same([r EXCEPT !.answer = a], r) /\ Same([r EXCEPT !.waiting = FALSE, !.form = FALSE], r)
        /\ \A r2 \in reqs : Same(r2, r2)
    BY <1>2, <1>5
  <2> QED  BY <1>5, <2>1, <2>2
<1>6. CASE ~Render /\ ~ \E r \in reqs : ServeBid(r) \/ GiveUp(r) \/ Answer(r)
  <2>1. reqs' = reqs
    BY <1>6 DEF Next, vars, bids, ServerStep, GatewayStep, JoinRoom, RefuseJoin,
     BuildSnapshot, LoteForSnapshot, SendSnapshot, SnapshotFails, ExpireCache, BusStep, Publish, LoseEvent, SocketStep, Connected, Drop, Reconnect, PageStep,
     BuildPage, LoteForPage, ServePage, PageArrives, PageFails, Reload, ServeLotes, LotesArrive, ScreenStep,
     Deliver, Continue, Leave, BidStep, Touch
  <2> QED  BY <1>3, <2>1
<1> QED  BY <1>4, <1>5, <1>6

LEMMA MineKept ==
    ASSUME RowsKept, NEW w, Placed(w)
    PROVE  w # 0 => ofertas'[w].mine = ofertas[w].mine /\ Amount(w)' = Amount(w)
  BY DEF RowsKept, Placed, Amount

LEMMA StepAsks ==
    ASSUME BidInv, ViewInv, FormInv, [Next]_vars PROVE Asks'
<1>1. RowsKept
  BY StepKeepsRows
<1>2. ASSUME NEW q \in reqs', NEW r, r.amount \in Nat \ {0}, Asked1(r), Same(q, r)
      PROVE  q.amount \in Nat \ {0} /\ Asked1(q)'
  <2>1. SUFFICES ASSUME ~q.touched
                 PROVE  /\ q.amount = Amount(q.seen)' + 1 /\ Placed(q.seen)'
                        /\ q.seen # 0 => ~ofertas'[q.seen].mine
    BY <1>2 DEF Same, Asked1
  <2>2. /\ q.amount = Amount(q.seen) + 1 /\ Placed(q.seen)
        /\ q.seen # 0 => ~ofertas[q.seen].mine
    BY <1>2, <2>1 DEF Same, Asked1
  <2>3. Amount(q.seen)' = Amount(q.seen)
    BY <1>1, <2>2, MineKept DEF Amount
  <2> QED  BY <1>1, <2>2, <2>3, PlacedKept, MineKept
<1>3. CASE ~Submit
  <2>1. ASSUME NEW q \in reqs' PROVE q.amount \in Nat \ {0} /\ Asked1(q)'
    <3>1. PICK r \in reqs : Same(q, r)
      BY <1>3, <2>1, ReqsFrom
    <3> QED  BY <1>2, <2>1, <3>1 DEF FormInv, Asks
  <2> QED  BY <2>1 DEF Asks
<1>4. CASE Submit
  <2>1. PICK n : n = [lote |-> shown.lote, amount |-> Offer, token |-> TokenFor(Offer),
                      touched |-> form.touched, seen |-> shown.winner,
                      answer |-> "none", waiting |-> TRUE, form |-> TRUE]
    OBVIOUS
  <2>2. reqs' = reqs \cup {n} /\ Offer \in 1..plan.amount /\ ~Banner /\ UNCHANGED ofertas
    BY <1>4, <2>1 DEF Submit, server
  <2>3. n.amount = Offer /\ n.touched = form.touched /\ n.seen = shown.winner
    BY <2>1
  <2>4. n.amount \in Nat \ {0}
    BY <2>2, <2>3 DEF FormInv
  <2>5. Asked1(n)
    <3>1. Placed(shown.winner)
      BY DEF FormInv, Pointed, HoldsWinner
    <3> QED  BY <2>2, <2>3, <3>1 DEF Asked1, Offer, Minimum, Banner, Leading, Mine
  <2>6. ASSUME NEW q \in reqs' PROVE q.amount \in Nat \ {0} /\ Asked1(q)'
    <3>1. Same(q, q)
      BY DEF Same
    <3> QED  BY <1>2, <2>2, <2>4, <2>5, <2>6, <3>1 DEF FormInv, Asks
  <2> QED  BY <2>6 DEF Asks
<1> QED  BY <1>3, <1>4

LEMMA StepOvertakes ==
    ASSUME BidInv, ViewInv, FormInv, [Next]_vars PROVE Overtaken'
<1>1. RowsKept /\ Placed(shown.winner)
  BY StepKeepsRows DEF FormInv, Pointed, HoldsWinner
<1>2. PICK U : form \in Form(U)
  BY DEF BidInv, Typed
<1>3. CASE Render
  <2>1. shown' = view /\ UNCHANGED ofertas
    BY <1>3 DEF Render, server
  <2>2. Mine(shown)' <=> Mine(view)
    BY <2>1 DEF Mine
  <2>3. CASE Mounted(view)
    <3>1. PICK o : o = Outbid(view)
      OBVIOUS
    <3>2. form' = [form EXCEPT !.outbid = o]
      BY <1>3, <2>3, <3>1 DEF Render
    <3>3. form'.outbid = o
      BY <1>2, <3>2 DEF Form
    <3>4. o => ~Mine(view)
      BY <3>1, Zenon DEF Outbid
    <3> QED  BY <2>2, <3>3, <3>4 DEF Overtaken
  <2>4. CASE ~Mounted(view)
    BY <1>3, <2>4 DEF Render, Overtaken, FreshForm
  <2> QED  BY <2>3, <2>4
<1>4. CASE ~Render
  <2>1. shown' = shown
    BY <1>4 DEF Next, vars, client, ServerStep, GatewayStep, JoinRoom, RefuseJoin,
     BuildSnapshot, LoteForSnapshot, SendSnapshot, SnapshotFails, ExpireCache, BusStep, Publish, LoseEvent, SocketStep, Connected, Drop, Reconnect, PageStep,
     BuildPage, LoteForPage, ServePage, PageArrives, PageFails, Reload, ServeLotes, LotesArrive, ScreenStep,
     Deliver, Continue, Leave, BidStep, Submit, Touch, ServeBid, GiveUp, Answer
  <2>2. form'.outbid = form.outbid
    <3>1. CASE UNCHANGED form
      BY <3>1
    <3>2. CASE Submit \/ (\E a \in 1..plan.amount : Touch(a)) \/ \E r \in reqs : GiveUp(r) \/ Answer(r)
      BY <1>2, <3>2 DEF Submit, Touch, GiveUp, Answer, Form
    <3> QED  BY <1>4, <3>1, <3>2 DEF Next, vars, bids, ServerStep, GatewayStep, JoinRoom, RefuseJoin,
     BuildSnapshot, LoteForSnapshot, SendSnapshot, SnapshotFails,
     ExpireCache, BusStep, Publish, LoseEvent, SocketStep, Connected, Drop, Reconnect, PageStep,
     BuildPage, LoteForPage, ServePage, PageArrives, PageFails, Reload, ServeLotes, LotesArrive, ScreenStep,
     Deliver, Continue, Leave, BidStep, ServeBid
  <2>3. Mine(shown)' => Mine(shown)
    BY <1>1, <2>1, MineKept DEF Mine
  <2> QED  BY <2>2, <2>3 DEF Overtaken, FormInv
<1> QED  BY <1>3, <1>4

LEMMA InitForm == ASSUME Init PROVE FormInv
<1>1. ofertas = <<>> /\ reqs = {} /\ ~form.outbid /\ plan.amount \in Nat /\ cache = NoCache
      /\ Transit = {} /\ (\A m : ~Sends(m)) /\ shown = view /\ \A l : Leader(l) = 0
  BY PlansAssumption
     DEF Init, FreshForm, Plan, Transit, Sends, Elements, Leader
<1>2. Ladder
  BY <1>1 DEF Ladder
<1>3. view.winner = 0 /\ page[1] # "answer"
  <2>1. CASE Enters
    BY <2>1 DEF Enters, NoView, Asked
  <2>2. CASE \E l \in plan.inside : Watches(l)
    <3>1. view = [status |-> status, lote |-> Raw.lote, timer |-> Raw.timer, winner |-> Raw.winner]
          /\ page = <<"done">>
      BY <1>1, <2>2 DEF Watches, Built, ReadRemate
    <3>2. Raw.winner = 0
      BY <1>1 DEF Raw, WithLeader
    <3> QED  BY <3>1, <3>2
  <2> QED  BY <2>1, <2>2 DEF Init
<1>4. Pointed
  BY <1>1, <1>3 DEF Pointed, HoldsWinner, Placed
<1> QED  BY <1>1, <1>2, <1>4 DEF FormInv, Asks, Overtaken

LEMMA StepKeepsForm ==
    ASSUME BidInv, ViewInv, FormInv, [Next]_vars PROVE FormInv'
<1>1. UNCHANGED plan
  BY DEF Next, vars, ServerStep, GatewayStep, JoinRoom, RefuseJoin,
     BuildSnapshot, LoteForSnapshot, SendSnapshot, SnapshotFails, ExpireCache, BusStep, Publish, LoseEvent, SocketStep, Connected, Drop, Reconnect, PageStep,
     BuildPage, LoteForPage, ServePage, PageArrives, PageFails, Reload, ServeLotes, LotesArrive, ScreenStep,
     Deliver, Render, Continue, Leave, BidStep, Submit, Touch, ServeBid, GiveUp, Answer
<1>2. Pointed'
  BY StepPoints DEF FormInv
<1>3. Ladder' /\ Asks' /\ Overtaken'
  BY StepClimbs, StepAsks, StepOvertakes
<1> QED  BY <1>1, <1>2, <1>3 DEF FormInv

SalaInv == BidInv /\ ViewInv /\ FormInv

\* The inductive invariant of the room.
THEOREM RoomInvariant == Spec => []SalaInv
<1>1. Init => SalaInv
  BY InitBid, InitView, InitForm DEF SalaInv
<1>2. SalaInv /\ [Next]_vars => SalaInv'
  BY StepKeepsBids, StepKeepsView, StepKeepsForm DEF SalaInv
<1> QED  BY <1>1, <1>2, PTL DEF Spec

LEMMA NotTaunted == ASSUME SalaInv PROVE LeaderIsNotTaunted
<1> SUFFICES ASSUME form.outbid, shown = view, sync.at = ver, shown.lote # NoLote,
                    round[shown.lote] = 1, Leader(shown.lote) # 0
             PROVE  ~ofertas[Leader(shown.lote)].mine
  BY DEF LeaderIsNotTaunted
<1>1. CompleteViewIsCurrent /\ ServerInv /\ Overtaken
  BY ViewIsCurrent DEF SalaInv, ViewInv, FormInv
<1>2. view.lote = Raw.lote /\ view.winner = Raw.winner
  BY <1>1 DEF CompleteViewIsCurrent
<1>3. view.winner = Leader(shown.lote)
  BY <1>1, <1>2, RawIs
<1>4. ~Mine(shown)
  BY <1>1 DEF Overtaken
<1> QED  BY <1>3, <1>4 DEF Mine

\* "Te superaron" in PlaceBidButton: who leads, on a page that shows what the server
\* has, is not told that he was overtaken.
THEOREM LeadersAreNotTaunted == Spec => []LeaderIsNotTaunted
  BY RoomInvariant, NotTaunted, PTL

Himself == \A r \in reqs :
    (/\ Len(ofertas') > Len(ofertas) /\ r \notin reqs'
     /\ ofertas'[Len(ofertas')].mine /\ ofertas'[Len(ofertas')].status = "accepted"
     /\ ~r.touched /\ Leader(r.lote) # 0 /\ ofertas[Leader(r.lote)].mine)
    => r.seen # 0 /\ ofertas[r.seen].lote # r.lote

LEMMA NotHimself == ASSUME SalaInv, [Next]_vars PROVE Himself
<1> SUFFICES ASSUME NEW r \in reqs, Len(ofertas') > Len(ofertas), r \notin reqs',
                    ofertas'[Len(ofertas')].mine, ofertas'[Len(ofertas')].status = "accepted",
                    ~r.touched, Leader(r.lote) # 0, ofertas[Leader(r.lote)].mine
             PROVE  r.seen # 0 /\ ofertas[r.seen].lote # r.lote
  BY DEF Himself
<1>0. /\ ServerShape /\ Floor /\ Ladder /\ Asked1(r) /\ r.amount \in Nat \ {0}
      /\ r.token \in Nat /\ r.lote \in Lotes
  BY DEF SalaInv, ViewInv, ServerInv, FormInv, Asks, BidInv, Typed, Bid, PageShape
<1>1. ServeBid(r) /\ ~UNCHANGED ofertas
  <2>1. ~UNCHANGED ofertas /\ ~UNCHANGED reqs
    OBVIOUS
  <2>2. PICK p \in reqs : ServeBid(p)
    BY <2>1 DEF Next, vars, server, bids, ServerStep,
     GatewayStep, JoinRoom, RefuseJoin,
     BuildSnapshot, LoteForSnapshot, SendSnapshot, SnapshotFails, ExpireCache, BusStep, Publish, LoseEvent, SocketStep, Connected, Drop, Reconnect, PageStep,
     BuildPage, LoteForPage, ServePage, PageArrives, PageFails, Reload, ServeLotes, LotesArrive, ScreenStep,
     Deliver, Render, Continue, Leave, BidStep, Submit, Touch, GiveUp, Answer
  <2>3. reqs \ {p} \subseteq reqs'
    BY <2>2 DEF ServeBid, Answered
  <2> QED  BY <2>1, <2>2, <2>3
<1>2. PICK U : ofertas \in Seq(Row(U))
  BY <1>0 DEF ServerShape
<1>3. ~Refused(r.lote, r.amount)
  <2>1. SUFFICES ASSUME Refused(r.lote, r.amount) PROVE FALSE
    OBVIOUS
  <2>2. PICK row : ofertas' = Append(ofertas, row) /\ row.status = "rejected"
    BY <1>1, <2>1 DEF ServeBid, server
  <2>3. ofertas'[Len(ofertas')] = row
    BY <1>2, <2>2
  <2> QED  BY <2>2, <2>3
<1>4. r.amount > ofertas[Leader(r.lote)].amount
  <2>1. r.amount >= Amount(Leader(r.lote)) + 1
    BY <1>0, <1>3, ServedAmount
  <2>2. Amount(Leader(r.lote)) = ofertas[Leader(r.lote)].amount /\ Amount(Leader(r.lote)) \in Nat
    BY <1>0, LeaderPlaced, AmountIs DEF Amount
  <2> QED  BY <1>0, <2>1, <2>2
<1>5. /\ Leader(r.lote) \in DOMAIN ofertas /\ ofertas[Leader(r.lote)].lote = r.lote
      /\ ofertas[Leader(r.lote)].status = "accepted"
      /\ ofertas[Leader(r.lote)].amount \in Nat \ {0}
  BY <1>0, LeaderIs DEF Ladder
<1>6. /\ r.amount = Amount(r.seen) + 1 /\ Placed(r.seen)
      /\ r.seen # 0 => ~ofertas[r.seen].mine
  BY <1>0 DEF Asked1
<1>7. r.seen # 0
  <2>1. SUFFICES ASSUME r.seen = 0 PROVE FALSE
    OBVIOUS
  <2>2. r.amount = 1
    BY <1>6, <2>1 DEF Amount
  <2> QED  BY <1>4, <1>5, <2>2
<1>8. ofertas[r.seen].lote # r.lote
  <2>1. SUFFICES ASSUME ofertas[r.seen].lote = r.lote PROVE FALSE
    OBVIOUS
  <2>2. r.seen \in DOMAIN ofertas /\ ofertas[r.seen].status \in {"accepted", "outbid"}
    <3>1. r.seen \in DOMAIN ofertas /\ ofertas[r.seen].status # "rejected"
      BY <1>6, <1>7 DEF Placed
    <3>2. ofertas[r.seen] \in Row(U)
      BY <1>2, <3>1
    <3> QED  BY <3>1, <3>2 DEF Row, OfertaStatus
  <2>3. ofertas[r.seen].amount >= ofertas[Leader(r.lote)].amount
    BY <1>0, <1>4, <1>5, <1>6, <1>7, <2>2 DEF Amount, Ladder
  <2>4. ofertas[r.seen].status # "outbid"
    BY <1>0, <1>5, <2>1, <2>2, <2>3 DEF Ladder
  <2>5. r.seen = Leader(r.lote)
    BY <1>0, <1>5, <2>1, <2>2, <2>4 DEF Floor
  <2> QED  BY <1>6, <1>7, <2>5
<1> QED  BY <1>7, <1>8

\* A buyer who did not touch the amount does not raise his own bid, but when what he was
\* shown was an offer of another lote: the banner and the minimum of PlaceBidButton, and
\* the minimum that place_bid asks.
THEOREM NobodyOutbidsHimself == Spec => OutbidsHimselfOnPurpose
<1>1. SalaInv /\ [Next]_vars => [Himself]_vars
  BY NotHimself
<1>2. OutbidsHimselfOnPurpose <=> [][Himself]_vars
  BY PTL DEF OutbidsHimselfOnPurpose, Himself
<1> QED  BY <1>1, <1>2, RoomInvariant, PTL DEF Spec

------------------------------------------------------------------------------
(* Sales on their way.                                                      *)

Sales == {s \in Transit : s.type = "lote.closed" /\ s.arg = "closed_sold"}

\* The same of the events up to n.
CoveredTo(k, n) == \A j \in (k + 1)..n : \E e \in Transit : e.v = j
LeadTo(k, n) == \E f \in Transit : f.v > k /\ f.v <= n /\ f.type \in Leaders

\* A sale is final, and the last event about the leader before it says who bought.
SaleTrue(s) ==
    /\ lot[s.lote].status = "closed_sold"
    /\ \A e \in Transit : e.type = "lote.opened" /\ e.lote = s.lote => e.v < s.v
    /\ \A e \in Transit :
         (/\ e.type \in Leaders /\ e.v < s.v
          /\ CoveredTo(e.v, s.v - 1) /\ ~LeadTo(e.v, s.v - 1))
         => \/ e.type = "oferta.accepted" /\ Leader(s.lote) = e.oferta
            \/ e.type = "lote.opened" /\ Leader(s.lote) = 0
            \/ round[s.lote] > 1

\* A copy that shows the lote is older than its sale, and when nothing about the leader
\* happened in between it shows who bought.
SaleOf(d, k, s) == d.lote = s.lote =>
    /\ k < s.v
    /\ CoveredTo(k, s.v - 1) /\ ~LeadTo(k, s.v - 1) => d.winner = Leader(s.lote) \/ round[s.lote] > 1
SaleKnown(d, k) == \A s \in Sales : SaleOf(d, k, s)

\* A lote that was found open was found before its sale.
FoundBefore(d, k) == \A s \in Sales : d.lote = s.lote => k < s.v

Holds(d, k) == HoldsRaw(d, k) \/ HoldsView(d, k)

SaleInv ==
    /\ \A s \in Sales : SaleTrue(s)
    /\ \A d, k : Holds(d, k) => SaleKnown(d, k)
    /\ \A d, k : HoldsLote(d, k) => FoundBefore(d, k)

LEMMA HeldAge == ASSUME ViewInv, NEW d, NEW k, Holds(d, k) PROVE RawKnown(d, k) /\ k \in 0..ver
  BY DEF ViewInv, Known, Holds, ViewKnown, RawKnown

\* A lote that was sold keeps its status, its leader and its round.
Settled == \A m \in Lotes : lot[m].status = "closed_sold" =>
    lot'[m].status = "closed_sold" /\ Leader(m)' = Leader(m) /\ round'[m] = round[m]

\* What is new on its way: numbered after everything, an opening only of a lote that
\* was pending.
Fresh == \A e \in Transit' :
    \/ e \in Transit
    \/ e.v > ver /\ (e.type = "lote.opened" => lot[e.lote].status = "pending")

LEMMA StillSold == ASSUME UNCHANGED <<lot, round, ofertas>> PROVE Settled
  BY DEF Settled, Leader

LEMMA AcceptSettles ==
    ASSUME ServerInv, NEW l \in Lotes, NEW mine \in BOOLEAN, NEW amount, NEW token \in Nat,
           Accept(l, mine, amount, token), Open(l), UNCHANGED chan
    PROVE  Settled /\ Fresh /\ Sales' \subseteq Sales
<1> PICK e : e = Ev(1, "oferta.accepted", l, "none", Len(ofertas) + 1)
  OBVIOUS
<1>1. /\ Publishes(<<e>>) /\ e.v = ver + 1 /\ e.type = "oferta.accepted" /\ UNCHANGED <<lot, round>>
      /\ ver \in Nat /\ ServerShape /\ Floor
  BY DEF Accept, Ev, ServerInv, ServerShape
<1>2. \A f \in Transit' : f \in Transit \/ f = e
  BY <1>1, PublishedBy DEF Elements
<1>3. \A m : m # l => Leader(m)' = Leader(m)
  BY <1>1, AcceptLeads
<1>4. Settled
  BY <1>1, <1>3 DEF Settled, Open
<1>5. Fresh
  BY <1>1, <1>2 DEF Fresh
<1>6. Sales' \subseteq Sales
  BY <1>1, <1>2 DEF Sales
<1> QED  BY <1>4, <1>5, <1>6

LEMMA ServerSettles ==
    ASSUME ServerInv, ServerStep
    PROVE  Settled /\ Fresh /\ (Sales' \subseteq Sales \/ \E l \in Lotes : EndLote(l, "closed_sold"))
<1>0. UNCHANGED chan /\ ver \in Nat /\ lot \in Catalog /\ round \in [Lotes -> Nat \ {0}]
  BY DEF ServerStep, net, ServerInv, ServerShape
<1>1. CASE \E l \in Lotes : RivalBids(l)
  <2>0. PICK l \in Lotes : RivalBids(l)
    BY <1>1
  <2>1. PICK a : Accept(l, FALSE, a, 0) /\ Open(l)
    BY <2>0 DEF RivalBids, Refused, Open
  <2> QED  BY <1>0, <2>1, AcceptSettles
<1>2. CASE \E l \in Lotes : OpenLote(l)
  <2>1. PICK l \in Lotes : OpenLote(l)
    BY <1>2
  <2>2. \A e \in Transit' : e \in Transit \/ (e.v > ver /\ e.lote = l /\ e.type # "lote.closed")
    <3>1. PICK events : /\ Publishes(events)
                        /\ events = <<Ev(1, "lote.opened", l, "open", 0), Ev(2, "lote.timer", l, "running", 0)>>
      BY <2>1 DEF OpenLote
    <3>2. \A e \in Elements(events) : e.v > ver /\ e.lote = l /\ e.type # "lote.closed"
      BY <1>0, <3>1 DEF Elements, Ev
    <3> QED  BY <1>0, <3>1, <3>2, PublishedBy
  <2>3. lot[l].status = "pending" /\ UNCHANGED <<round, ofertas>>
        /\ \A m \in Lotes \ {l} : lot'[m] = lot[m]
    BY <1>0, <2>1 DEF OpenLote, Catalog
  <2>4. \A m : Leader(m)' = Leader(m)
    BY <2>3 DEF Leader
  <2>5. Settled
    BY <2>3, <2>4 DEF Settled
  <2>6. Fresh
    BY <2>2, <2>3 DEF Fresh
  <2>7. Sales' \subseteq Sales
    BY <2>2 DEF Sales
  <2> QED  BY <2>5, <2>6, <2>7
<1>3. CASE (~ \E l \in Lotes : RivalBids(l)) /\ ~ \E l \in Lotes : OpenLote(l)
  <2>a. PICK t, l, a :
           /\ Publishes(<<Ev(1, t, l, a, 0)>>) /\ t # "lote.opened"
           /\ t = "lote.closed" /\ a = "closed_sold" => \E m \in Lotes : EndLote(m, "closed_sold")
    <3>1. CASE \E l \in Lotes : \E to \in {"closed_sold", "closed_unsold", "cancelled"} : EndLote(l, to)
      <4>1. PICK l \in Lotes, to \in {"closed_sold", "closed_unsold", "cancelled"} : EndLote(l, to)
        BY <3>1
      <4>2. PICK t : t = IF to = "cancelled" THEN "lote.cancelled" ELSE "lote.closed"
        OBVIOUS
      <4>3. Publishes(<<Ev(1, t, l, to, 0)>>)
        BY <4>1, <4>2 DEF EndLote
      <4> QED  BY <4>1, <4>2, <4>3
    <3>2. CASE \E to \in {"live", "paused", "finished"} : RemateMoves(to)
      BY <3>2 DEF RemateMoves
    <3>3. CASE \E l \in Lotes : Requeue(l)
      BY <3>3 DEF Requeue
    <3>4. CASE \E l \in Lotes : \E to \in {"running", "paused"} : MoveTimer(l, to)
      BY <3>4 DEF MoveTimer
    <3> QED  BY <1>3, <3>1, <3>2, <3>3, <3>4 DEF ServerStep
  <2>b. PICK e : e = Ev(1, t, l, a, 0)
    OBVIOUS
  <2>1. /\ Publishes(<<e>>) /\ e.v = ver + 1 /\ e.type # "lote.opened"
        /\ e.type = "lote.closed" /\ e.arg = "closed_sold" => \E m \in Lotes : EndLote(m, "closed_sold")
    BY <2>a, <2>b DEF Ev
  <2>c. \A f \in Transit' : f \in Transit \/ f = e
    <3>1. \A f \in Transit' : f \in Transit \/ f \in Elements(<<e>>)
      BY <1>0, <2>1, PublishedBy
    <3>2. Elements(<<e>>) = {e}
      BY DEF Elements
    <3> QED  BY <3>1, <3>2
  <2>2. Fresh /\ (Sales' \subseteq Sales \/ \E m \in Lotes : EndLote(m, "closed_sold"))
    BY <1>0, <2>1, <2>c DEF Fresh, Sales
  <2>3. UNCHANGED ofertas
    BY <1>3 DEF ServerStep, RemateMoves, EndLote, Requeue, MoveTimer
  <2>4. \A m \in Lotes : lot[m].status = "closed_sold" =>
           lot'[m].status = "closed_sold" /\ round'[m] = round[m]
    BY <1>0, <1>3 DEF ServerStep, RemateMoves, EndLote, Requeue, MoveTimer, Catalog
  <2>5. \A m : Leader(m)' = Leader(m)
    BY <2>3 DEF Leader
  <2> QED  BY <2>2, <2>4, <2>5 DEF Settled
<1> QED  BY <1>1, <1>2, <1>3


\* A sale stays true, and a copy stays right about it, while the events before it go.
LEMMA SaleKept ==
    ASSUME ServerInv, Numbered', Settled, Fresh, ver \in Nat, NEW s \in Sales, s \in Sales', SaleTrue(s)
    PROVE  SaleTrue(s)' /\ \A d, k : SaleOf(d, k, s) /\ k \in Nat => SaleOf(d, k, s)'
<1>1. /\ s \in Sent /\ s.v \in 1..ver /\ s.lote \in Lotes /\ lot[s.lote].status = "closed_sold"
  BY TransitType DEF Sales, ServerInv, Numbered, Sent, SaleTrue
<1>2. /\ lot'[s.lote].status = "closed_sold" /\ Leader(s.lote)' = Leader(s.lote)
      /\ round'[s.lote] = round[s.lote]
  BY <1>1 DEF Settled
<1>3. ASSUME NEW e \in Transit' PROVE e.v \in Nat /\ (e.v <= ver => e \in Transit)
  BY <1>3 DEF Fresh, Numbered
<1>4. ASSUME NEW k \in Nat, CoveredTo(k, s.v - 1)'
      PROVE  CoveredTo(k, s.v - 1) /\ (~LeadTo(k, s.v - 1)' => ~LeadTo(k, s.v - 1))
  <2>1. \A j \in (k + 1)..(s.v - 1) : \E e \in Transit' : e.v = j /\ e \in Transit
    BY <1>1, <1>3, <1>4 DEF CoveredTo
  <2>2. ASSUME NEW f \in Transit, f.v > k, f.v <= s.v - 1 PROVE f \in Transit'
    <3>1. f.v \in (k + 1)..(s.v - 1)
      BY <2>2, <1>1 DEF ServerInv, Numbered
    <3> QED  BY <2>1, <3>1 DEF ServerInv, Numbered
  <2> QED  BY <2>1, <2>2 DEF CoveredTo, LeadTo
<1>5. SaleTrue(s)'
  <2>1. ASSUME NEW e \in Transit', e.type = "lote.opened", e.lote = s.lote PROVE e.v < s.v
    <3>1. e \in Transit
      BY <1>1, <2>1 DEF Fresh
    <3> QED  BY <2>1, <3>1 DEF SaleTrue
  <2>2. ASSUME NEW e \in Transit', e.type \in Leaders, e.v < s.v,
               CoveredTo(e.v, s.v - 1)', ~LeadTo(e.v, s.v - 1)'
        PROVE  \/ e.type = "oferta.accepted" /\ Leader(s.lote)' = e.oferta
               \/ e.type = "lote.opened" /\ Leader(s.lote)' = 0
               \/ round'[s.lote] > 1
    <3>1. e \in Transit /\ e.v \in Nat
      BY <1>1, <1>3, <2>2
    <3>2. CoveredTo(e.v, s.v - 1) /\ ~LeadTo(e.v, s.v - 1)
      BY <1>4, <2>2, <3>1
    <3> QED  BY <1>2, <2>2, <3>1, <3>2 DEF SaleTrue
  <2> QED  BY <1>2, <2>1, <2>2 DEF SaleTrue
<1>6. ASSUME NEW d, NEW k \in Nat, SaleOf(d, k, s), d.lote = s.lote
      PROVE  /\ k < s.v
             /\ CoveredTo(k, s.v - 1)' /\ ~LeadTo(k, s.v - 1)' => d.winner = Leader(s.lote)' \/ round'[s.lote] > 1
  BY <1>2, <1>4, <1>6 DEF SaleOf
<1>7. \A d, k : SaleOf(d, k, s) /\ k \in Nat => SaleOf(d, k, s)'
  BY <1>6 DEF SaleOf
<1> QED  BY <1>5, <1>7

LEMMA SaleIf ==
    ASSUME ViewInv, SaleInv, Numbered', Settled, Fresh, Sales' \subseteq Sales,
           \A d, k : Holds(d, k)' => SaleKnown(d, k) /\ k \in Nat,
           \A d, k : HoldsLote(d, k)' => FoundBefore(d, k)
    PROVE  SaleInv'
<1>1. ServerInv /\ ver \in Nat
  BY DEF ViewInv, ServerInv, ServerShape
<1>2. \A s \in Sales' : SaleTrue(s)'
  BY <1>1, SaleKept DEF SaleInv
<1>3. ASSUME NEW d, NEW k, Holds(d, k)', NEW s \in Sales' PROVE SaleOf(d, k, s)'
  BY <1>1, <1>3, SaleKept DEF SaleInv, SaleKnown
<1>4. \A d, k : HoldsLote(d, k)' => FoundBefore(d, k)'
  BY DEF FoundBefore
<1> QED  BY <1>2, <1>3, <1>4 DEF SaleInv, SaleKnown


\* The sale itself: the server's state tells who bought, and every copy knows it.
LEMMA NewSale ==
    ASSUME ViewInv, SaleInv, ViewInv', NEW l \in Lotes, EndLote(l, "closed_sold"), UNCHANGED chan,
           \A d, k : Holds(d, k)' => Holds(d, k), \A d, k : HoldsLote(d, k)' => HoldsLote(d, k)
    PROVE  SaleInv'
<1> PICK s, n : s = Ev(1, "lote.closed", l, "closed_sold", 0) /\ n = ver
  OBVIOUS
<1>0. ServerInv /\ ServerShape /\ ver \in Nat
  BY DEF ViewInv, ServerInv, ServerShape
<1>1. /\ s.v = ver + 1 /\ s.type = "lote.closed" /\ s.lote = l /\ s.arg = "closed_sold"
      /\ Publishes(<<s>>) /\ Open(l) /\ UNCHANGED <<round, ofertas>>
      /\ lot'[l].status = "closed_sold"
  BY <1>0 DEF EndLote, Ev, Open, ServerShape, Catalog
<1>2. \A m : Leader(m)' = Leader(m)
  BY <1>1 DEF Leader
<1>3. Elements(<<s>>) = {s}
  BY DEF Elements
<1>4. /\ \A f \in Transit' : f \in Transit \/ f = s
      /\ Transit \subseteq Transit'
  BY <1>1, <1>3, PublishedBy DEF Publishes, Transit
<1>5. \A f \in Transit : f.v \in 1..ver
  BY <1>0 DEF ServerInv, Numbered
<1>6. Settled /\ Fresh
  <2>1. Settled
    BY <1>0, <1>1, <1>2 DEF Settled, EndLote, ServerShape, Catalog, Open
  <2>2. Fresh
    BY <1>0, <1>1, <1>4 DEF Fresh
  <2> QED  BY <2>1, <2>2
<1>7. ASSUME NEW k \in Nat, CoveredTo(k, n)', ~LeadTo(k, n)'
      PROVE  Covered(k) /\ ~LaterAny(k, Leaders)
  <2>1. Covered(k)
    BY <1>0, <1>1, <1>4, <1>7 DEF CoveredTo, Covered
  <2>2. ~LaterAny(k, Leaders)
    BY <1>0, <1>4, <1>5, <1>7 DEF LeadTo, LaterAny
  <2> QED  BY <2>1, <2>2
<1>8. s.v - 1 = n
  BY <1>0, <1>1
<1>9. SaleTrue(s)'
  <2>1. ASSUME NEW e \in Transit', e.type = "lote.opened" PROVE e.v < s.v
    BY <1>0, <1>1, <1>4, <1>5, <2>1
  <2>2. ASSUME NEW e \in Transit', e.type \in Leaders, e.v < s.v,
               CoveredTo(e.v, n)', ~LeadTo(e.v, n)'
        PROVE  \/ e.type = "oferta.accepted" /\ Leader(l) = e.oferta
               \/ e.type = "lote.opened" /\ Leader(l) = 0
               \/ round[l] > 1
    <3>1. e \in Transit /\ e.v \in 1..ver /\ e \in Sent
      BY <1>0, <1>1, <1>4, <1>5, <2>2, TransitType
    <3>2. Covered(e.v) /\ ~LaterAny(e.v, Leaders) /\ True(e)
      BY <1>0, <1>7, <2>2, <3>1 DEF ServerInv
    <3>3. round[l] \in Nat \ {0}
      BY <1>0 DEF ServerShape
    <3>4. CASE e.type = "oferta.accepted"
      BY <1>1, <3>2, <3>4 DEF True
    <3>5. CASE e.type = "lote.opened"
      <4>1. CASE e.lote = l
        BY <1>1, <3>2, <3>3, <3>5, <4>1 DEF True
      <4>2. CASE e.lote # l
        <5>1. Later(e.v, Opens, l)
          BY <1>1, <3>2, <3>5, <4>2 DEF True
        <5> QED  BY <3>2, <5>1, Differ
      <4> QED  BY <4>1, <4>2
    <3> QED  BY <2>2, <3>4, <3>5 DEF Leaders
  <2>3. lot'[s.lote].status = "closed_sold" /\ Leader(s.lote)' = Leader(l)
        /\ round'[s.lote] = round[l]
    BY <1>1, <1>2
  <2> QED  BY <1>8, <2>1, <2>2, <2>3 DEF SaleTrue
<1>10. ASSUME NEW d, NEW k, Holds(d, k) PROVE SaleOf(d, k, s)'
  <2>1. RawOK(d, k) /\ k \in 0..ver
    BY <1>10, HeldAge DEF RawKnown
  <2>2. k < s.v
    BY <1>0, <1>1, <2>1
  <2>3. ASSUME CoveredTo(k, n)', ~LeadTo(k, n)' PROVE d.winner = Leader(l) \/ round[l] > 1
    BY <1>1, <1>7, <2>1, <2>3 DEF RawOK
  <2>4. Leader(s.lote)' = Leader(l) /\ round'[s.lote] = round[l]
    BY <1>1, <1>2
  <2> QED  BY <1>8, <2>2, <2>3, <2>4 DEF SaleOf
<1>11. \A q \in Sales' : q \in Sales \/ q = s
  BY <1>4 DEF Sales
<1>12. Numbered'
  BY DEF ViewInv, ServerInv
<1>13. \A q \in Sales' : SaleTrue(q)'
  BY <1>0, <1>6, <1>9, <1>11, <1>12, SaleKept DEF SaleInv
<1>14. ASSUME NEW d, NEW k, Holds(d, k)', NEW q \in Sales' PROVE SaleOf(d, k, q)'
  <2>1. Holds(d, k) /\ k \in Nat
    BY <1>14, HeldAge
  <2>2. CASE q \in Sales
    BY <1>0, <1>6, <1>12, <2>1, <2>2, SaleKept, <1>14 DEF SaleInv, SaleKnown
  <2> QED  BY <1>10, <1>11, <2>1, <2>2
<1>15. ASSUME NEW d, NEW k, HoldsLote(d, k)' PROVE FoundBefore(d, k)'
  <2>1. FoundBefore(d, k) /\ k \in 0..ver
    BY <1>15 DEF SaleInv, ViewInv, Known, LoteKnown
  <2>2. k < s.v
    BY <1>0, <1>1, <2>1
  <2> QED  BY <1>11, <2>1, <2>2 DEF FoundBefore
<1> QED  BY <1>13, <1>14, <1>15 DEF SaleInv, SaleKnown

\* Copies of copies.
LEMMA SaleAges ==
    ASSUME NEW d, NEW k \in Nat, NEW n \in Nat, k <= n, Numbered, ver \in Nat, SaleKnown(d, n)
    PROVE  SaleKnown(d, k)
<1> SUFFICES ASSUME NEW s \in Sales, d.lote = s.lote PROVE SaleOf(d, k, s)
  BY DEF SaleKnown, SaleOf
<1>1. s.v \in 1..ver /\ \A f \in Transit : f.v \in 1..ver
  BY DEF Sales, Numbered
<1>2. n < s.v /\ (CoveredTo(n, s.v - 1) /\ ~LeadTo(n, s.v - 1) =>
                    d.winner = Leader(s.lote) \/ round[s.lote] > 1)
  BY DEF SaleKnown, SaleOf
<1>3. CoveredTo(k, s.v - 1) => CoveredTo(n, s.v - 1)
  BY <1>1 DEF CoveredTo
<1>4. LeadTo(n, s.v - 1) => LeadTo(k, s.v - 1)
  BY <1>1 DEF LeadTo
<1>5. k < s.v
  BY <1>1, <1>2
<1> QED  BY <1>2, <1>3, <1>4, <1>5 DEF SaleOf

\* The lote found now is not sold.
LEMMA FoundNow == ASSUME ViewInv, SaleInv, NEW k PROVE FoundBefore(ActiveLote, k)
<1>1. ActiveLote.lote = Raw.lote
  BY DEF Raw, WithLeader
<1>2. Raw.lote # NoLote => lot[Raw.lote].status = "open"
  BY RawIs DEF ViewInv, Open
<1>3. \A s \in Sales : s.lote \in Lotes /\ lot[s.lote].status = "closed_sold"
  BY TransitType DEF SaleInv, SaleTrue, Sales, Sent, ViewInv, ServerInv
<1> QED  BY <1>1, <1>2, <1>3, PlansAssumption DEF FoundBefore

LEMMA RawOfSale ==
    ASSUME ViewInv, SaleInv, NEW read, HasRaw(read),
           read[1] = "lote" => FoundBefore(read[4], read[4].at)
    PROVE  SaleKnown(RawOf(read), RawOf(read).at)
<1>1. CASE read[1] = "lote"
  <2>1. PICK found, raw : found = read[4] /\ raw = WithLeader(found)
    OBVIOUS
  <2>2. raw.lote = found.lote /\ raw.at = found.at
        /\ (found.lote # NoLote => raw.winner = Leader(found.lote))
    BY <2>1 DEF WithLeader
  <2>3. FoundBefore(found, found.at)
    BY <1>1, <2>1
  <2>4. \A s \in Sales : s.lote # NoLote
    BY TransitType, PlansAssumption DEF Sales, Sent, ViewInv, ServerInv
  <2>5. SaleKnown(raw, raw.at)
    BY <2>2, <2>3, <2>4 DEF FoundBefore, SaleKnown, SaleOf
  <2> QED  BY <1>1, <2>1, <2>5 DEF RawOf
<1>2. CASE read[1] # "lote"
  BY <1>2 DEF HasRaw, RawOf, SaleInv, Holds, HoldsRaw
<1> QED  BY <1>1, <1>2

LEMMA BuiltSale ==
    ASSUME ViewInv, SaleInv, NEW read, read[3] \in 0..ver, NEW raw, raw.at \in 0..ver, SaleKnown(raw, raw.at)
    PROVE  SaleKnown(Built(read, raw).data, Built(read, raw).at)
<1> PICK s, k : s = read[2] /\ k = read[3]
  OBVIOUS
<1> DEFINE n == IF k < raw.at THEN k ELSE raw.at
           d == [status |-> s, lote |-> raw.lote, timer |-> raw.timer, winner |-> raw.winner]
<1>1. Built(read, raw).data = d /\ Built(read, raw).at = n
  BY DEF Built
<1>2. SaleKnown(raw, raw.at) /\ raw.at \in 0..ver /\ ver \in Nat /\ Numbered
  BY DEF ViewInv, ServerInv, ServerShape
<1>3. n \in Nat /\ n <= raw.at /\ raw.at \in Nat
  BY <1>2
<1>4. d.lote = raw.lote /\ d.winner = raw.winner
  OBVIOUS
<1> HIDE DEF n, d
<1>5. SaleKnown(raw, n)
  BY <1>2, <1>3, SaleAges
<1>6. SaleKnown(d, n)
  BY <1>4, <1>5 DEF SaleKnown, SaleOf
<1> QED  BY <1>1, <1>6


\* A copy that takes the next event of the room, or an older one, is right about the sales
\* that are later.
LEMMA SalePast ==
    ASSUME Numbered, ver \in Nat, NEW e \in Transit, NEW k \in Nat, e.v <= k + 1, e.type \notin Leaders,
           NEW s \in Sales, e # s, NEW d, NEW c, SaleOf(d, k, s), c.lote = d.lote, c.winner = d.winner
    PROVE  SaleOf(c, e.v, s)
<1> SUFFICES ASSUME d.lote = s.lote PROVE SaleOf(c, e.v, s)
  BY DEF SaleOf
<1>1. e.v \in 1..ver /\ s.v \in 1..ver /\ e.v # s.v /\ \A f \in Transit : f.v \in 1..ver
  BY DEF Sales, Numbered
<1>2. k < s.v /\ (CoveredTo(k, s.v - 1) /\ ~LeadTo(k, s.v - 1) =>
                    d.winner = Leader(s.lote) \/ round[s.lote] > 1)
  BY DEF SaleOf
<1>3. e.v < s.v
  BY <1>1, <1>2
<1>4. ASSUME CoveredTo(e.v, s.v - 1) PROVE CoveredTo(k, s.v - 1)
  <2>1. ASSUME NEW j \in (k + 1)..(s.v - 1) PROVE \E f \in Transit : f.v = j
    BY <1>1, <1>4, <2>1 DEF CoveredTo
  <2> QED  BY <2>1 DEF CoveredTo
<1>5. ASSUME NEW f \in Transit, f.v > k, f.v <= s.v - 1, f.type \in Leaders PROVE LeadTo(e.v, s.v - 1)
  <2>1. f.v # e.v
    BY <1>5 DEF Numbered
  <2>2. f.v > e.v
    BY <1>1, <1>5, <2>1
  <2> QED  BY <1>5, <2>2 DEF LeadTo
<1>6. LeadTo(k, s.v - 1) => LeadTo(e.v, s.v - 1)
  BY <1>5 DEF LeadTo
<1> QED  BY <1>2, <1>3, <1>4, <1>6 DEF SaleOf

LEMMA SaleTaken ==
    ASSUME ServerInv, SaleInv, NEW e \in Transit, NEW k \in 0..ver, e.v <= k + 1,
           NEW d \in View, SaleKnown(d, k), NEW x \in Catalog
    PROVE  SaleKnown(ApplyToView(d, e, x), e.v)
<1> PICK c : c = ApplyToView(d, e, x)
  OBVIOUS
<1> SUFFICES ASSUME NEW s \in Sales PROVE SaleOf(c, e.v, s)
  BY DEF SaleKnown
<1>1. /\ e \in Sent /\ s \in Sent /\ s.lote \in Lotes /\ ver \in Nat /\ Numbered
      /\ e.v \in 1..ver /\ s.v \in 1..ver /\ s \in Transit
      /\ s.type = "lote.closed"
  BY TransitType DEF Sales, Sent, ServerInv, ServerShape, Numbered
<1>2. SaleTrue(s) /\ SaleOf(d, k, s)
  BY DEF SaleInv, SaleKnown
<1>3. e.type \in {"remate", "lote.opened", "lote.closed", "lote.cancelled",
                  "lote.requeued", "lote.timer", "oferta.accepted"}
  BY <1>1 DEF Sent, Event
<1>4. ASSUME e.type \in Leaders, e.v < s.v
      PROVE  CoveredTo(e.v, s.v - 1) /\ ~LeadTo(e.v, s.v - 1)
             => \/ e.type = "oferta.accepted" /\ Leader(s.lote) = e.oferta
                \/ e.type = "lote.opened" /\ Leader(s.lote) = 0
                \/ round[s.lote] > 1
  BY <1>2, <1>4 DEF SaleTrue
<1>5. CASE e.type = "lote.opened"
  <2>1. x[e.lote].status # "absent"
    BY <1>1, <1>5 DEF Sent, Catalog
  <2>0. c = Opened(d, e, x)
    BY <1>5, Patched
  <2>2. c.lote = e.lote /\ c.winner = 0
    BY <2>0, <2>1 DEF Opened, View
  <2>3. SUFFICES ASSUME e.lote = s.lote PROVE SaleOf(c, e.v, s)
    BY <2>2 DEF SaleOf
  <2>4. e.v < s.v
    BY <1>2, <1>5, <2>3 DEF SaleTrue
  <2> QED  BY <1>4, <1>5, <2>2, <2>4 DEF SaleOf, Leaders
<1>6. CASE e.type = "oferta.accepted"
  <2>1. c.lote = d.lote /\ c.winner = e.oferta
    BY <1>6, Patched DEF Accepted, View
  <2>2. SUFFICES ASSUME d.lote = s.lote PROVE SaleOf(c, e.v, s)
    BY <2>1 DEF SaleOf
  <2>3. k < s.v /\ e.v # s.v
    BY <1>1, <1>2, <1>6, <2>2 DEF SaleOf, Numbered
  <2>4. e.v < s.v
    BY <1>1, <2>3
  <2> QED  BY <1>4, <1>6, <2>1, <2>4 DEF SaleOf, Leaders
<1>7. CASE e.type \in Ends
  <2>0. c = Ended(d, e)
    BY <1>7, Patched
  <2>1. c = IF d.lote # e.lote THEN d ELSE [d EXCEPT !.lote = NoLote, !.timer = "none"]
    BY <2>0 DEF Ended
  <2>2. CASE d.lote = e.lote
    <3>1. c.lote = NoLote
      BY <2>1, <2>2 DEF View
    <3> QED  BY <1>1, <3>1, PlansAssumption DEF SaleOf
  <2>3. CASE d.lote # e.lote
    <3>1. c = d
      BY <2>1, <2>3
    <3>2. SUFFICES ASSUME d.lote = s.lote PROVE SaleOf(c, e.v, s)
      BY <3>1 DEF SaleOf
    <3>3. e # s /\ e.type \notin Leaders
      BY <1>7, <2>3, <3>2 DEF Ends, Leaders
    <3> QED  BY <1>1, <1>2, <3>1, <3>3, SalePast
  <2> QED  BY <2>2, <2>3
<1>8. CASE e.type \in {"remate", "lote.timer", "lote.requeued"}
  <2>1. c.lote = d.lote /\ c.winner = d.winner
    <3>1. CASE e.type = "remate"
      BY <3>1, Patched DEF View
    <3>2. CASE e.type = "lote.timer"
      BY <3>2, Patched DEF View, TimerMoved
    <3>3. CASE e.type = "lote.requeued"
      BY <3>3, Patched
    <3> QED  BY <1>8, <3>1, <3>2, <3>3
  <2>2. e # s /\ e.type \notin Leaders
    BY <1>1, <1>8 DEF Leaders
  <2> QED  BY <1>1, <1>2, <2>1, <2>2, SalePast
<1> QED  BY <1>3, <1>5, <1>6, <1>7, <1>8 DEF Ends


\* Steps that commit nothing.
LEMMA Thinned ==
    ASSUME Transit' \subseteq Transit, UNCHANGED <<lot, round, ofertas>>
    PROVE  Settled /\ Fresh /\ Sales' \subseteq Sales
  BY StillSold DEF Fresh, Sales

LEMMA HeldKnown ==
    ASSUME ViewInv, SaleInv, NEW d, NEW k, Holds(d, k) PROVE SaleKnown(d, k) /\ k \in Nat
  BY HeldAge DEF SaleInv

LEMMA ThinSale ==
    ASSUME ViewInv, ViewInv', SaleInv, UNCHANGED <<lot, round, ofertas>>, Transit' \subseteq Transit,
           \A d, k : Holds(d, k)' => SaleKnown(d, k) /\ k \in Nat,
           \A d, k : HoldsLote(d, k)' => FoundBefore(d, k)
    PROVE  SaleInv'
<1>1. Numbered'
  BY DEF ViewInv, ServerInv
<1> QED  BY <1>1, Thinned, SaleIf

\* The copies stay where they are.
LEMMA StillSale ==
    ASSUME ViewInv, ViewInv', SaleInv, UNCHANGED server,
           UNCHANGED <<view, sync, page, cache, chan>>, owed' = owed \/ owed'[1] # "lote"
    PROVE  SaleInv'
<1>1. Transit' \subseteq Transit /\ UNCHANGED <<lot, round, ofertas>>
  BY DEF Transit, Elements, server
<1>2. \A d, k : Holds(d, k)' => Holds(d, k)
  BY DEF Holds, HoldsRaw, HoldsView, Sends, Elements
<1>3. \A d, k : HoldsLote(d, k)' => HoldsLote(d, k)
  BY DEF HoldsLote
<1> QED  BY <1>1, <1>2, <1>3, HeldKnown, ThinSale DEF SaleInv

LEMMA ServerSale ==
    ASSUME ViewInv, ViewInv', SaleInv, ServerStep PROVE SaleInv'
<1>1. UNCHANGED <<view, sync, page, cache, chan, owed>>
  BY DEF ServerStep, net, client, state
<1>2. /\ \A d, k : Holds(d, k)' => Holds(d, k)
      /\ \A d, k : HoldsLote(d, k)' => HoldsLote(d, k)
  BY <1>1 DEF Holds, HoldsLote, HoldsRaw, HoldsView, Sends, Elements
<1>3. Settled /\ Fresh /\ (Sales' \subseteq Sales \/ \E l \in Lotes : EndLote(l, "closed_sold"))
  BY ServerSettles DEF ViewInv
<1>4. Numbered'
  BY DEF ViewInv, ServerInv
<1>5. CASE Sales' \subseteq Sales
  BY <1>2, <1>3, <1>4, <1>5, HeldKnown, SaleIf DEF SaleInv
<1>6. CASE \E l \in Lotes : EndLote(l, "closed_sold")
  BY <1>1, <1>2, <1>6, NewSale
<1> QED  BY <1>3, <1>5, <1>6

LEMMA BusSale ==
    ASSUME ViewInv, ViewInv', SaleInv, BusStep PROVE SaleInv'
<1>1. /\ Transit' \subseteq Transit /\ (\A m : Sends(m)' => Sends(m))
      /\ UNCHANGED <<view, sync, page, cache, owed>>
  BY BusThins DEF ViewInv
<1>2. UNCHANGED <<lot, round, ofertas>>
  BY DEF BusStep, Publish, LoseEvent
<1>3. /\ \A d, k : Holds(d, k)' => Holds(d, k)
      /\ \A d, k : HoldsLote(d, k)' => HoldsLote(d, k)
  BY <1>1 DEF Holds, HoldsLote, HoldsRaw, HoldsView
<1> QED  BY <1>1, <1>2, <1>3, HeldKnown, ThinSale DEF SaleInv

LEMMA SocketSale ==
    ASSUME ViewInv, ViewInv', SaleInv, SocketStep PROVE SaleInv'
<1>1. /\ UNCHANGED <<view, sync, page, cache>> /\ UNCHANGED server /\ chan' \in {chan, <<>>}
      /\ owed' \in {owed, <<"join">>, <<"no">>}
  BY DEF SocketStep, Connected, Drop, Reconnect, Gone, client, state
<1>2. \A m \in Elements(chan') : m \in Elements(chan)
  BY <1>1 DEF Elements
<1>3. Transit' \subseteq Transit /\ UNCHANGED <<lot, round, ofertas>>
  BY <1>1, <1>2, QuietThins DEF server
<1>4. \A d, k : Holds(d, k)' => Holds(d, k)
  BY <1>1, <1>2 DEF Holds, HoldsRaw, HoldsView, Sends
<1>5. owed' = owed \/ owed'[1] # "lote"
  BY <1>1
<1>6. \A d, k : HoldsLote(d, k)' => HoldsLote(d, k)
  BY <1>1, <1>5 DEF HoldsLote
<1> QED  BY <1>3, <1>4, <1>6, HeldKnown, ThinSale DEF SaleInv

LEMMA GatewaySale ==
    ASSUME ViewInv, ViewInv', SaleInv, GatewayStep PROVE SaleInv'
<1>1. CASE JoinRoom \/ RefuseJoin \/ BuildSnapshot \/ SnapshotFails
  <2>1. UNCHANGED server /\ UNCHANGED <<view, sync, page, cache, chan>> /\ owed'[1] # "lote"
    BY <1>1 DEF JoinRoom, RefuseJoin, BuildSnapshot, SnapshotFails, Asked, ReadRemate, client, state
  <2> QED  BY <2>1, StillSale
<1>4. CASE LoteForSnapshot
  <2> PICK found : found = ActiveLote
    OBVIOUS
  <2>1. UNCHANGED server /\ UNCHANGED <<view, sync, page, cache, chan>>
        /\ owed' = <<"lote", owed[2], owed[3], found>>
    BY <1>4 DEF LoteForSnapshot, ReadLote, client, state
  <2>2. \A k : FoundBefore(found, k)
    BY FoundNow
  <2>3. \A d, k : HoldsLote(d, k)' => FoundBefore(d, k)
    BY <2>1, <2>2 DEF HoldsLote, SaleInv
  <2>4. Transit' \subseteq Transit /\ UNCHANGED <<lot, round, ofertas>>
    BY <2>1 DEF Transit, Elements, server
  <2>5. \A d, k : Holds(d, k)' => Holds(d, k)
    BY <2>1 DEF Holds, HoldsRaw, HoldsView, Sends, Elements
  <2> QED  BY <2>3, <2>4, <2>5, HeldKnown, ThinSale
<1>2. CASE SendSnapshot
  <2> PICK raw : raw = RawOf(owed)
    OBVIOUS
  <2> PICK b : b = Built(owed, raw)
    OBVIOUS
  <2> PICK m : m = [type |-> "snapshot", at |-> b.at, data |-> b.data]
    OBVIOUS
  <2>1. StatusKnown(owed[2], owed[3]) /\ RawKnown(raw, raw.at) /\ SaleKnown(raw, raw.at)
    <3>1. HasRaw(owed) /\ owed[1] \in {"remate", "lote"}
      BY <1>2 DEF SendSnapshot, HasRaw
    <3>2. StatusKnown(owed[2], owed[3])
      BY <3>1 DEF Known, HoldsStatus, ViewInv
    <3>3. owed[1] = "lote" => LoteKnown(owed[4], owed[4].at) /\ FoundBefore(owed[4], owed[4].at)
      BY DEF Known, HoldsLote, ViewInv, SaleInv
    <3> QED  BY <3>1, <3>2, <3>3, RawOfKnown, RawOfSale
  <2>2. ViewKnown(b.data, b.at) /\ SaleKnown(b.data, b.at)
    BY <2>1, BuiltKnown, BuiltSale DEF StatusKnown, RawKnown
  <2>3. /\ chan' = Append(chan, m) /\ cache' = raw /\ UNCHANGED server
        /\ UNCHANGED <<view, sync, page>> /\ owed' = <<"no">>
    BY <1>2 DEF SendSnapshot, client, state
  <2>4. m.type = "snapshot" /\ chan \in Seq(Sent \cup Snapshot)
    BY DEF ViewInv, ServerInv, ServerShape
  <2>5. \A n \in Elements(chan') : n \in Elements(chan) \/ n = m
    BY <2>3, <2>4 DEF Elements
  <2>6. Transit' \subseteq Transit /\ UNCHANGED <<lot, round, ofertas>>
    BY <2>3, <2>4, <2>5, QuietThins DEF server
  <2>7. ASSUME NEW d, NEW k, Holds(d, k)' PROVE SaleKnown(d, k) /\ k \in Nat
    <3>1. HoldsView(d, k) \/ (d = b.data /\ k = b.at) \/ (d = raw /\ k = raw.at)
      BY <2>3, <2>5, <2>7 DEF Holds, HoldsRaw, HoldsView, Sends
    <3>2. raw.at \in Nat /\ b.at \in Nat
      BY <2>1, <2>2 DEF RawKnown, ViewKnown
    <3> QED  BY <2>1, <2>2, <3>1, <3>2, HeldKnown DEF Holds
  <2>8. \A d, k : HoldsLote(d, k)' => FoundBefore(d, k)
    BY <2>3 DEF HoldsLote, SaleInv
  <2> QED  BY <2>6, <2>7, <2>8, ThinSale
<1>3. CASE ExpireCache
  <2>1. UNCHANGED server /\ UNCHANGED <<view, sync, page, chan, owed>> /\ cache' = NoCache
    BY <1>3 DEF ExpireCache, net, client, state
  <2>2. Transit' \subseteq Transit /\ UNCHANGED <<lot, round, ofertas>>
    BY <2>1, QuietThins DEF server
  <2>3. \A d, k : Holds(d, k)' => Holds(d, k)
    BY <2>1 DEF Holds, HoldsRaw, HoldsView, Sends, Elements
  <2>4. \A d, k : HoldsLote(d, k)' => FoundBefore(d, k)
    BY <2>1 DEF HoldsLote, SaleInv
  <2> QED  BY <2>2, <2>3, <2>4, HeldKnown, ThinSale
<1> QED  BY <1>1, <1>2, <1>3, <1>4 DEF GatewayStep


LEMMA PageSale ==
    ASSUME ViewInv, ViewInv', SaleInv, PageStep PROVE SaleInv'
<1>1. UNCHANGED <<chan, owed>> /\ UNCHANGED server
  BY DEF PageStep, BuildPage, LoteForPage, ServePage, PageArrives, PageFails, Reload, ServeLotes, LotesArrive,
     net
<1>2. Transit' \subseteq Transit /\ UNCHANGED <<lot, round, ofertas>>
  BY <1>1, QuietThins DEF server
<1>3. \A m : Sends(m)' => Sends(m)
  BY <1>1 DEF Sends, Elements
<1> USE DEF Asked, ReadRemate
<1>4. CASE BuildPage \/ PageFails \/ Reload
  <2>1. UNCHANGED <<view, sync, cache>> /\ page'[1] \notin {"answer", "lote"}
    BY <1>4 DEF BuildPage, PageFails, Reload, state
  <2>2. /\ \A d, k : Holds(d, k)' => Holds(d, k)
        /\ \A d, k : HoldsLote(d, k)' => FoundBefore(d, k)
    BY <1>1, <1>3, <2>1 DEF Holds, HoldsLote, HoldsRaw, HoldsView, SaleInv
  <2> QED  BY <1>2, <2>2, HeldKnown, ThinSale
<1>8. CASE LoteForPage
  <2> PICK found : found = ActiveLote
    OBVIOUS
  <2>1. UNCHANGED <<view, sync, cache>> /\ page' = <<"lote", page[2], page[3], found>>
    BY <1>8 DEF LoteForPage, ReadLote, state
  <2>2. \A k : FoundBefore(found, k)
    BY FoundNow
  <2>3. \A d, k : HoldsLote(d, k)' => FoundBefore(d, k)
    BY <1>1, <2>1, <2>2 DEF HoldsLote, SaleInv
  <2>4. \A d, k : Holds(d, k)' => Holds(d, k)
    BY <1>3, <2>1 DEF Holds, HoldsRaw, HoldsView
  <2> QED  BY <1>2, <2>3, <2>4, HeldKnown, ThinSale
<1>5. CASE ServePage
  <2> PICK raw : raw = RawOf(page)
    OBVIOUS
  <2> PICK b : b = Built(page, raw)
    OBVIOUS
  <2>1. /\ UNCHANGED <<view, sync>> /\ page' = <<"answer", b>> /\ cache' = raw
        /\ HasRaw(page) /\ page[1] \in {"remate", "lote"}
    BY <1>5 DEF ServePage, HasRaw, state
  <2>2. StatusKnown(page[2], page[3]) /\ RawKnown(raw, raw.at) /\ SaleKnown(raw, raw.at)
    <3>1. StatusKnown(page[2], page[3])
      BY <2>1 DEF ViewInv, Known, HoldsStatus
    <3>2. page[1] = "lote" => LoteKnown(page[4], page[4].at) /\ FoundBefore(page[4], page[4].at)
      BY DEF Known, HoldsLote, ViewInv, SaleInv
    <3> QED  BY <2>1, <3>1, <3>2, RawOfKnown, RawOfSale
  <2>3. ViewKnown(b.data, b.at) /\ SaleKnown(b.data, b.at)
    BY <2>2, BuiltKnown, BuiltSale DEF StatusKnown, RawKnown
  <2>4. ASSUME NEW d, NEW k, Holds(d, k)' PROVE SaleKnown(d, k) /\ k \in Nat
    <3>1. HoldsView(d, k) \/ (d = b.data /\ k = b.at) \/ (d = raw /\ k = raw.at)
      BY <1>3, <2>1, <2>4 DEF Holds, HoldsRaw, HoldsView
    <3>2. raw.at \in Nat /\ b.at \in Nat
      BY <2>2, <2>3 DEF RawKnown, ViewKnown
    <3> QED  BY <2>2, <2>3, <3>1, <3>2, HeldKnown DEF Holds
  <2>5. \A d, k : HoldsLote(d, k)' => FoundBefore(d, k)
    BY <1>1, <2>1 DEF HoldsLote, SaleInv
  <2> QED  BY <1>2, <2>4, <2>5, ThinSale
<1>6. CASE PageArrives
  <2>1. /\ UNCHANGED cache /\ page' = <<"done">> /\ page[1] = "answer"
        /\ view' = page[2].data /\ sync'.at = page[2].at
    BY <1>6 DEF PageArrives
  <2>2. /\ \A d, k : Holds(d, k)' => Holds(d, k)
        /\ \A d, k : HoldsLote(d, k)' => FoundBefore(d, k)
    BY <1>1, <1>3, <2>1 DEF Holds, HoldsLote, HoldsRaw, HoldsView, SaleInv
  <2> QED  BY <1>2, <2>2, HeldKnown, ThinSale
<1>7. CASE ServeLotes \/ LotesArrive
  <2>1. UNCHANGED <<view, sync, page, cache>>
    BY <1>7 DEF ServeLotes, LotesArrive, state
  <2> QED  BY <1>1, <2>1, StillSale
<1> QED  BY <1>4, <1>5, <1>6, <1>7, <1>8 DEF PageStep

LEMMA DeliverSale ==
    ASSUME ViewInv, ViewInv', SaleInv, Deliver PROVE SaleInv'
<1> PICK e : e = Head(chan)
  OBVIOUS
<1>1. /\ UNCHANGED <<page, cache, owed>> /\ UNCHANGED server
      /\ chan # <<>> /\ chan' = Tail(chan)
      /\ IF e.type = "snapshot" THEN DeliverSnapshot(e) ELSE DeliverEvent(e)
  BY DEF Deliver
<1>2. e \in Elements(chan) /\ Elements(chan') \subseteq Elements(chan)
  <2>1. chan \in Seq(Sent \cup Snapshot)
    BY DEF ViewInv, ServerInv, ServerShape
  <2>2. 1 \in DOMAIN chan /\ e = chan[1]
    BY <1>1, <2>1
  <2>3. \A i \in DOMAIN Tail(chan) : i + 1 \in DOMAIN chan /\ Tail(chan)[i] = chan[i + 1]
    BY <2>1
  <2> QED  BY <1>1, <2>1, <2>2, <2>3 DEF Elements
<1>3. Transit' \subseteq Transit /\ UNCHANGED <<lot, round, ofertas>>
  BY <1>1, <1>2, QuietThins DEF server
<1>4. \A m : Sends(m)' => Sends(m)
  BY <1>2 DEF Sends
<1>8. \A d, k : HoldsLote(d, k)' => FoundBefore(d, k)
  BY <1>1 DEF HoldsLote, SaleInv
<1>5. CASE e.type = "snapshot"
  <2>1. view' = e.data /\ sync'.at = e.at /\ Sends(e)
    BY <1>1, <1>2, <1>5 DEF DeliverSnapshot, Sends
  <2>2. \A d, k : Holds(d, k)' => Holds(d, k)
    BY <1>1, <1>4, <2>1 DEF Holds, HoldsRaw, HoldsView
  <2> QED  BY <1>3, <1>8, <2>2, HeldKnown, ThinSale
<1>6. CASE e.type # "snapshot" /\ view.status = "none"
  <2>1. UNCHANGED <<view, sync>>
    BY <1>1, <1>6 DEF DeliverEvent
  <2>2. \A d, k : Holds(d, k)' => Holds(d, k)
    BY <1>1, <1>4, <2>1 DEF Holds, HoldsRaw, HoldsView
  <2> QED  BY <1>3, <1>8, <2>2, HeldKnown, ThinSale
<1>7. CASE e.type # "snapshot" /\ view.status # "none"
  <2>1. ASSUME NEW d, NEW k, sync'.at >= 0, d = view', k = sync'.at
        PROVE  SaleKnown(d, k) /\ k \in Nat
    <3>1. /\ e \in Transit /\ e.v \in 1..ver /\ k = e.v
          /\ sync.at \in 0..ver /\ e.v <= sync.at + 1 /\ ViewKnown(view, sync.at)
          /\ \E x \in Catalog : d = ApplyToView(view, e, x)
      BY <1>7, <2>1, DeliverTakes
    <3>2. PICK x \in Catalog : d = ApplyToView(view, e, x)
      BY <3>1
    <3>3. SaleKnown(view, sync.at)
      BY <3>1, HeldKnown DEF Holds, HoldsView
    <3>4. view \in View /\ ServerInv
      BY DEF ViewInv, PageShape
    <3> QED  BY <3>1, <3>2, <3>3, <3>4, SaleTaken
  <2>2. ASSUME NEW d, NEW k, Holds(d, k)' PROVE SaleKnown(d, k) /\ k \in Nat
    <3>1. Holds(d, k) \/ (sync'.at >= 0 /\ d = view' /\ k = sync'.at)
      BY <1>1, <1>4, <2>2 DEF Holds, HoldsRaw, HoldsView
    <3> QED  BY <2>1, <3>1, HeldKnown
  <2> QED  BY <1>3, <1>8, <2>2, ThinSale
<1> QED  BY <1>5, <1>6, <1>7

LEMMA ScreenSale ==
    ASSUME ViewInv, ViewInv', SaleInv, ScreenStep PROVE SaleInv'
<1>1. CASE Render \/ Continue
  <2>1. UNCHANGED server /\ UNCHANGED <<view, sync, page, cache, chan, owed>>
    BY <1>1 DEF Render, Continue, net, state
  <2> QED  BY <2>1, StillSale
<1>2. CASE Leave
  <2>1. UNCHANGED server /\ UNCHANGED <<view, sync, page, cache>> /\ chan' = <<>> /\ owed' = <<"no">>
    BY <1>2 DEF Leave, Disconnect, Gone, state
  <2>2. Elements(chan') = {}
    BY <2>1 DEF Elements
  <2>3. Transit' \subseteq Transit /\ UNCHANGED <<lot, round, ofertas>>
    BY <2>1, <2>2, QuietThins DEF server
  <2>4. /\ \A d, k : Holds(d, k)' => Holds(d, k)
        /\ \A d, k : HoldsLote(d, k)' => FoundBefore(d, k)
    BY <2>1, <2>2 DEF Holds, HoldsLote, HoldsRaw, HoldsView, Sends, SaleInv
  <2> QED  BY <2>3, <2>4, HeldKnown, ThinSale
<1> QED  BY <1>1, <1>2, DeliverSale DEF ScreenStep

LEMMA BidSale ==
    ASSUME BidInv, ViewInv, ViewInv', SaleInv, BidStep PROVE SaleInv'
<1>1. UNCHANGED <<view, sync, page, cache, chan, owed>>
  BY DEF BidStep, Submit, Touch, ServeBid, GiveUp, Answer, net, client, state
<1>2. CASE UNCHANGED server
  BY <1>1, <1>2, StillSale
<1>3. CASE ~ UNCHANGED server
  <2>1. PICK r \in reqs : ServeBid(r)
    BY <1>3 DEF BidStep, Submit, Touch, GiveUp, Answer
  <2>2. /\ \A d, k : Holds(d, k)' => Holds(d, k)
        /\ \A d, k : HoldsLote(d, k)' => FoundBefore(d, k)
    BY <1>1 DEF Holds, HoldsLote, HoldsRaw, HoldsView, Sends, Elements, SaleInv
  <2>3. ServerInv /\ ServerShape /\ r.lote \in Lotes /\ Numbered'
    BY DEF ViewInv, PageShape, ServerInv
  <2>4. r.token \in Nat
    BY DEF BidInv, Typed, Bid
  <2>5. CASE Refused(r.lote, r.amount)
    <3>1. PICK row : /\ row.status = "rejected" /\ ofertas' = Append(ofertas, row)
                     /\ UNCHANGED <<status, lot, round, ver, outbox>>
      BY <1>3, <2>1, <2>5 DEF ServeBid
    <3>2. PICK U : ofertas \in Seq(Row(U))
      BY <2>3 DEF ServerShape
    <3>3. /\ DOMAIN ofertas \subseteq DOMAIN ofertas'
          /\ \A i \in DOMAIN ofertas : ofertas'[i] = ofertas[i]
          /\ \A i \in DOMAIN ofertas' \ DOMAIN ofertas : ofertas'[i] = row
      BY <3>1, <3>2
    <3>4. \A m : Leader(m)' = Leader(m)
      BY <3>1, <3>3, SameLeaders
    <3>5. Transit' = Transit
      BY <1>1, <3>1 DEF Transit
    <3>6. Settled /\ Fresh /\ Sales' \subseteq Sales
      BY <3>1, <3>4, <3>5 DEF Settled, Fresh, Sales
    <3> QED  BY <2>2, <2>3, <3>6, HeldKnown, SaleIf
  <2>6. CASE ~ Refused(r.lote, r.amount)
    <3>1. Accept(r.lote, TRUE, r.amount, r.token) /\ Open(r.lote)
      BY <1>3, <2>1, <2>6 DEF ServeBid, Refused, Open
    <3>2. Settled /\ Fresh /\ Sales' \subseteq Sales
      BY <1>1, <2>3, <2>4, <3>1, AcceptSettles
    <3> QED  BY <2>2, <2>3, <3>2, HeldKnown, SaleIf
  <2> QED  BY <2>5, <2>6
<1> QED  BY <1>2, <1>3

LEMMA StepSale ==
    ASSUME BidInv, ViewInv, ViewInv', SaleInv, [Next]_vars PROVE SaleInv'
<1>1. CASE UNCHANGED vars
  <2>1. UNCHANGED server /\ UNCHANGED <<view, sync, page, cache, chan, owed>>
    BY <1>1 DEF vars, net, client, state
  <2> QED  BY <2>1, StillSale
<1> QED  BY <1>1, ServerSale, GatewaySale, BusSale, SocketSale, PageSale, ScreenSale, BidSale DEF Next

LEMMA InitSale == ASSUME Init PROVE SaleInv
<1>1. outbox = {} /\ chan = <<>>
  BY DEF Init
<1>2. Transit = {}
  BY <1>1 DEF Transit, Elements
<1> QED  BY <1>2 DEF SaleInv, SaleKnown, FoundBefore, Sales

\* A sale on its way is final, the last event about the leader before it says who bought,
\* and a copy that still shows the lote is older than it.
THEOREM SalesAreKnown == Spec => []SaleInv
<1>1. Init => SaleInv
  BY InitSale
<1>2. SalaInv /\ SalaInv' /\ SaleInv /\ [Next]_vars => SaleInv'
  BY StepSale DEF SalaInv
<1> QED  BY <1>1, <1>2, RoomInvariant, PTL DEF Spec

Congratulated ==
    (Deliver /\ Head(chan).type = "lote.closed") =>
       LET e == Head(chan)
           i == Leader(e.lote)
       IN  (/\ e.arg = "closed_sold" /\ sync.at = e.v - 1 /\ round[e.lote] = 1
            /\ shown = view /\ view.lote = e.lote)
           => (won' = e.lote <=> (won = e.lote \/ (i # 0 /\ ofertas[i].mine)))

LEMMA SaleIsTold == ASSUME SalaInv, SaleInv, [Next]_vars PROVE [Congratulated]_vars
<1> PICK e : e = Head(chan)
  OBVIOUS
<1> SUFFICES ASSUME Deliver, e.type = "lote.closed", e.arg = "closed_sold", sync.at = e.v - 1,
                    round[e.lote] = 1, shown = view, view.lote = e.lote
             PROVE  won' = e.lote <=>
                       (won = e.lote \/ (Leader(e.lote) # 0 /\ ofertas[Leader(e.lote)].mine))
  BY DEF Congratulated
<1>1. e \in Transit /\ e \in Sales
  <2>1. chan \in Seq(Sent \cup Snapshot) /\ chan # <<>>
    BY DEF Deliver, SalaInv, ViewInv, ServerInv, ServerShape
  <2>2. e \in Elements(chan)
    BY <2>1 DEF Elements
  <2> QED  BY <2>2 DEF Transit, Sales
<1>2. e.v \in 1..ver /\ ver \in Nat /\ \A f \in Transit : f.v \in 1..ver
  BY <1>1 DEF SalaInv, ViewInv, ServerInv, ServerShape, Numbered
<1>3. SaleOf(view, sync.at, e) /\ SaleTrue(e)
  <2>1. sync.at >= 0
    BY <1>2
  <2> QED  BY <1>1, <2>1 DEF SaleInv, SaleKnown, Holds, HoldsView
<1>4. CoveredTo(sync.at, e.v - 1) /\ ~LeadTo(sync.at, e.v - 1)
  BY <1>2 DEF CoveredTo, LeadTo
<1>5. shown.winner = Leader(e.lote)
  BY <1>3, <1>4 DEF SaleOf
<1>6. won' = IF WonBy(e) THEN e.lote ELSE won
  BY DEF Deliver, DeliverEvent
<1>7. WonBy(e) <=> Leader(e.lote) # 0 /\ ofertas[Leader(e.lote)].mine
  BY <1>5 DEF WonBy
<1> QED  BY <1>6, <1>7

\* LoteWonOverlay: the page that followed the server and shows the lote being sold
\* congratulates the buyer exactly when the offer that leads is his.
THEOREM WinnersAreCongratulated == Spec => WinnerIsCongratulated
<1>1. SalaInv /\ SaleInv /\ [Next]_vars => [Congratulated]_vars
  BY SaleIsTold
<1>2. WinnerIsCongratulated <=> [][Congratulated]_vars
  BY PTL DEF WinnerIsCongratulated, Congratulated
<1> QED  BY <1>1, <1>2, RoomInvariant, SalesAreKnown, PTL DEF Spec
==============================================================================
