-------------------------------- MODULE Catalogo --------------------------------
(***************************************************************************)
(* The catalogue of a remate that is being prepared: LoteService.create,   *)
(* update, soft_delete, reorder, upload_image and the list, over the rows  *)
(* of the lotes.  The requests travel in the sessions of Session.          *)
(*                                                                         *)
(* A lote number is a pair <<n, c>>: "n" when c = 0, else the c-th         *)
(* "n-copia".  A photo is the number of the file that was stored.  The     *)
(* uploads of one batch settle together, each file on its own.             *)
(***************************************************************************)
EXTENDS Session, Sequences, Functions

VARIABLES lotes,     \* the rows, in the order they were created
          editable,  \* the remate is a draft or scheduled
          photos,    \* how many files have been stored
          raced      \* (history) two writers of display_order overlapped

serverVars == <<lotes, editable, photos, raced>>
------------------------------------------------------------------------------
Live == {i \in DOMAIN lotes : lotes[i].here}
Orders == {lotes[i].order : i \in Live}
Taken(n) == \E i \in Live : lotes[i].number = n           \* the unique index of live rows

\* (variant) The count of the live rows.
IsCount(o) == o = Cardinality(Live)

\* next_display_order: one above the greatest.
IsNextOrder(o) == o \in {0} \cup {k + 1 : k \in Orders} /\ \A k \in Orders : k < o

\* The requests between the unlocked read of an order and its commit.
Reading == {r \in Tabs \X Slots : calls[r[1]][r[2]].phase = "read"}
Reads(t, s, ans) == Goes(t, s, [calls[t][s] EXCEPT !.phase = "read", !.ans = ans])

CatalogoInit ==
    /\ lotes = [i \in 1..left.lotes |->
                   [number |-> <<i, 0>>, order |-> i - 1, here |-> TRUE,
                    images |-> IF i = 1 THEN [k \in 1..left.photos |-> k] ELSE <<>>]]
    /\ editable = TRUE
    /\ photos = left.photos
    /\ raced = FALSE

\* list_by_remate: the live rows by display_order; among equals, the older or the newer
\* ones first.
Before(i, j, older) == \/ lotes[i].order < lotes[j].order
                       \/ lotes[i].order = lotes[j].order /\ IF older THEN i < j ELSE j < i
Listing(older) == [k \in 1..Cardinality(Live) |->
                      CHOOSE i \in Live : Cardinality({j \in Live : Before(j, i, older)}) = k - 1]
Listings == {Listing(older) : older \in BOOLEAN}
Shown(i) == [id |-> i, number |-> lotes[i].number, images |-> lotes[i].images]

ServeList(t, s) ==
    /\ Welcome(calls[t][s]) /\ calls[t][s].what.op = "list"
    /\ \E q \in Listings :
          Answered(t, s, [op |-> "list", rows |-> [i \in DOMAIN q |-> Shown(q[i])]])
    /\ UNCHANGED <<left, serverVars>>
------------------------------------------------------------------------------
\* create takes the next order without a lock...
CreateReads(t, s) ==
    /\ Welcome(calls[t][s]) /\ calls[t][s].what.op = "create"
    /\ \/ ~editable /\ Answered(t, s, Failed)
       \/ editable /\ \E o \in 0..Len(lotes) + 1 :
                         IsNextOrder(o) /\ Reads(t, s, [op |-> "order", order |-> o])
    /\ UNCHANGED <<left, serverVars>>

\* ... and inserts the lote, unless its number is taken by then.
CreateCommits(t, s) ==
    LET c == calls[t][s] IN
    /\ c.phase = "read" /\ c.what.op = "create"
    /\ \/ /\ Taken(c.what.number)
          /\ Answered(t, s, Failed)
          /\ UNCHANGED <<lotes, raced>>
       \/ /\ ~Taken(c.what.number)
          /\ Answered(t, s, [op |-> "lote", id |-> Len(lotes) + 1, images |-> c.what.images])
          /\ lotes' = Append(lotes, [number |-> c.what.number, order |-> c.ans.order,
                                     here |-> TRUE, images |-> c.what.images])
          /\ raced' = (raced \/ Reading # {<<t, s>>})
    /\ UNCHANGED <<left, editable, photos>>

\* reorder reads every live row without a lock and wants exactly those...
ReorderReads(t, s) ==
    LET c == calls[t][s]
        exact == Range(c.what.ids) = Live /\ Len(c.what.ids) = Cardinality(Live) IN
    /\ Welcome(c) /\ c.what.op = "reorder"
    /\ \/ editable /\ exact /\ Reads(t, s, [op |-> "orders", orders |-> [i \in Live |-> lotes[i].order]])
       \/ ~(editable /\ exact) /\ Answered(t, s, Failed)
    /\ UNCHANGED <<left, serverVars>>

\* ... and writes the rows whose order differs from the one it read.
ReorderCommits(t, s) ==
    LET c == calls[t][s]
        Place(i) == (CHOOSE k \in DOMAIN c.what.ids : c.what.ids[k] = i) - 1
        moved == {i \in DOMAIN c.ans.orders : Place(i) # c.ans.orders[i]} IN
    /\ c.phase = "read" /\ c.what.op = "reorder"
    /\ Answered(t, s, Done)
    /\ lotes' = [i \in DOMAIN lotes |->
                    IF i \in moved THEN [lotes[i] EXCEPT !.order = Place(i)] ELSE lotes[i]]
    /\ raced' = (raced \/ Reading # {<<t, s>>})
    /\ UNCHANGED <<left, editable, photos>>
------------------------------------------------------------------------------
(* update, soft_delete and upload_image hold the lock of the row from      *)
(* their first read of it to their commit.                                 *)
Owned(c) == editable /\ c.what.lote \in Live

\* What the three have in common: the row changes and the caller hears of it, or neither.
ServeOwned(t, s, op, fits, ans, row) ==
    LET c == calls[t][s] IN
    /\ Welcome(c) /\ c.what.op = op
    /\ Answered(t, s, IF Owned(c) /\ fits THEN ans ELSE Failed)
    /\ lotes' = IF Owned(c) /\ fits THEN [lotes EXCEPT ![c.what.lote] = row] ELSE lotes
    /\ UNCHANGED <<left, editable, photos, raced>>

ServeEdit(t, s) ==
    LET w == calls[t][s].what
        free == ~\E i \in Live \ {w.lote} : lotes[i].number = w.number IN
    ServeOwned(t, s, "edit", free, Done, [lotes[w.lote] EXCEPT !.number = w.number])

ServePhotos(t, s) ==
    LET w == calls[t][s].what IN
    ServeOwned(t, s, "photos", TRUE, [op |-> "lote", id |-> w.lote, images |-> w.images],
               [lotes[w.lote] EXCEPT !.images = w.images])

ServeDelete(t, s) ==
    ServeOwned(t, s, "delete", TRUE, Done, [lotes[calls[t][s].what.lote] EXCEPT !.here = FALSE])

\* Each file of a batch is stored or, with a fault, not; the row is not touched.
ServeUpload(t, s) ==
    LET c == calls[t][s]
        stored(k) == [op |-> "urls", urls |-> [i \in 1..k |-> photos + i]] IN
    /\ Welcome(c) /\ c.what.op = "upload"
    /\ \/ ~Owned(c) /\ Answered(t, s, stored(0)) /\ UNCHANGED <<left, photos>>
       \/ /\ Owned(c)
          /\ \E k \in 0..c.what.files :
                /\ IF k < c.what.files THEN Uses("faults") /\ Spend("faults") ELSE UNCHANGED left
                /\ photos' = photos + k
                /\ Answered(t, s, stored(k))
    /\ UNCHANGED <<lotes, editable, raced>>

\* The remate starts, or is cancelled: its structure is frozen.
Freeze ==
    /\ editable /\ Uses("freezes") /\ Spend("freezes")
    /\ editable' = FALSE
    /\ UNCHANGED <<calls, lotes, photos, raced>>

CatalogoProgress ==
    \E t \in Tabs, s \in Slots :
       \/ ServeList(t, s) \/ CreateReads(t, s) \/ CreateCommits(t, s)
       \/ ReorderReads(t, s) \/ ReorderCommits(t, s)
       \/ ServeEdit(t, s) \/ ServePhotos(t, s) \/ ServeDelete(t, s) \/ ServeUpload(t, s)
================================================================================
