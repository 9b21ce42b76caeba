------------------------------ MODULE Preparacion ------------------------------
(***************************************************************************)
(* LotesManagementPage in one tab: its list of lotes, the panel of a lote  *)
(* (LoteDrawer) and the gallery of its photos (LoteGalleryManager), over   *)
(* the catalogue of the server and the sessions of the tabs.  The other    *)
(* tabs read, and create and delete lotes.                                 *)
(*                                                                         *)
(* The component that shows a gallery is mounted anew each time the panel  *)
(* comes to its photos; refs keeps what each mounted one saw last.         *)
(***************************************************************************)
EXTENDS Catalogo

CONSTANTS Page       \* the tab that shows the page
ASSUME PageAssumption == Page \in Tabs /\ Nobody \notin Tabs
\* A plan starts with its lotes and with the session of the tabs that work.
ASSUME PlansAssumption == \A plan \in Plans :
    plan.lotes \in Nat /\ plan.photos \in Nat /\ plan.tabs \subseteq Tabs /\ plan.tabs # {} /\ IsFiniteSet(plan.tabs)

VARIABLES page,      \* is it there, its list, and the load it waits for
          drawer,    \* the panel of a lote
          refs,      \* imagesRef of each gallery that was mounted
          crossed,   \* (history) the list was overtaken, see Overtaken
          clashed,   \* (history) lotes whose photos were saved in parallel, see Clashing
          binned     \* (history) photos the user removed from a lote

pageVars == <<page, drawer, refs, binned>>
vars == <<left, calls, sessionVars, serverVars, pageVars, crossed, clashed>>

Closed == [mode |-> "closed", lote |-> 0, number |-> <<0, 0>>, saved |-> {}, busy |-> FALSE,
           step |-> "photos", shows |-> 0, images |-> <<>>, mount |-> 0]

PageInit ==
    /\ page = [open |-> TRUE, rows |-> [i \in DOMAIN lotes |-> Shown(i)], list |-> "ready", load |-> 0]
    /\ drawer = Closed
    /\ refs = <<>>
    /\ crossed = FALSE
    /\ clashed = {}
    /\ binned = {}

\* What the user does takes a step of the bound.
Step == store[Page] # 0 /\ Uses("steps") /\ Spend("steps")
ListInView == page.open /\ page.list = "ready" /\ drawer.mode = "closed"
Asks(what) == Asking(Page, what)

\* The answer of a request of the page, and what its slot does next.
Hears(s, op) == page.open /\ Heard(calls[Page][s]) /\ calls[Page][s].what.op = op
What(s) == calls[Page][s].what
Ends(s) == Goes(Page, s, NoCall)
Then(s, what) == Goes(Page, s, Fresh(what, store[Page]))

\* reload() of useAsyncResource: a new load, which makes the earlier ones stale.
Loading == [page EXCEPT !.load = @ + 1, !.list = "loading"]
Reload1(s) == page' = Loading /\ Then(s, [op |-> "list", load |-> page.load + 1])

ListArrives(s) ==
    LET ans == calls[Page][s].ans IN
    /\ Hears(s, "list")
    /\ page' = IF What(s).load # page.load THEN page
               ELSE IF Refusal(calls[Page][s]) THEN [page EXCEPT !.list = "error"]
               ELSE [page EXCEPT !.list = "ready", !.rows = ans.rows]
    /\ Ends(s)
    /\ UNCHANGED <<left, drawer, refs, binned>>

TryAgain ==
    /\ Step /\ page.open /\ page.list = "error" /\ drawer.mode = "closed"
    /\ page' = Loading
    /\ Asks([op |-> "list", load |-> page.load + 1])
    /\ UNCHANGED <<drawer, refs, binned>>
------------------------------------------------------------------------------
(* The list: moving, deleting and duplicating a lote.                      *)

Swapped(q, k) == [q EXCEPT ![k] = q[k + 1], ![k + 1] = q[k]]

\* persistReorder shows the new order at once and keeps the old one for a refusal.
MoveLote(k) ==
    /\ Step /\ ListInView /\ k < Len(page.rows)
    /\ LET rows == Swapped(page.rows, k) IN
       /\ page' = [page EXCEPT !.rows = rows]
       /\ Asks([op |-> "reorder", ids |-> [i \in 1..Len(page.rows) |-> rows[i].id], kept |-> page.rows])
    /\ UNCHANGED <<drawer, refs, binned>>

\* (variant) A refused order goes on being shown.
ReorderKept(s) ==
    /\ Hears(s, "reorder")
    /\ Ends(s)
    /\ UNCHANGED <<left, page, drawer, refs, binned>>

ReorderArrives(s) ==
    /\ Hears(s, "reorder")
    /\ page' = IF Refusal(calls[Page][s]) THEN [page EXCEPT !.rows = What(s).kept] ELSE page
    /\ Ends(s)
    /\ UNCHANGED <<left, drawer, refs, binned>>

DeleteLote(k) ==
    /\ Step /\ ListInView
    /\ Asks([op |-> "delete", lote |-> page.rows[k].id])
    /\ UNCHANGED <<page, drawer, refs, binned>>

DeleteArrives(s) ==
    /\ Hears(s, "delete")
    /\ IF Refusal(calls[Page][s]) THEN Ends(s) /\ UNCHANGED page ELSE Reload1(s)
    /\ UNCHANGED <<left, drawer, refs, binned>>

Existing == {page.rows[k].number : k \in DOMAIN page.rows}

\* duplicateLote sends a copy with the first "-copia" the list does not have.
DuplicateLote(k) ==
    LET row == page.rows[k]
        copy == CHOOSE c \in 1..Len(page.rows) : /\ <<row.number[1], c>> \notin Existing
                                                 /\ \A d \in 1..c - 1 : <<row.number[1], d>> \in Existing IN
    /\ Step /\ ListInView /\ row.number[2] = 0
    /\ Asks([op |-> "create", by |-> "list", number |-> <<row.number[1], copy>>,
             images |-> row.images, files |-> 0])
    /\ UNCHANGED <<page, drawer, refs, binned>>

DuplicateArrives(s) ==
    /\ Hears(s, "create") /\ What(s).by = "list"
    /\ IF Refusal(calls[Page][s]) THEN Ends(s) /\ UNCHANGED page ELSE Reload1(s)
    /\ UNCHANGED <<left, drawer, refs, binned>>
------------------------------------------------------------------------------
(* The panel: creating a lote with its photos, and editing one.            *)

\* suggestNextLotNumber
Suggested(numbers) ==
    LET used == {n[1] : n \in numbers} IN
    <<1 + CHOOSE m \in {0} \cup used : \A u \in used : u <= m, 0>>

\* "Agregar lote" is on the page whatever its list is doing.
OpenCreate ==
    /\ Step /\ page.open /\ drawer.mode = "closed"
    /\ drawer' = [Closed EXCEPT !.mode = "create", !.number = Suggested(Existing)]
    /\ UNCHANGED <<calls, page, refs, binned>>

OpenEdit(k) ==
    LET row == page.rows[k] IN
    /\ Step /\ ListInView
    /\ drawer' = [Closed EXCEPT !.mode = "edit", !.lote = row.id, !.number = row.number, !.shows = row.id,
                                !.images = row.images, !.mount = Len(refs) + 1]
    /\ refs' = Append(refs, row.images)
    /\ UNCHANGED <<calls, page, binned>>

\* Closing waits for a save, not for the photos.
CloseDrawer ==
    /\ Step /\ drawer.mode # "closed" /\ ~drawer.busy
    /\ drawer' = Closed
    /\ UNCHANGED <<calls, page, refs, binned>>

\* From the photos to the data and the prices, and back.
LeavePhotos ==
    /\ Step /\ drawer.mode # "closed" /\ drawer.step = "photos"
    /\ drawer' = [drawer EXCEPT !.step = "data", !.mount = 0]
    /\ UNCHANGED <<calls, page, refs, binned>>

BackToPhotos ==
    /\ Step /\ drawer.mode # "closed" /\ drawer.step = "data"
    /\ IF drawer.shows = 0
       THEN drawer' = [drawer EXCEPT !.step = "photos"] /\ UNCHANGED refs
       ELSE /\ drawer' = [drawer EXCEPT !.step = "photos", !.mount = Len(refs) + 1]
            /\ refs' = Append(refs, drawer.images)
    /\ UNCHANGED <<calls, page, binned>>

\* "Guardar lote" and "Guardar y cargar otro", on the last step of the panel.
SaveNew(files, again) ==
    /\ Step /\ drawer.mode = "create" /\ ~drawer.busy
    /\ drawer.number \notin Existing \cup drawer.saved
    /\ drawer' = [drawer EXCEPT !.busy = TRUE, !.step = "data", !.mount = 0]
    /\ Asks([op |-> "create", by |-> "drawer", number |-> drawer.number, images |-> <<>>,
             files |-> files, again |-> again])
    /\ UNCHANGED <<page, refs, binned>>

SaveEdit(n) ==
    /\ Step /\ drawer.mode = "edit" /\ ~drawer.busy
    /\ n = drawer.number \/ n \notin Existing
    /\ drawer' = [drawer EXCEPT !.busy = TRUE, !.step = "data", !.mount = 0]
    /\ Asks([op |-> "edit", lote |-> drawer.lote, number |-> n])
    /\ UNCHANGED <<page, refs, binned>>

\* submitLote ends well: the list is loaded again and the panel closes, or is left blank
\* for another lote.
Saved(s, w) ==
    /\ Reload1(s)
    /\ drawer' = IF w.again
                 THEN [drawer EXCEPT !.busy = FALSE, !.step = "photos", !.saved = @ \cup {w.number},
                                     !.number = Suggested(Existing \cup drawer.saved \cup {w.number})]
                 ELSE Closed

\* ... or badly: the panel stays with the error.
NotSaved(s) == Ends(s) /\ drawer' = [drawer EXCEPT !.busy = FALSE] /\ UNCHANGED page

\* The lote was created: now its photos are uploaded, all at once.
CreateArrives(s) ==
    LET c == calls[Page][s]
        staging == [op |-> "upload", lote |-> c.ans.id, mount |-> 0, images |-> <<>>,
                    files |-> c.what.files, number |-> c.what.number, again |-> c.what.again] IN
    /\ Hears(s, "create") /\ c.what.by = "drawer"
    /\ \/ Refusal(c) /\ NotSaved(s)
       \/ ~Refusal(c) /\ c.what.files = 0 /\ Saved(s, c.what)
       \/ ~Refusal(c) /\ c.what.files > 0 /\ Then(s, staging) /\ UNCHANGED <<page, drawer>>
    /\ UNCHANGED <<left, refs, binned>>

\* Those that were stored are put in the lote with a single PATCH.
StagedArrive(s) ==
    LET c == calls[Page][s]
        urls == IF Refusal(c) THEN <<>> ELSE c.ans.urls
        cover(images) == [op |-> "photos", lote |-> c.what.lote, mount |-> 0, images |-> images,
                          number |-> c.what.number, again |-> c.what.again] IN
    /\ Hears(s, "upload") /\ c.what.mount = 0
    /\ IF urls = <<>> THEN Saved(s, c.what)
       ELSE Then(s, cover(urls)) /\ UNCHANGED <<page, drawer>>
    /\ UNCHANGED <<left, refs, binned>>

CoverArrives(s) ==
    /\ Hears(s, "photos") /\ What(s).mount = 0
    /\ IF Refusal(calls[Page][s]) THEN NotSaved(s) ELSE Saved(s, What(s))
    /\ UNCHANGED <<left, refs, binned>>

EditArrives(s) ==
    /\ Hears(s, "edit")
    /\ IF Refusal(calls[Page][s]) THEN NotSaved(s) ELSE Reload1(s) /\ drawer' = Closed
    /\ UNCHANGED <<left, refs, binned>>
------------------------------------------------------------------------------
(* The gallery: every change is shown at once and saved with the whole     *)
(* list of photos.                                                         *)

\* persistImages of gallery m, of which only the mounted one shows anything.
Persists(s, m, lote, images) ==
    /\ Then(s, [op |-> "photos", lote |-> lote, mount |-> m, images |-> images, kept |-> refs[m]])
    /\ refs' = IF m = drawer.mount THEN [refs EXCEPT ![m] = images] ELSE refs

\* Removing a photo, or moving one.
Arrange(images) ==
    LET m == drawer.mount IN
    /\ Step /\ m # 0 /\ HasRoom(Page)
    /\ Persists(FreeSlot(Page), m, drawer.shows, images)
    /\ binned' = binned \cup {<<drawer.shows, p>> : p \in Range(refs[m]) \ Range(images)}
    /\ UNCHANGED <<page, drawer>>

Rearrangements == IF drawer.mount = 0 THEN {} ELSE
    LET q == refs[drawer.mount] IN
    {[i \in 1..Len(q) - 1 |-> IF i < k THEN q[i] ELSE q[i + 1]] : k \in DOMAIN q}
    \cup {Swapped(q, k) : k \in 1..Len(q) - 1}

Upload(files) ==
    /\ Step /\ drawer.mount # 0
    /\ Asks([op |-> "upload", lote |-> drawer.shows, files |-> files, mount |-> drawer.mount])
    /\ UNCHANGED <<page, drawer, refs, binned>>

\* (variant) What was stored is saved alone.
UploadsReplace(s) ==
    LET c == calls[Page][s]
        m == c.what.mount
        urls == IF Refusal(c) THEN <<>> ELSE c.ans.urls IN
    /\ Hears(s, "upload") /\ m # 0
    /\ IF urls = <<>> THEN Ends(s) /\ UNCHANGED refs
       ELSE Persists(s, m, c.what.lote, urls)
    /\ UNCHANGED <<left, page, drawer, binned>>

\* uploadAll: what was stored is added to what the gallery has by now.
UploadsArrive(s) ==
    LET c == calls[Page][s]
        m == c.what.mount
        urls == IF Refusal(c) THEN <<>> ELSE c.ans.urls IN
    /\ Hears(s, "upload") /\ m # 0
    /\ IF urls = <<>> THEN Ends(s) /\ UNCHANGED refs
       ELSE Persists(s, m, c.what.lote, refs[m] \o urls)
    /\ UNCHANGED <<left, page, drawer, binned>>

\* The answer is shown by the panel that is open by then, whichever it is, and the list
\* is loaded again; a refusal brings back what the gallery had before.
PhotosArrive(s) ==
    LET c == calls[Page][s]
        m == c.what.mount
        showing == drawer.mode # "closed" /\ ~Refusal(c)
        mounts == showing /\ drawer.step = "photos" /\ drawer.mount = 0 IN
    /\ Hears(s, "photos") /\ m # 0
    /\ IF Refusal(c) THEN Ends(s) /\ UNCHANGED page ELSE Reload1(s)
    /\ drawer' = IF showing THEN [drawer EXCEPT !.shows = c.ans.id, !.images = c.ans.images,
                                                !.mount = IF mounts THEN Len(refs) + 1 ELSE @]
                 ELSE drawer
    /\ refs' = IF Refusal(c) THEN IF m = drawer.mount THEN [refs EXCEPT ![m] = c.what.kept] ELSE refs
               ELSE IF mounts THEN Append(refs, c.ans.images)
               ELSE IF showing /\ drawer.mount # 0 THEN [refs EXCEPT ![drawer.mount] = c.ans.images]
               ELSE refs
    /\ UNCHANGED <<left, binned>>
------------------------------------------------------------------------------
(* The other tabs, and the end of the page.                                *)

Elsewhere(t, what) ==
    /\ t # Page /\ store[t] # 0 /\ Uses("rivals") /\ Spend("rivals")
    /\ Asking(t, what)
    /\ UNCHANGED pageVars

RivalCreates(t) ==
    Elsewhere(t, [op |-> "create", number |-> Suggested({lotes[i].number : i \in Live}), images |-> <<>>])
RivalDeletes(t, i) == Elsewhere(t, [op |-> "delete", lote |-> i])

\* Nobody shows the answer: it is of another tab, or the page is gone.
Unheard(t, s) ==
    /\ Heard(calls[t][s]) /\ calls[t][s].what.op \notin {"read", "me"}
    /\ t # Page \/ ~page.open
    /\ Goes(t, s, NoCall)
    /\ UNCHANGED <<left, pageVars>>

\* RequireAuth: a tab without a session shows the login instead.
Guarded ==
    /\ page' = IF store'[Page] = 0 THEN [page EXCEPT !.open = FALSE] ELSE page
    /\ drawer' = IF store'[Page] = 0 THEN Closed ELSE drawer
    /\ UNCHANGED <<refs, binned>>
------------------------------------------------------------------------------
(* What is remembered for the properties.                                  *)

Writes == {"create", "edit", "photos", "delete", "reorder"}
InFlight(s) == calls[Page][s].phase # "idle"

\* The list was overtaken: a reorder in flight together with a load or another write, a
\* write of another tab, a write of which nobody knows whether it was done, or the photos
\* of a new lote that were refused.
Overtaken ==
    \/ \E s, r \in Slots : /\ s # r /\ InFlight(s) /\ InFlight(r)
                           /\ What(s).op = "reorder" /\ What(r).op \in Writes \cup {"list"}
    \/ \E t \in Tabs \ {Page}, s \in Slots : calls[t][s].what.op \in Writes
    \/ \E s \in Slots : What(s).op \in Writes /\ calls[Page][s].ans = Lost
    \/ \E s \in Slots : /\ What(s).op = "photos" /\ What(s).mount = 0
                        /\ Refusal(calls[Page][s])

\* The photos of lote i are saved in parallel, by a gallery that is gone or that the panel
\* has given to another lote, nobody knows whether they were saved, or a reorder in flight
\* may bring back the rows of before.
Clashing(i) ==
    LET saving(s) == What(s).op \in {"photos", "upload"} /\ What(s).lote = i IN
    \/ \E s, r \in Slots : s # r /\ saving(s) /\ saving(r) /\ What(s).op = "photos" /\ What(r).op = "photos"
    \/ \E s \in Slots : /\ saving(s) /\ What(s).mount # 0
                        /\ What(s).mount # drawer.mount \/ drawer.shows # i
    \/ \E s \in Slots : saving(s) /\ calls[Page][s].ans = Lost
    \/ \E s, r \in Slots : saving(s) /\ What(r).op = "reorder"

Remembers == /\ crossed' = (crossed \/ Overtaken')
             /\ clashed' = clashed \cup {i \in DOMAIN lotes' : Clashing(i)'}
------------------------------------------------------------------------------
Init == SessionInit /\ CatalogoInit /\ PageInit

Arrivals(s) ==
    \/ ListArrives(s) \/ ReorderArrives(s) \/ DeleteArrives(s) \/ DuplicateArrives(s)
    \/ CreateArrives(s) \/ StagedArrive(s) \/ CoverArrives(s) \/ EditArrives(s)
    \/ UploadsArrive(s) \/ PhotosArrive(s)

Choices ==
    \/ TryAgain \/ CloseDrawer
    \/ \E k \in DOMAIN page.rows :
          \/ "list" \in left.menu /\ (MoveLote(k) \/ DeleteLote(k) \/ DuplicateLote(k))
          \/ left.menu \cap {"edit", "photos", "upload"} # {} /\ OpenEdit(k)
    \/ /\ "new" \in left.menu
       /\ OpenCreate \/ \E files \in 0..2, again \in BOOLEAN : SaveNew(files, again)
    \/ "edit" \in left.menu /\ \E n \in {drawer.number, Suggested(Existing)} : SaveEdit(n)
    \/ /\ "photos" \in left.menu
       /\ \/ LeavePhotos \/ BackToPhotos
          \/ \E images \in Rearrangements : Arrange(images)
          \/ \E files \in 1..2 : Upload(files)
    \/ "upload" \in left.menu /\ Upload(1)
    \/ \E t \in Tabs : RivalCreates(t) \/ \E i \in Live : RivalDeletes(t, i)

\* What happens without anybody's choice.
Progress ==
    /\ \/ SessionProgress /\ Guarded /\ UNCHANGED serverVars
       \/ CatalogoProgress /\ UNCHANGED <<sessionVars, pageVars>>
       \/ /\ (\E s \in Slots : Arrivals(s)) \/ (\E t \in Tabs, s \in Slots : Unheard(t, s))
          /\ UNCHANGED <<sessionVars, serverVars>>
    /\ Remembers

Moves ==
    /\ \/ (SessionMoves \/ \E t \in Tabs \ {Page} : Reload(t)) /\ Guarded /\ UNCHANGED serverVars
       \/ Freeze /\ UNCHANGED <<sessionVars, pageVars>>
       \/ Choices /\ UNCHANGED <<sessionVars, serverVars>>
    /\ Remembers

Next == Progress \/ Moves
Spec == Init /\ [][Next]_vars /\ WF_vars(Progress)
------------------------------------------------------------------------------
(* Properties.                                                             *)

\* What the variables hold: no pair is known that was not issued, an exchange is in one of
\* its phases, and the rows of the lotes have an order.
Exchange == [by : Tabs \cup {Nobody}, slot : Slots, pair : 1..issued, got : 0..issued, again : BOOLEAN,
             phase : {"asked", "read", "spent", "answer", "refused", "lost"}]
TypeOK ==
    /\ issued \in Nat /\ live \subseteq 1..issued /\ aged \subseteq 1..issued /\ byes \subseteq 1..issued
    /\ store \in [Tabs -> 0..issued] /\ storage \in 0..issued
    /\ sent \in [Tabs -> SUBSET (1..issued)]
    /\ exchanges \subseteq Exchange
    /\ login \in [Tabs -> [phase : {"none", "asked", "answer"}, got : 0..issued]]
    /\ \A t \in Tabs, s \in Slots : calls[t][s].phase \in {"idle", "sent", "read", "back", "waits"}
    /\ \A i \in DOMAIN lotes : lotes[i].order \in Int

\* A tab never competes with itself for its refresh token (ADR-027, section G): whatever
\* number of its requests meet an expired access token, at whatever moments, none of the
\* refresh tokens it presents was refused because an earlier exchange of the same tab had
\* already used it.  This is what the shared refreshPromise of the interceptor is for.
NeverCompetesWithItself ==
    \A x \in exchanges : x.phase = "refused" /\ x.by # Nobody => ~x.again

\* Rotation leaves no spare key: in a browser with one working tab, once nothing is in
\* flight the refresh tokens the server accepts are exactly the one in the store, or none
\* after a logout -- unless a login or a logout met an exchange in flight, or something
\* was lost between a revocation and the answer.
OneTabOneSession ==
    ~mixed /\ SessionAtRest => live = {store[t] : t \in Tabs} \ {0}

\* Two live lotes have the same display_order only if two writers of it overlapped: what
\* create and reorder compute from the rows they read is free of ties after any sequence
\* of creations, deletions and reorders that do not overlap.
TiesOnlyByOverlap ==
    ~raced => \A i, j \in Live : i # j => lotes[i].order # lotes[j].order

\* The user never goes on seeing an order, a number or photos the server does not have
\* (docs/31): when the page has heard of everything it asked for, its list is a listing
\* of the catalogue -- unless it was overtaken in one of the ways of Overtaken.
PageAtRest == page.open /\ page.list = "ready" /\ ~drawer.busy /\ \A s \in Slots : ~InFlight(s)
ListShowsTheCatalogue ==
    PageAtRest /\ ~crossed => \E q \in Listings : page.rows = [k \in DOMAIN q |-> Shown(q[k])]

\* The gallery saves the photos of a lote as a whole list, which it takes from its own
\* memory (imagesRef): still a photo leaves a lote only if the user removed it, as long
\* as one save at a time is done, by the gallery of the lote the panel shows, and no reorder
\* is in flight that may bring older rows back.
NoPhotoIsLost ==
    [][\A i \in DOMAIN lotes :
          i \in clashed' \/ \A p \in Range(lotes[i].images) \ Range(lotes'[i].images) : <<i, p>> \in binned]_vars

\* Whatever is lost or refused, everything comes to rest again: every request ends and is
\* never repeated for ever by the interceptor, no tab waits for a renewal that nobody is
\* doing, the list is not left loading and the panel is not left saving.
AtRest ==
    /\ SessionAtRest /\ \A t \in Tabs, s \in Slots : calls[t][s].phase = "idle"
    /\ page.open => page.list # "loading" /\ ~drawer.busy
ComesToRest == ~AtRest ~> AtRest
================================================================================
