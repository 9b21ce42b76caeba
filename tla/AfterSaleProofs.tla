---------------------------- MODULE AfterSaleProofs ----------------------------
(***************************************************************************)
(* Theorems about AfterSale, for every set of buyers, replicas, slots and  *)
(* plans: what the case of a sale and the page of the staff promise.       *)
(***************************************************************************)
EXTENDS AfterSale, TLAPS

------------------------------------------------------------------------------
(* The inductive invariant.                                                 *)

CaseType    == [status : 0..8, stamps : SUBSET Milestones, docs : SUBSET Nat, at : Nat]
RequestType == [op : {"status", "note", "upload", "delete"}, pc : {"sent", "store", "commit", "unlink", "answer"},
                buyer : Buyers, by : {"dialog", "journey", "page", "other"}, to : 0..8, doc : Nat,
                seen : CaseType, ok : BOOLEAN, at : Nat]
DeskType    == [buyer : Buyers \cup {NoBuyer}, data : CaseType, token : Nat, error : BOOLEAN,
                target : 0..8, sending : BOOLEAN, told : Nat]
LoadType    == [token : Nat, data : CaseType]

PostTypes ==
    /\ plan.targets \subseteq 1..8
    /\ cases \in [Buyers -> CaseType]
    /\ change \in [Slots -> RequestType \cup {NoChange}]
    /\ asked \in Nat
    /\ desk \in DeskType
    /\ loads \subseteq LoadType

\* A request is about a case, and a page shows one that exists.
CasesExist ==
    /\ \A s \in Slots : change[s].op # "none" => cases[change[s].buyer] # NoCase
    /\ IF desk.buyer = NoBuyer THEN desk = NoDesk /\ loads = {} ELSE cases[desk.buyer] # NoCase

Uploading(s, d) == change[s].op = "upload" /\ change[s].pc \in {"sent", "store", "commit"} /\ change[s].doc = d

\* A document that was once in the case of `b`: no request is about to add it again, and
\* it is in no other case.
Known(b, d) ==
    /\ d <= asked
    /\ \A s \in Slots : ~Uploading(s, d)
    /\ \A c \in Buyers \ {b} : d \notin cases[c].docs

DocsInv ==
    /\ \A b \in Buyers : \A d \in cases[b].docs : Known(b, d) /\ d \in files
    /\ \A d \in desk.data.docs : Known(desk.buyer, d)
    /\ \A l \in loads : \A d \in l.data.docs : Known(desk.buyer, d)
    /\ \A s \in Slots :
         /\ change[s].op = "delete" => Known(change[s].buyer, change[s].doc)
         /\ change[s].op = "delete" /\ change[s].pc = "unlink" => change[s].doc \notin cases[change[s].buyer].docs
         /\ change[s].op = "upload" => change[s].doc <= asked /\ change[s].pc # "unlink"
         /\ change[s].op = "upload" /\ change[s].pc = "commit" => change[s].doc \in files
         /\ \A t \in Slots : t # s /\ change[s].op = "upload" => ~Uploading(t, change[s].doc)

\* What a change of status read is older than the case, or is the case.
ReadInv ==
    \A s \in Slots :
        change[s].op = "status" /\ change[s].pc = "commit" =>
            LET c == cases[change[s].buyer]
            IN  /\ change[s].seen.status < change[s].to
                /\ change[s].seen.at < c.at \/ (change[s].seen.at = c.at /\ change[s].seen.status = c.status)

\* The requests of the page are about its case, and what it was told is in that case
\* and in what its last load has read.
DeskInv ==
    /\ \A s \in Slots : change[s].op # "none" /\ change[s].by # "other" => change[s].buyer = desk.buyer
    /\ \A s \in Slots : change[s].op # "none" => change[s].at <= cases[change[s].buyer].at
    /\ desk.buyer # NoBuyer => desk.told <= cases[desk.buyer].at
    /\ \A l \in loads : /\ l.token <= desk.token
                        /\ l.token = desk.token /\ l.data # NoCase => desk.told <= l.data.at
    /\ OwnChangesShow

PostInv == PostTypes /\ CasesExist /\ DocsInv /\ ReadInv /\ DeskInv

LEMMA NoCaseTyped == NoCase \in CaseType /\ NoCase.docs = {} /\ NoCase.status = 0 /\ NoCase.at = 0
BY DEF NoCase, CaseType, Milestones

LEMMA InitPostInv == Init => PostInv
<1> SUFFICES ASSUME Init PROVE PostInv
  OBVIOUS
<1>1. PostTypes
  BY NoCaseTyped, PlansAssumption DEF Init, PostTypes, DeskType, NoDesk, NoChange, RequestType, LoadType, Plan
<1>2. CasesExist /\ ReadInv
  BY NoCaseTyped DEF Init, CasesExist, ReadInv, NoDesk, NoChange
<1>3. DocsInv
  BY NoCaseTyped DEF Init, DocsInv, NoDesk, NoChange
<1>4. DeskInv
  BY NoCaseTyped DEF Init, DeskInv, OwnChangesShow, NoDesk, NoChange
<1> QED BY <1>1, <1>2, <1>3, <1>4 DEF PostInv

\* Steps of the guarantees, of the room and of the consumers that wait.
LEMMA KeptPostInv == ASSUME PostInv, UNCHANGED <<plan, post>> PROVE PostInv'
BY DEF PostInv, PostTypes, CasesExist, DocsInv, Known, Uploading, ReadInv, DeskInv, OwnChangesShow, post

------------------------------------------------------------------------------
(* The consumer and the requests.                                           *)

LEMMA OpenCaseInv == ASSUME PostInv, NEW r \in Replicas, OpenCase(r) PROVE PostInv'
<1> DEFINE b == opening[r][1]
<1>0. CASE cases' = cases
  <2>1. UNCHANGED <<plan, post>>
    BY <1>0 DEF OpenCase, post
  <2> QED BY <2>1, KeptPostInv
<1>1. CASE b \in Buyers /\ cases[b] = NoCase /\ cases' = [cases EXCEPT ![b] = [NoCase EXCEPT !.status = 1]]
  <2>0. UNCHANGED <<plan, change, asked, files, desk, loads>>
    BY DEF OpenCase
  <2> USE DEF PostInv
  <2> DEFINE new == [NoCase EXCEPT !.status = 1]
  <2>1. /\ new \in CaseType /\ new.docs = {} /\ new # NoCase
        /\ cases \in [Buyers -> CaseType]
        /\ cases' \in [Buyers -> CaseType] /\ cases'[b] = new /\ \A c \in Buyers \ {b} : cases'[c] = cases[c]
    BY <1>1, NoCaseTyped DEF PostTypes, CaseType, NoCase, Milestones
  <2>2. \A s \in Slots : change[s].op # "none" => change[s].buyer # b
    BY <1>1 DEF CasesExist
  <2>3. desk.buyer # b
    BY <1>1, PlansAssumption DEF CasesExist
  <2> HIDE DEF new, b
  <2>4. PostTypes'
    BY <2>0, <2>1 DEF PostTypes
  <2>5. CasesExist'
    BY <2>0, <2>1, <2>2, <2>3 DEF CasesExist, PostTypes, DeskType, RequestType, NoChange
  <2>6. \A c \in Buyers : cases'[c].docs \subseteq cases[c].docs
    BY <2>1
  <2>7. DocsInv'
    <3>1. \A c, d : Known(c, d) => Known(c, d)'
      BY <2>0, <2>6 DEF Known, Uploading
    <3>2. \A s \in Slots : change[s].op = "delete" => change[s].buyer \in Buyers
      BY DEF PostTypes, RequestType, NoChange
    <3> QED BY <2>0, <2>6, <3>1, <3>2 DEF DocsInv, Uploading
  <2>8. ReadInv'
    BY <2>0, <2>1, <2>2 DEF ReadInv, PostTypes, RequestType, NoChange
  <2>9. DeskInv'
    BY <2>0, <2>1, <2>2, <2>3 DEF DeskInv, PostTypes, RequestType, NoChange, DeskType, OwnChangesShow
  <2> QED BY <2>4, <2>5, <2>7, <2>8, <2>9
<1>2. CASE b \notin Buyers
  <2>1. UNCHANGED <<plan, change, asked, files, desk, loads>> /\ cases' = cases
    BY <1>2 DEF OpenCase, PostInv, PostTypes
  <2> QED BY <2>1, KeptPostInv DEF post
<1> QED BY <1>0, <1>1, <1>2 DEF OpenCase

\* A request is sent, by a colleague or by the page, whose dialog may change with it.
LEMMA SendsInv ==
    ASSUME PostInv, NEW s \in Slots, NEW q \in RequestType, Sends(s, q),
           UNCHANGED <<plan, cases, files, loads>>,
           q.pc = "sent", q.at = 0, q.op = "upload" => q.doc = asked + 1,
           q.op = "delete" => Known(q.buyer, q.doc),
           q.by # "other" => q.buyer = desk.buyer,
           desk' = desk \/ (desk.buyer # NoBuyer /\ desk' = [desk EXCEPT !.sending = TRUE])
    PROVE  PostInv'
<1> USE DEF PostInv
<1>1. /\ change[s] = NoChange /\ cases[q.buyer] # NoCase
      /\ change' = [change EXCEPT ![s] = q] /\ asked' = asked + 1
  BY DEF Sends
<1>2. /\ desk' \in DeskType /\ desk'.buyer = desk.buyer /\ desk'.data = desk.data /\ desk'.error = desk.error
      /\ desk'.token = desk.token /\ desk'.told = desk.told /\ (desk.buyer = NoBuyer => desk' = desk)
  BY DEF PostTypes, DeskType
<1>3. change'[s] = q /\ \A t \in Slots \ {s} : change'[t] = change[t]
  BY <1>1 DEF PostTypes
<1>4. PostTypes'
  BY <1>1, <1>2 DEF PostTypes
<1>5. CasesExist'
  BY <1>1, <1>2, <1>3 DEF CasesExist
<1>6. DocsInv'
  <2>1. ASSUME NEW b, NEW d \in Nat, Known(b, d) PROVE Known(b, d)'
    <3>1. d <= asked + 1 /\ d # asked + 1
      BY <2>1 DEF Known, PostTypes
    <3> QED BY <2>1, <3>1, <1>1, <1>3 DEF Known, Uploading
  <2>2. ASSUME NEW t \in Slots, change[t].op = "upload" PROVE change[t].doc \in Nat /\ change[t].doc <= asked /\ t # s
    BY <2>2, <1>1 DEF DocsInv, PostTypes, RequestType, NoChange
  <2>3. \A t \in Slots : change[t].op = "delete" => change[t].doc \in Nat
    BY DEF PostTypes, RequestType, NoChange
  <2>4. q.doc \in Nat
    BY DEF RequestType
  <2>5. /\ \A b \in Buyers : cases[b].docs \subseteq Nat
        /\ desk.data.docs \subseteq Nat /\ \A l \in loads : l.data.docs \subseteq Nat
    BY DEF PostTypes, CaseType, DeskType, LoadType
  <2>6. \A b \in Buyers : \A d \in cases[b].docs : Known(b, d)' /\ d \in files
    BY <2>1, <2>5 DEF DocsInv
  <2>7. /\ \A d \in desk.data.docs : Known(desk.buyer, d)'
        /\ \A l \in loads : \A d \in l.data.docs : Known(desk.buyer, d)'
    BY <2>1, <2>5, <1>2 DEF DocsInv
  <2>8. ASSUME NEW t \in Slots
        PROVE /\ change'[t].op = "delete" => Known(change[t].buyer, change[t].doc)'
              /\ change'[t].op = "delete" /\ change'[t].pc = "unlink" => change'[t].doc \notin cases'[change'[t].buyer].docs
              /\ change'[t].op = "upload" => change'[t].doc <= asked' /\ change'[t].pc # "unlink"
              /\ change'[t].op = "upload" /\ change'[t].pc = "commit" => change'[t].doc \in files'
    <3>1. CASE t = s
      BY <3>1, <1>1, <1>3, <2>1, <2>4 DEF PostTypes
    <3>2. CASE t # s
      BY <3>2, <1>1, <1>3, <2>1, <2>2, <2>3 DEF DocsInv, PostTypes
    <3> QED BY <3>1, <3>2
  <2>9. ASSUME NEW t \in Slots, NEW u \in Slots, u # t, change'[t].op = "upload"
        PROVE ~Uploading(u, change[t].doc)'
    <3>1. CASE t = s
      BY <3>1, <2>9, <1>1, <1>3, <2>2 DEF Uploading, PostTypes
    <3>2. CASE u = s
      BY <3>2, <2>9, <1>1, <1>3, <2>2 DEF Uploading, PostTypes
    <3>3. CASE t # s /\ u # s
      BY <3>3, <2>9, <1>3 DEF DocsInv, Uploading
    <3> QED BY <3>1, <3>2, <3>3
  <2> QED BY <2>6, <2>7, <2>8, <2>9, <1>2 DEF DocsInv
<1>7. ReadInv'
  BY <1>1, <1>3 DEF ReadInv
<1>8. DeskInv'
  <2>1. q.buyer \in Buyers /\ \A b \in Buyers : 0 <= cases[b].at
    BY DEF RequestType, PostTypes, CaseType
  <2> QED BY <2>1, <1>1, <1>2, <1>3 DEF DeskInv, OwnChangesShow
<1> QED BY <1>4, <1>5, <1>6, <1>7, <1>8

\* Requests that were answered go, others change hands; the page shows what it showed or
\* what one of its loads has read.
Same(q, new) ==
    \/ new = NoChange
    \/ /\ q.op # "none" /\ new.op = q.op /\ new.pc = q.pc /\ new.buyer = q.buyer /\ new.to = q.to
       /\ new.doc = q.doc /\ new.seen = q.seen /\ new.at = q.at /\ (new.by = "other" <=> q.by = "other")

LEMMA PageKeepsInv ==
    ASSUME PostInv, UNCHANGED <<plan, cases, asked, files>>,
           change' \in [Slots -> RequestType \cup {NoChange}], \A s \in Slots : Same(change[s], change'[s]),
           desk' \in DeskType, desk'.buyer = desk.buyer, desk'.token = desk.token, desk'.told = desk.told,
           desk'.data = desk.data \/ \E l \in loads : desk'.data = l.data,
           loads' \subseteq loads, desk.buyer = NoBuyer => desk' = desk, OwnChangesShow'
    PROVE  PostInv'
<1> USE DEF PostInv
<1>1. PostTypes'
  BY DEF PostTypes
<1>2. CasesExist'
  BY DEF CasesExist, Same, NoChange
<1>3. ReadInv'
  BY DEF ReadInv, Same, NoChange
<1>4. DeskInv'
  BY DEF DeskInv, Same, NoChange
<1>5. DocsInv'
  <2>1. \A b, d : Known(b, d) => Known(b, d)'
    BY DEF Known, Uploading, Same, NoChange
  <2>2. \A b \in Buyers : \A d \in cases[b].docs : Known(b, d)' /\ d \in files
    BY <2>1 DEF DocsInv
  <2>3. /\ \A d \in desk'.data.docs : Known(desk.buyer, d)'
        /\ \A l \in loads' : \A d \in l.data.docs : Known(desk.buyer, d)'
    BY <2>1 DEF DocsInv
  <2>4. ASSUME NEW t \in Slots, change'[t].op # "none"
        PROVE /\ change'[t].op = "delete" => Known(change[t].buyer, change[t].doc)'
              /\ change'[t].op = "delete" /\ change'[t].pc = "unlink" => change'[t].doc \notin cases'[change'[t].buyer].docs
              /\ change'[t].op = "upload" => change'[t].doc <= asked' /\ change'[t].pc # "unlink"
              /\ change'[t].op = "upload" /\ change'[t].pc = "commit" => change'[t].doc \in files'
              /\ \A u \in Slots : u # t /\ change'[t].op = "upload" => ~Uploading(u, change[t].doc)'
    BY <2>4, <2>1 DEF DocsInv, Same, NoChange, Uploading
  <2> QED BY <2>2, <2>3, <2>4 DEF DocsInv, NoChange
<1> QED BY <1>1, <1>2, <1>3, <1>4, <1>5

\* A request goes on, and the files with it.
LEMMA MovesInv ==
    ASSUME PostInv, NEW s \in Slots, NEW q \in RequestType, change[s].op # "none",
           change' = [change EXCEPT ![s] = q], UNCHANGED <<plan, cases, asked, desk, loads>>,
           q.op = change[s].op, q.buyer = change[s].buyer, q.by = change[s].by, q.to = change[s].to,
           q.doc = change[s].doc, q.at = change[s].at,
           q.op = "upload" => q.pc # "unlink" /\ (q.pc # "answer" => change[s].pc \in {"sent", "store", "commit"}),
           q.op = "delete" /\ q.pc = "unlink" => change[s].pc = "unlink",
           q.op = "status" /\ q.pc = "commit" => q.seen.status < q.to /\ q.seen = cases[q.buyer],
           \A b \in Buyers : cases[b].docs \subseteq files',
           \A t \in Slots : change'[t].op = "upload" /\ change'[t].pc = "commit" => change'[t].doc \in files'
    PROVE  PostInv'
<1> USE DEF PostInv
<1>1. change'[s] = q /\ \A t \in Slots \ {s} : change'[t] = change[t]
  BY DEF PostTypes
<1>2. PostTypes'
  BY DEF PostTypes
<1>3. CasesExist'
  BY <1>1 DEF CasesExist
<1>4. ReadInv'
  BY <1>1 DEF ReadInv
<1>5. DeskInv'
  BY <1>1 DEF DeskInv, OwnChangesShow
<1>6. \A t \in Slots : \A d : Uploading(t, d)' => Uploading(t, d)
  BY <1>1 DEF Uploading, RequestType
<1>7. \A b, d : Known(b, d) => Known(b, d)'
  BY <1>6 DEF Known
<1>8. DocsInv'
  <2>1. ASSUME NEW t \in Slots
        PROVE /\ change'[t].op = "delete" => Known(change[t].buyer, change[t].doc)'
              /\ change'[t].op = "delete" /\ change'[t].pc = "unlink" => change'[t].doc \notin cases'[change'[t].buyer].docs
              /\ change'[t].op = "upload" => change'[t].doc <= asked' /\ change'[t].pc # "unlink"
              /\ \A u \in Slots : u # t /\ change'[t].op = "upload" => ~Uploading(u, change[t].doc)'
              /\ change'[t].buyer = change[t].buyer /\ change'[t].doc = change[t].doc
    BY <1>1, <1>6, <1>7 DEF DocsInv
  <2>2. /\ \A b \in Buyers : \A d \in cases[b].docs : Known(b, d)'
        /\ \A d \in desk.data.docs : Known(desk.buyer, d)'
        /\ \A l \in loads : \A d \in l.data.docs : Known(desk.buyer, d)'
    BY <1>7 DEF DocsInv
  <2> QED BY <2>1, <2>2 DEF DocsInv
<1> QED BY <1>2, <1>3, <1>4, <1>5, <1>8

LEMMA ReadCaseInv == ASSUME PostInv, NEW s \in Slots, ReadCase(s) PROVE PostInv'
<1> USE DEF PostInv
<1> DEFINE q == change[s]  c == cases[q.buyer]
<1>1. /\ q \in RequestType /\ q.op # "none" /\ q.pc = "sent" /\ c \in CaseType
      /\ UNCHANGED <<plan, cases, asked, files, desk, loads>>
  BY DEF ReadCase, PostTypes, RequestType, NoChange
<1>2. PICK new \in RequestType :
        /\ change' = [change EXCEPT ![s] = new]
        /\ new.op = q.op /\ new.buyer = q.buyer /\ new.by = q.by /\ new.to = q.to /\ new.doc = q.doc /\ new.at = q.at
        /\ new.pc = "answer" \/ (new.pc = "store" /\ q.op = "upload") \/ (new.pc = "commit" /\ q.op # "upload")
        /\ new.op = "status" /\ new.pc = "commit" => Allowed(c.status, q.to) /\ new.seen = c
  <2>1. CASE Answers(s, FALSE)
    <3> DEFINE new == [q EXCEPT !.pc = "answer", !.ok = FALSE]
    <3>1. change' = [change EXCEPT ![s] = new]
      BY <2>1 DEF Answers
    <3>2. new \in RequestType
      BY <1>1 DEF RequestType
    <3> WITNESS new \in RequestType
    <3> QED BY <1>1, <3>1 DEF RequestType
  <2>2. CASE /\ ~(q.op = "status" /\ ~Allowed(c.status, q.to))
             /\ change' = [change EXCEPT ![s] = [q EXCEPT !.pc = IF q.op = "upload" THEN "store" ELSE "commit",
                                                           !.seen = c]]
    <3> DEFINE new == [q EXCEPT !.pc = IF q.op = "upload" THEN "store" ELSE "commit", !.seen = c]
    <3>1. change' = [change EXCEPT ![s] = new]
      BY <2>2
    <3>2. new \in RequestType
      BY <1>1 DEF RequestType
    <3> WITNESS new \in RequestType
    <3> QED BY <1>1, <2>2, <3>1 DEF RequestType
  <2> QED BY <2>1, <2>2 DEF ReadCase
<1>3. \A t \in Slots : change'[t].op = "upload" /\ change'[t].pc = "commit" => t # s
  BY <1>2 DEF PostTypes
<1>4. \A t \in Slots : change'[t].op = "upload" /\ change'[t].pc = "commit" => change'[t].doc \in files
  BY <1>2, <1>3 DEF DocsInv, PostTypes
<1>5. new.op = "status" /\ new.pc = "commit" => new.seen.status < new.to
  BY <1>1, <1>2 DEF Allowed, CaseType, RequestType
<1> QED BY <1>1, <1>2, <1>4, <1>5, MovesInv DEF DocsInv

LEMMA StoreFileInv == ASSUME PostInv, NEW s \in Slots, StoreFile(s) PROVE PostInv'
<1> USE DEF PostInv
<1> DEFINE q == [change[s] EXCEPT !.pc = "commit"]
<1>1. /\ change[s] \in RequestType /\ change[s].op = "upload" /\ change[s].pc = "store"
      /\ UNCHANGED <<plan, cases, asked, desk, loads>> /\ files' = files \cup {change[s].doc}
      /\ change' = [change EXCEPT ![s] = q]
  BY DEF StoreFile, PostTypes, NoChange
<1>2. /\ q \in RequestType /\ q.op = "upload" /\ q.pc = "commit" /\ q.buyer = change[s].buyer
      /\ q.by = change[s].by /\ q.to = change[s].to /\ q.doc = change[s].doc /\ q.at = change[s].at
  BY <1>1 DEF RequestType
<1> HIDE DEF q
<1>3. \A t \in Slots : change'[t].op = "upload" /\ change'[t].pc = "commit" => change'[t].doc \in files'
  BY <1>1, <1>2 DEF DocsInv, PostTypes
<1> QED BY <1>1, <1>2, <1>3, MovesInv DEF DocsInv

LEMMA RemoveFileInv == ASSUME PostInv, NEW s \in Slots, RemoveFile(s) PROVE PostInv'
<1> USE DEF PostInv
<1> DEFINE q == [change[s] EXCEPT !.pc = "answer", !.ok = TRUE]
<1>1. /\ change[s] \in RequestType /\ change[s].op = "delete" /\ change[s].pc = "unlink"
      /\ UNCHANGED <<plan, cases, asked, desk, loads>> /\ files' = files \ {change[s].doc}
      /\ change' = [change EXCEPT ![s] = q]
  BY DEF RemoveFile, Answers, PostTypes, NoChange
<1>2. /\ q \in RequestType /\ q.op = "delete" /\ q.pc = "answer" /\ q.buyer = change[s].buyer
      /\ q.by = change[s].by /\ q.to = change[s].to /\ q.doc = change[s].doc /\ q.at = change[s].at
  BY <1>1 DEF RequestType
<1> HIDE DEF q
<1>3. Known(change[s].buyer, change[s].doc) /\ change[s].doc \notin cases[change[s].buyer].docs
  BY <1>1 DEF DocsInv
<1>4. \A b \in Buyers : cases[b].docs \subseteq files'
  BY <1>1, <1>3 DEF DocsInv, Known
<1>5. \A t \in Slots : change'[t].op = "upload" /\ change'[t].pc = "commit" => change'[t].doc \in files'
  BY <1>1, <1>2, <1>3 DEF DocsInv, PostTypes, Known, Uploading
<1> QED BY <1>1, <1>2, <1>4, <1>5, MovesInv

LEMMA BreakRequestInv == ASSUME PostInv, NEW s \in Slots, BreakRequest(s) PROVE PostInv'
<1> USE DEF PostInv
<1> DEFINE q == [change[s] EXCEPT !.pc = "answer", !.ok = FALSE]
<1>1. /\ change[s] \in RequestType /\ change[s].op # "none"
      /\ UNCHANGED <<plan, cases, asked, files, desk, loads>>
      /\ change' = [change EXCEPT ![s] = q]
  BY DEF BreakRequest, Answers, PostTypes, NoChange
<1>2. /\ q \in RequestType /\ q.op = change[s].op /\ q.pc = "answer" /\ q.buyer = change[s].buyer
      /\ q.by = change[s].by /\ q.to = change[s].to /\ q.doc = change[s].doc /\ q.at = change[s].at
  BY <1>1 DEF RequestType
<1> HIDE DEF q
<1>3. \A t \in Slots : change'[t].op = "upload" /\ change'[t].pc = "commit" => change'[t].doc \in files
  BY <1>1, <1>2 DEF DocsInv, PostTypes
<1> QED BY <1>1, <1>2, <1>3, MovesInv DEF DocsInv

LEMMA ChangedTyped ==
    ASSUME NEW c \in CaseType, NEW q \in RequestType
    PROVE  /\ Changed(c, q) \in CaseType /\ Changed(c, q).at = c.at + 1 /\ Changed(c, q) # NoCase
           /\ q.op = "upload" => Changed(c, q).docs = c.docs \cup {q.doc}
           /\ q.op # "upload" => Changed(c, q).docs \subseteq c.docs
           /\ q.op = "delete" => Changed(c, q).docs = c.docs \ {q.doc}
           /\ q.op = "status" => Changed(c, q).status = q.to
           /\ q.op # "status" => Changed(c, q).status = c.status
<1> DEFINE new == Changed(c, q)
<1>1. /\ c.status \in 0..8 /\ c.stamps \subseteq Milestones /\ c.docs \subseteq Nat /\ c.at \in Nat
      /\ q.to \in 0..8 /\ q.doc \in Nat /\ q.op \in {"status", "note", "upload", "delete"}
  BY DEF CaseType, RequestType
<1>2. Stamped(c, q) \subseteq Milestones
  BY <1>1 DEF Stamped
<1>3. /\ new.status \in 0..8 /\ new.stamps \subseteq Milestones /\ new.at = c.at + 1 /\ new.docs \subseteq Nat
      /\ q.op = "upload" => new.docs = c.docs \cup {q.doc}
      /\ q.op # "upload" => new.docs \subseteq c.docs
      /\ q.op = "delete" => new.docs = c.docs \ {q.doc}
  BY <1>1, <1>2 DEF Changed
<1>4. new = [status |-> new.status, stamps |-> new.stamps, docs |-> new.docs, at |-> new.at]
  BY DEF Changed
<1>5. new \in CaseType
  BY <1>1, <1>3, <1>4 DEF CaseType
<1>6. new # NoCase
  BY <1>1, <1>3 DEF NoCase
<1> QED BY <1>3, <1>5, <1>6 DEF Changed

LEMMA CommitChangeInv == ASSUME PostInv, NEW s \in Slots, CommitChange(s) PROVE PostInv'
<1> USE DEF PostInv
<1> DEFINE q == change[s]
           b == q.buyer
           new == Changed(cases[b], q)
           nq == [q EXCEPT !.pc = IF q.op = "delete" THEN "unlink" ELSE "answer", !.ok = TRUE, !.at = cases[b].at + 1]
<1>1. /\ q \in RequestType /\ q.op # "none" /\ q.pc = "commit" /\ b \in Buyers /\ cases[b] \in CaseType
      /\ UNCHANGED <<plan, asked, files, desk, loads>>
      /\ cases' = [cases EXCEPT ![b] = new] /\ change' = [change EXCEPT ![s] = nq]
  BY DEF CommitChange, PostTypes, RequestType, NoChange
<1>2. /\ nq \in RequestType /\ nq.op = q.op /\ nq.buyer = b /\ nq.by = q.by /\ nq.doc = q.doc /\ nq.at = cases[b].at + 1
      /\ nq.pc = IF q.op = "delete" THEN "unlink" ELSE "answer"
  <2>1. cases[b].at + 1 \in Nat
    BY <1>1 DEF CaseType
  <2> DEFINE at == cases[b].at + 1
             pc == IF q.op = "delete" THEN "unlink" ELSE "answer"
  <2>2. at \in Nat /\ pc \in {"unlink", "answer"}
    BY <2>1
  <2> HIDE DEF at, pc
  <2>3. /\ [q EXCEPT !.pc = pc, !.ok = TRUE, !.at = at] \in RequestType
        /\ [q EXCEPT !.pc = pc, !.ok = TRUE, !.at = at].at = at
        /\ [q EXCEPT !.pc = pc, !.ok = TRUE, !.at = at].pc = pc
    BY <1>1, <2>2 DEF RequestType
  <2>4. nq = [q EXCEPT !.pc = pc, !.ok = TRUE, !.at = at]
    BY DEF at, pc
  <2> QED BY <2>3, <2>4, <1>1 DEF RequestType, at, pc
<1>3. /\ new \in CaseType /\ new.at = cases[b].at + 1 /\ new # NoCase
      /\ q.op = "upload" => new.docs = cases[b].docs \cup {q.doc}
      /\ q.op # "upload" => new.docs \subseteq cases[b].docs
      /\ q.op = "delete" => new.docs = cases[b].docs \ {q.doc}
  BY <1>1, ChangedTyped
<1> HIDE DEF new, nq
<1>4. /\ change'[s] = nq /\ \A t \in Slots \ {s} : change'[t] = change[t]
      /\ cases'[b] = new /\ \A c \in Buyers \ {b} : cases'[c] = cases[c]
  BY <1>1 DEF PostTypes
<1>5. PostTypes'
  BY <1>1, <1>2, <1>3 DEF PostTypes
<1>6. CasesExist'
  <2>1. \A c \in Buyers : cases[c] # NoCase => cases'[c] # NoCase
    BY <1>3, <1>4
  <2>2. desk.buyer = NoBuyer \/ desk.buyer \in Buyers
    BY DEF PostTypes, DeskType
  <2>3. \A t \in Slots : change[t].op # "none" => change[t].buyer \in Buyers
    BY DEF PostTypes, RequestType, NoChange
  <2>4. \A t \in Slots : change'[t].op = change[t].op /\ (change[t].op # "none" => change'[t].buyer = change[t].buyer)
    BY <1>2, <1>4
  <2> QED BY <1>1, <2>1, <2>2, <2>3, <2>4 DEF CasesExist
<1>7. ReadInv'
  <2> SUFFICES ASSUME NEW t \in Slots, change'[t].op = "status", change'[t].pc = "commit"
               PROVE  LET c == cases'[change[t].buyer]
                      IN  /\ change[t].seen.status < change[t].to
                          /\ change[t].seen.at < c.at \/ (change[t].seen.at = c.at /\ change[t].seen.status = c.status)
                          /\ change'[t] = change[t]
    BY DEF ReadInv
  <2>1. t # s
    BY <1>2, <1>4
  <2>2. change'[t] = change[t] /\ change[t].buyer \in Buyers /\ change[t].seen.at \in Nat
    BY <2>1, <1>4 DEF PostTypes, RequestType, NoChange, CaseType
  <2>3. CASE change[t].buyer = b
    BY <2>2, <2>3, <1>1, <1>3, <1>4 DEF ReadInv, CaseType
  <2>4. CASE change[t].buyer # b
    BY <2>2, <2>4, <1>4 DEF ReadInv
  <2> QED BY <2>3, <2>4
<1>8. DeskInv'
  <2>1. \A c \in Buyers : cases[c].at \in Nat /\ cases[c].at <= cases'[c].at /\ cases'[c].at \in Nat
    BY <1>1, <1>3, <1>4 DEF PostTypes, CaseType
  <2>2. \A t \in Slots : change[t].op # "none" => change[t].buyer \in Buyers /\ change[t].at \in Nat
    BY DEF PostTypes, RequestType, NoChange
  <2>3. desk.buyer = NoBuyer \/ desk.buyer \in Buyers
    BY DEF PostTypes, DeskType
  <2>4. desk.told \in Nat
    BY DEF PostTypes, DeskType
  <2>5. \A t \in Slots : change'[t].op # "none" => change'[t].at <= cases'[change'[t].buyer].at
    <3> SUFFICES ASSUME NEW t \in Slots, change'[t].op # "none" PROVE change'[t].at <= cases'[change'[t].buyer].at
      OBVIOUS
    <3>1. CASE t = s
      BY <3>1, <1>1, <1>2, <1>3, <1>4, <2>1
    <3>2. CASE t # s
      BY <3>2, <1>4, <2>1, <2>2 DEF DeskInv
    <3> QED BY <3>1, <3>2
  <2>6. desk.buyer # NoBuyer => desk.told <= cases'[desk.buyer].at
    BY <2>1, <2>3, <2>4 DEF DeskInv
  <2>7. \A t \in Slots : change'[t].op # "none" /\ change'[t].by # "other" => change'[t].buyer = desk.buyer
    BY <1>1, <1>2, <1>4 DEF DeskInv
  <2>8. OwnChangesShow'
    BY <1>1 DEF DeskInv, OwnChangesShow
  <2> QED BY <1>1, <2>5, <2>6, <2>7, <2>8 DEF DeskInv
<1>9. DocsInv'
  <2>1. \A t \in Slots : \A d : Uploading(t, d)' => Uploading(t, d) /\ t # s
    BY <1>2, <1>4 DEF Uploading
  <2>2. q.op = "upload" => Uploading(s, q.doc)
    BY <1>1 DEF Uploading
  <2>3. ASSUME NEW c, NEW d, Known(c, d) PROVE Known(c, d)'
    <3>1. q.op = "upload" => d # q.doc
      BY <2>2, <2>3 DEF Known
    <3> QED BY <1>1, <1>3, <1>4, <2>1, <2>3, <3>1 DEF Known
  <2>4. ASSUME NEW c \in Buyers, NEW d \in cases'[c].docs PROVE Known(c, d)' /\ d \in files
    <3>1. CASE d \in cases[c].docs
      BY <3>1, <2>3 DEF DocsInv
    <3>2. CASE c = b /\ q.op = "upload" /\ d = q.doc
      <4>1. d <= asked /\ d \in files /\ \A t \in Slots \ {s} : ~Uploading(t, d)
        BY <3>2, <1>1 DEF DocsInv
      <4>2. \A e \in Buyers : d \notin cases[e].docs
        BY <3>2, <2>2 DEF DocsInv, Known
      <4> QED BY <4>1, <4>2, <3>2, <1>1, <1>4, <2>1 DEF Known
    <3> QED BY <3>1, <3>2, <1>3, <1>4
  <2>5. ASSUME NEW t \in Slots
        PROVE /\ change'[t].op = change[t].op
              /\ change[t].op # "none" => change'[t].buyer = change[t].buyer /\ change'[t].doc = change[t].doc
    BY <1>2, <1>4
  <2>6. ASSUME NEW t \in Slots, change'[t].op = "delete"
        PROVE /\ Known(change[t].buyer, change[t].doc)'
              /\ change'[t].pc = "unlink" => change[t].doc \notin cases'[change[t].buyer].docs
    <3>1. Known(change[t].buyer, change[t].doc) /\ Known(change[t].buyer, change[t].doc)'
      BY <2>3, <2>5, <2>6 DEF DocsInv
    <3>2. CASE t = s
      BY <3>1, <3>2, <1>3, <1>4, <2>5, <2>6
    <3>3. CASE t # s
      <4>1. q.op = "upload" => change[t].doc # q.doc
        BY <3>1, <2>2 DEF Known
      <4>2. change[t].pc = "unlink" => change[t].doc \notin cases[change[t].buyer].docs
        BY <2>5, <2>6 DEF DocsInv
      <4>3. change[t].buyer \in Buyers /\ change'[t] = change[t]
        BY <3>3, <2>5, <2>6, <1>4 DEF PostTypes, RequestType, NoChange
      <4> QED BY <3>1, <4>1, <4>2, <4>3, <1>3, <1>4
    <3> QED BY <3>2, <3>3
  <2>7. ASSUME NEW t \in Slots, change'[t].op = "upload"
        PROVE /\ change[t].doc <= asked /\ change'[t].pc # "unlink"
              /\ change'[t].pc = "commit" => change[t].doc \in files
              /\ \A u \in Slots : u # t => ~Uploading(u, change[t].doc)'
    <3>1. CASE t = s
      BY <3>1, <2>1, <2>5, <2>7, <1>2, <1>4 DEF DocsInv
    <3>2. CASE t # s
      BY <3>2, <2>1, <2>5, <2>7, <1>4 DEF DocsInv
    <3> QED BY <3>1, <3>2
  <2>8. /\ \A d \in desk.data.docs : Known(desk.buyer, d)'
        /\ \A l \in loads : \A d \in l.data.docs : Known(desk.buyer, d)'
    BY <1>1, <2>3 DEF DocsInv
  <2> QED BY <1>1, <2>4, <2>5, <2>6, <2>7, <2>8 DEF DocsInv
<1> QED BY <1>5, <1>6, <1>7, <1>8, <1>9

------------------------------------------------------------------------------
(* The page of the staff.                                                   *)

\* The page loads: its requests that were answered go, and what it was told is not more
\* than the case has.
LEMMA LoadInv ==
    ASSUME PostInv, NEW d \in DeskType, Load(d), UNCHANGED <<plan, cases, asked, files>>,
           change' \in [Slots -> RequestType \cup {NoChange}], \A s \in Slots : Same(change[s], change'[s]),
           d.token = desk.token, d.data = desk.data, d.buyer \in Buyers, cases[d.buyer] # NoCase,
           desk = NoDesk \/ d.buyer = desk.buyer, d.told <= cases[d.buyer].at
    PROVE  PostInv'
<1> USE DEF PostInv
<1> DEFINE l == [token |-> d.token + 1, data |-> NoCase]
<1>1. /\ loads' = loads \cup {l} /\ l \in LoadType /\ l.token = desk.token + 1 /\ l.data = NoCase
      /\ desk' \in DeskType /\ desk'.buyer = d.buyer /\ desk'.data = desk.data /\ desk'.told = d.told
      /\ desk'.token = desk.token + 1 /\ desk.token \in Nat
  <2>1. desk.token \in Nat /\ d.token + 1 \in Nat /\ NoCase \in CaseType
    BY NoCaseTyped DEF PostTypes, DeskType
  <2>2. desk' = [d EXCEPT !.token = d.token + 1, !.error = FALSE] /\ loads' = loads \cup {l}
    BY DEF Load
  <2>3. l \in LoadType
    BY <2>1 DEF LoadType
  <2> QED BY <2>1, <2>2, <2>3 DEF DeskType
<1>2. desk.buyer = NoBuyer => desk = NoDesk /\ loads = {}
  BY DEF CasesExist
<1>3. desk'.buyer # NoBuyer
  BY <1>1, PlansAssumption
<1> HIDE DEF l
<1>4. PostTypes'
  BY <1>1 DEF PostTypes
<1>5. CasesExist'
  BY <1>1, <1>3 DEF CasesExist, Same, NoChange
<1>6. ReadInv'
  BY DEF ReadInv, Same, NoChange
<1>7. desk.buyer = desk'.buyer \/ (desk = NoDesk /\ loads = {} /\ desk.data.docs = {} /\ desk.buyer = NoBuyer)
  BY <1>1, <1>2, NoCaseTyped DEF NoDesk
<1>8. DeskInv'
  <2>1. ASSUME NEW t \in Slots, change'[t].op # "none"
        PROVE /\ change'[t].by # "other" => change'[t].buyer = d.buyer
              /\ change'[t].at <= cases[change'[t].buyer].at
    <3>1. /\ change[t].op # "none" /\ change'[t].buyer = change[t].buyer /\ change'[t].at = change[t].at
          /\ (change'[t].by = "other" <=> change[t].by = "other")
      BY <2>1 DEF Same, NoChange
    <3>2. change[t].by # "other" => change[t].buyer = desk.buyer /\ change[t].buyer \in Buyers
      BY <3>1 DEF DeskInv, PostTypes, RequestType, NoChange
    <3> QED BY <3>1, <3>2, <1>1, <1>7, PlansAssumption DEF DeskInv
  <2>2. ASSUME NEW k \in loads'
        PROVE /\ k.token <= desk'.token
              /\ k.token = desk'.token /\ k.data # NoCase => desk'.told <= k.data.at
    <3>1. CASE k \in loads
      <4>1. k.token \in Nat /\ k.token <= desk.token
        BY <3>1 DEF DeskInv, PostTypes, LoadType
      <4> QED BY <4>1, <1>1
    <3>2. CASE k = l
      BY <3>2, <1>1
    <3> QED BY <3>1, <3>2, <1>1
  <2>3. OwnChangesShow'
    BY <1>1 DEF OwnChangesShow
  <2> QED BY <2>1, <2>2, <2>3, <1>1 DEF DeskInv
<1>9. DocsInv'
  <2>1. \A b, e : Known(b, e) => Known(b, e)'
    BY DEF Known, Uploading, Same, NoChange
  <2>2. \A b \in Buyers : \A e \in cases[b].docs : Known(b, e)' /\ e \in files
    BY <2>1 DEF DocsInv
  <2>3. \A e \in desk'.data.docs : Known(desk.buyer, e)'
    BY <2>1, <1>1, <1>7 DEF DocsInv
  <2>4. \A k \in loads' : \A e \in k.data.docs : Known(desk.buyer, e)'
    BY <2>1, <1>1, <1>7, NoCaseTyped DEF DocsInv
  <2>5. ASSUME NEW t \in Slots, change'[t].op # "none"
        PROVE /\ change'[t].op = "delete" => Known(change[t].buyer, change[t].doc)'
              /\ change'[t].op = "delete" /\ change'[t].pc = "unlink" => change'[t].doc \notin cases'[change'[t].buyer].docs
              /\ change'[t].op = "upload" => change'[t].doc <= asked' /\ change'[t].pc # "unlink"
              /\ change'[t].op = "upload" /\ change'[t].pc = "commit" => change'[t].doc \in files'
              /\ \A u \in Slots : u # t /\ change'[t].op = "upload" => ~Uploading(u, change[t].doc)'
              /\ change'[t].buyer = change[t].buyer /\ change'[t].doc = change[t].doc
    BY <2>5, <2>1 DEF DocsInv, Same, NoChange, Uploading
  <2> QED BY <2>2, <2>3, <2>4, <2>5 DEF DocsInv, NoChange
<1> QED BY <1>4, <1>5, <1>6, <1>8, <1>9

LEMMA SameSelf == ASSUME PostTypes PROVE \A s \in Slots : Same(change[s], change[s])
BY DEF PostTypes, RequestType, Same

LEMMA OpenDeskInv == ASSUME PostInv, NEW b \in Buyers, OpenDesk(b) PROVE PostInv'
<1> DEFINE d == [desk EXCEPT !.buyer = b]
<1>1. /\ d \in DeskType /\ d.token = desk.token /\ d.data = desk.data /\ d.buyer = b /\ d.told = 0
  BY DEF OpenDesk, PostInv, PostTypes, DeskType, NoDesk
<1>2. cases[b].at \in Nat /\ change \in [Slots -> RequestType \cup {NoChange}]
  BY DEF PostInv, PostTypes, CaseType
<1>3. \A s \in Slots : Same(change[s], change[s])
  BY SameSelf DEF PostInv
<1>4. /\ Load(d) /\ UNCHANGED <<plan, cases, change, asked, files>> /\ desk = NoDesk /\ cases[b] # NoCase
  BY DEF OpenDesk
<1> HIDE DEF d
<1>5. d.buyer \in Buyers /\ cases[d.buyer] # NoCase /\ d.told <= cases[d.buyer].at
  BY <1>1, <1>2, <1>4
<1> QED BY <1>1, <1>2, <1>3, <1>4, <1>5, LoadInv

LEMMA RetryLoadInv == ASSUME PostInv, RetryLoad PROVE PostInv'
<1>1. /\ desk \in DeskType /\ desk.buyer \in Buyers
      /\ desk.error /\ cases[desk.buyer] # NoCase /\ desk.told <= cases[desk.buyer].at
  BY DEF RetryLoad, PostInv, PostTypes, CasesExist, DeskInv, DeskType, NoDesk
<1>2. change \in [Slots -> RequestType \cup {NoChange}]
  BY DEF PostInv, PostTypes
<1>3. \A s \in Slots : Same(change[s], change[s])
  BY SameSelf DEF PostInv
<1> QED BY <1>1, <1>2, <1>3, LoadInv DEF RetryLoad

LEMMA ServeLoadInv == ASSUME PostInv, NEW l \in loads, ServeLoad(l) PROVE PostInv'
<1> USE DEF PostInv
<1> DEFINE k == [l EXCEPT !.data = cases[desk.buyer]]
<1>1. /\ desk.buyer \in Buyers /\ cases[desk.buyer] # NoCase /\ cases[desk.buyer] \in CaseType
      /\ l \in LoadType /\ loads' = (loads \ {l}) \cup {k} /\ UNCHANGED <<plan, cases, change, asked, files, desk>>
  BY DEF ServeLoad, CasesExist, PostTypes, DeskType
<1>2. k \in LoadType /\ k.token = l.token /\ k.data = cases[desk.buyer]
  BY <1>1 DEF LoadType
<1> HIDE DEF k
<1>3. PostTypes'
  BY <1>1, <1>2 DEF PostTypes
<1>4. CasesExist' /\ ReadInv'
  BY <1>1, PlansAssumption DEF CasesExist, ReadInv
<1>5. DeskInv'
  BY <1>1, <1>2, PlansAssumption DEF DeskInv, OwnChangesShow
<1>6. DocsInv'
  <2>1. \A b, d : Known(b, d) => Known(b, d)'
    BY <1>1 DEF Known, Uploading
  <2>2. \A m \in loads' : \A d \in m.data.docs : Known(desk.buyer, d)'
    BY <1>1, <1>2, <2>1 DEF DocsInv
  <2> QED BY <1>1, <2>1, <2>2 DEF DocsInv, Uploading
<1> QED BY <1>3, <1>4, <1>5, <1>6

LEMMA LoadArrivesInv == ASSUME PostInv, NEW l \in loads, LoadArrives(l) PROVE PostInv'
<1> USE DEF PostInv
<1>1. /\ desk \in DeskType /\ l \in LoadType /\ loads' = loads \ {l} /\ desk.buyer # NoBuyer
      /\ UNCHANGED <<plan, cases, change, asked, files>> /\ l.data # NoCase
      /\ change \in [Slots -> RequestType \cup {NoChange}]
      /\ \A s \in Slots : Same(change[s], change'[s])
  BY SameSelf DEF LoadArrives, PostTypes, CasesExist
<1>2. CASE l.token = desk.token
  <2>1. desk' = [desk EXCEPT !.data = l.data]
    BY <1>2 DEF LoadArrives
  <2>2. /\ desk' \in DeskType /\ desk'.buyer = desk.buyer /\ desk'.token = desk.token /\ desk'.told = desk.told
        /\ desk'.data = l.data
    BY <2>1, <1>1 DEF DeskType, LoadType
  <2>3. desk.told <= l.data.at
    BY <1>1, <1>2 DEF DeskInv
  <2>4. OwnChangesShow'
    BY <2>2, <2>3 DEF OwnChangesShow
  <2> QED BY <1>1, <2>2, <2>4, PageKeepsInv
<1>3. CASE l.token # desk.token
  <2>1. desk' = desk
    BY <1>3 DEF LoadArrives
  <2>2. OwnChangesShow'
    BY <1>1, <1>3, <2>1 DEF DeskInv, OwnChangesShow
  <2> QED BY <1>1, <2>1, <2>2, PageKeepsInv
<1> QED BY <1>2, <1>3

\* Dialogs close over their requests.
LEMMA DetachSame ==
    ASSUME PostTypes, NEW from, NEW to \in {"dialog", "journey", "page"}, "other" \notin from, Detach(from, to)
    PROVE  change' \in [Slots -> RequestType \cup {NoChange}] /\ \A s \in Slots : Same(change[s], change'[s])
<1> SUFFICES ASSUME NEW s \in Slots PROVE change'[s] \in RequestType \cup {NoChange} /\ Same(change[s], change'[s])
  BY DEF Detach
<1>1. change[s] \in RequestType \cup {NoChange}
  BY DEF PostTypes
<1>2. CASE change[s].op = "status" /\ change[s].by \in from
  <2>1. change'[s] = [change[s] EXCEPT !.by = to] /\ change[s] \in RequestType
    BY <1>1, <1>2 DEF Detach, NoChange
  <2> QED BY <2>1, <1>2 DEF Same, RequestType
<1>3. CASE ~(change[s].op = "status" /\ change[s].by \in from)
  BY <1>1, <1>3, SameSelf DEF Detach
<1> QED BY <1>2, <1>3

LEMMA LoadFailsInv == ASSUME PostInv, NEW l \in loads, LoadFails(l) PROVE PostInv'
<1> USE DEF PostInv
<1>1. /\ desk \in DeskType /\ loads' = loads \ {l} /\ desk.buyer # NoBuyer
      /\ UNCHANGED <<plan, cases, asked, files>>
      /\ change \in [Slots -> RequestType \cup {NoChange}]
  BY DEF LoadFails, PostTypes, CasesExist
<1>2. CASE l.token = desk.token
  <2>1. desk' = [desk EXCEPT !.error = TRUE, !.target = 0, !.sending = FALSE] /\ Detach({"dialog", "journey"}, "page")
    BY <1>2 DEF LoadFails
  <2>2. /\ desk' \in DeskType /\ desk'.buyer = desk.buyer /\ desk'.token = desk.token /\ desk'.told = desk.told
        /\ desk'.data = desk.data /\ desk'.error
    <3>1. 0 \in 0..8
      OBVIOUS
    <3> QED BY <2>1, <3>1, <1>1 DEF DeskType
  <2>3. change' \in [Slots -> RequestType \cup {NoChange}] /\ \A s \in Slots : Same(change[s], change'[s])
    BY <2>1, DetachSame
  <2>4. OwnChangesShow'
    BY <2>2 DEF OwnChangesShow
  <2> QED BY <1>1, <2>2, <2>3, <2>4, PageKeepsInv
<1>3. CASE l.token # desk.token
  <2>1. desk' = desk /\ change' = change
    BY <1>3 DEF LoadFails
  <2>2. OwnChangesShow' /\ \A s \in Slots : Same(change[s], change'[s])
    BY <1>1, <1>3, <2>1, SameSelf DEF DeskInv, OwnChangesShow
  <2> QED BY <1>1, <2>1, <2>2, PageKeepsInv
<1> QED BY <1>2, <1>3

LEMMA PickTargetInv == ASSUME PostInv, NEW to \in plan.targets, PickTarget(to) PROVE PostInv'
<1> USE DEF PostInv
<1>1. /\ desk \in DeskType /\ desk.buyer # NoBuyer /\ to \in 0..8 /\ desk' = [desk EXCEPT !.target = to, !.sending = FALSE]
      /\ UNCHANGED <<plan, cases, change, asked, files, loads>>
      /\ change \in [Slots -> RequestType \cup {NoChange}]
      /\ \A s \in Slots : Same(change[s], change'[s])
  BY SameSelf DEF PickTarget, Usable, PostTypes, CasesExist, NoDesk
<1>2. /\ desk' \in DeskType /\ desk'.buyer = desk.buyer /\ desk'.token = desk.token /\ desk'.told = desk.told
      /\ desk'.data = desk.data /\ desk'.error = desk.error
  BY <1>1 DEF DeskType
<1>3. OwnChangesShow'
  BY <1>1, <1>2 DEF DeskInv, OwnChangesShow
<1> QED BY <1>1, <1>2, <1>3, PageKeepsInv

LEMMA CloseDialogInv == ASSUME PostInv, CloseDialog PROVE PostInv'
<1> USE DEF PostInv
<1>1. /\ desk \in DeskType /\ desk.buyer # NoBuyer /\ desk' = [desk EXCEPT !.target = 0, !.sending = FALSE]
      /\ UNCHANGED <<plan, cases, asked, files, loads>> /\ Detach({"dialog"}, "journey")
  BY DEF CloseDialog, PostTypes, CasesExist, NoDesk
<1>2. change' \in [Slots -> RequestType \cup {NoChange}] /\ \A s \in Slots : Same(change[s], change'[s])
  BY <1>1, DetachSame
<1>3. /\ desk' \in DeskType /\ desk'.buyer = desk.buyer /\ desk'.token = desk.token /\ desk'.told = desk.told
      /\ desk'.data = desk.data /\ desk'.error = desk.error
  <2>1. 0 \in 0..8
    OBVIOUS
  <2> QED BY <2>1, <1>1 DEF DeskType
<1>4. OwnChangesShow'
  BY <1>1, <1>3 DEF DeskInv, OwnChangesShow
<1> QED BY <1>1, <1>2, <1>3, <1>4, PageKeepsInv

LEMMA AnsweredInv == ASSUME PostInv, NEW s \in Slots, Answered(s) PROVE PostInv'
<1> USE DEF PostInv
<1> DEFINE q == change[s]
           d == IF q.by = "dialog" \/ (q.by = "journey" /\ q.ok)
                THEN [desk EXCEPT !.target = IF q.ok THEN 0 ELSE @, !.sending = FALSE] ELSE desk
           e == [d EXCEPT !.told = IF q.at > @ THEN q.at ELSE @]
<1>1. /\ q \in RequestType /\ q.op # "none" /\ q.by # "other" /\ desk \in DeskType
      /\ UNCHANGED <<plan, cases, asked, files>> /\ change' = [change EXCEPT ![s] = NoChange]
      /\ change \in [Slots -> RequestType \cup {NoChange}]
  BY DEF Answered, PostTypes, NoChange
<1>2. change' \in [Slots -> RequestType \cup {NoChange}] /\ \A t \in Slots : Same(change[t], change'[t])
  <2>1. \A t \in Slots : change'[t] = NoChange \/ change'[t] = change[t]
    BY <1>1
  <2> QED BY <1>1, <2>1, SameSelf DEF Same
<1>3. desk.buyer = q.buyer /\ q.buyer \in Buyers /\ cases[q.buyer] # NoCase
  BY <1>1 DEF DeskInv, CasesExist, RequestType
<1>4. /\ d \in DeskType /\ d.buyer = desk.buyer /\ d.token = desk.token /\ d.told = desk.told
      /\ d.data = desk.data /\ d.error = desk.error
  <2> DEFINE to == IF q.ok THEN 0 ELSE desk.target
  <2>1. to \in 0..8
    BY <1>1 DEF DeskType
  <2>2. CASE d = desk
    BY <2>2, <1>1
  <2> HIDE DEF to
  <2>3. CASE d = [desk EXCEPT !.target = to, !.sending = FALSE]
    BY <2>1, <2>3, <1>1 DEF DeskType
  <2> QED BY <2>2, <2>3 DEF to
<1>5. q.ok => Load(e)
  BY DEF Answered
<1>6. ~q.ok => desk' = d /\ loads' = loads
  BY DEF Answered
<1> HIDE DEF d
<1>7. CASE q.ok
  <2>1. /\ q.at \in Nat /\ q.at <= cases[q.buyer].at /\ desk.told <= cases[q.buyer].at /\ desk.told \in Nat
    BY <1>1, <1>3, PlansAssumption DEF DeskInv, RequestType, DeskType
  <2>2. /\ e \in DeskType /\ e.buyer = desk.buyer /\ e.token = desk.token /\ e.data = desk.data
        /\ e.told <= cases[q.buyer].at
    <3> DEFINE told == IF q.at > d.told THEN q.at ELSE d.told
    <3>1. told \in Nat /\ told <= cases[q.buyer].at
      BY <1>4, <2>1
    <3> HIDE DEF told
    <3>2. e = [d EXCEPT !.told = told]
      BY DEF told
    <3> QED BY <1>4, <3>1, <3>2 DEF DeskType
  <2> HIDE DEF e
  <2> QED BY <1>1, <1>2, <1>3, <1>5, <1>7, <2>2, LoadInv
<1>8. CASE ~q.ok
  <2>1. OwnChangesShow'
    BY <1>4, <1>6, <1>8 DEF DeskInv, OwnChangesShow
  <2>2. desk' \in DeskType /\ desk.buyer # NoBuyer
    BY <1>3, <1>4, <1>6, <1>8, PlansAssumption
  <2> QED BY <1>1, <1>2, <1>4, <1>6, <1>8, <2>1, <2>2, PageKeepsInv
<1> QED BY <1>7, <1>8

LEMMA ColleagueIsToldInv == ASSUME PostInv, NEW s \in Slots, ColleagueIsTold(s) PROVE PostInv'
<1> USE DEF PostInv
<1>1. /\ change \in [Slots -> RequestType \cup {NoChange}] /\ change' = [change EXCEPT ![s] = NoChange]
      /\ UNCHANGED <<plan, cases, asked, files, desk, loads>> /\ desk \in DeskType
  BY DEF ColleagueIsTold, PostTypes
<1>2. \A t \in Slots : change'[t] = NoChange \/ change'[t] = change[t]
  BY <1>1
<1>3. change' \in [Slots -> RequestType \cup {NoChange}] /\ \A t \in Slots : Same(change[t], change'[t])
  BY <1>1, <1>2, SameSelf DEF Same
<1>4. OwnChangesShow'
  BY <1>1 DEF DeskInv, OwnChangesShow
<1> QED BY <1>1, <1>3, <1>4, PageKeepsInv

LEMMA RequestTyped ==
    ASSUME NEW op \in {"status", "note", "upload", "delete"}, NEW b \in Buyers,
           NEW by \in {"dialog", "journey", "page", "other"}, NEW to \in 0..8, NEW doc \in Nat
    PROVE  LET q == Request(op, b, by, to, doc)
           IN  /\ q \in RequestType /\ q.pc = "sent" /\ q.at = 0 /\ q.op = op /\ q.buyer = b /\ q.by = by /\ q.doc = doc
BY NoCaseTyped DEF Request, RequestType

LEMMA ColleagueInv == ASSUME PostInv, NEW s \in Slots, NEW b \in Buyers, Colleague(s, b) PROVE PostInv'
<1> USE DEF PostInv
<1>1. UNCHANGED <<plan, cases, files, loads, desk>> /\ plan.targets \subseteq 0..8 /\ 0 \in Nat /\ 0 \in 0..8
  BY DEF Colleague, PostTypes
<1>2. ASSUME NEW to \in plan.targets, Sends(s, Request("status", b, "other", to, 0)) PROVE PostInv'
  <2> DEFINE q == Request("status", b, "other", to, 0)
  <2>1. q \in RequestType /\ q.pc = "sent" /\ q.at = 0 /\ q.op = "status" /\ q.by = "other"
    BY <1>1, RequestTyped
  <2> HIDE DEF q
  <2>2. Sends(s, q)
    BY <1>2 DEF q
  <2> QED BY <1>1, <2>1, <2>2, SendsInv
<1>3. ASSUME NEW d \in cases[b].docs, Sends(s, Request("delete", b, "other", 0, d)) PROVE PostInv'
  <2> DEFINE q == Request("delete", b, "other", 0, d)
  <2>1. d \in Nat /\ Known(b, d)
    BY DEF PostTypes, CaseType, DocsInv
  <2>2. q \in RequestType /\ q.pc = "sent" /\ q.at = 0 /\ q.op = "delete" /\ q.by = "other" /\ q.buyer = b /\ q.doc = d
    BY <1>1, <2>1, RequestTyped
  <2> HIDE DEF q
  <2>3. Sends(s, q)
    BY <1>3 DEF q
  <2> QED BY <1>1, <2>1, <2>2, <2>3, SendsInv
<1> QED BY <1>2, <1>3 DEF Colleague

LEMMA ConfirmInv == ASSUME PostInv, NEW s \in Slots, Confirm(s) PROVE PostInv'
<1> USE DEF PostInv
<1> DEFINE q == Request("status", desk.buyer, "dialog", desk.target, 0)
<1>1. /\ UNCHANGED <<plan, cases, files, loads>> /\ desk.buyer # NoBuyer /\ desk' = [desk EXCEPT !.sending = TRUE]
      /\ desk.buyer \in Buyers /\ desk.target \in 0..8
  BY DEF Confirm, PostTypes, CasesExist, DeskType, NoDesk
<1>2. q \in RequestType /\ q.pc = "sent" /\ q.at = 0 /\ q.op = "status" /\ q.buyer = desk.buyer
  BY <1>1, RequestTyped
<1>3. Sends(s, q)
  BY DEF Confirm
<1> HIDE DEF q
<1> QED BY <1>1, <1>2, <1>3, SendsInv

LEMMA SendFromDeskInv == ASSUME PostInv, NEW s \in Slots, SendFromDesk(s) PROVE PostInv'
<1> USE DEF PostInv
<1>1. UNCHANGED <<plan, cases, files, loads, desk>> /\ desk.buyer \in Buyers /\ 0 \in 0..8 /\ 0 \in Nat /\ asked + 1 \in Nat
  BY DEF SendFromDesk, Usable, PostTypes, CasesExist, DeskType, NoDesk
<1>2. ASSUME NEW q \in RequestType, Sends(s, q), q.buyer = desk.buyer, q.pc = "sent", q.at = 0,
             q.op = "upload" => q.doc = asked + 1, q.op = "delete" => Known(desk.buyer, q.doc)
      PROVE PostInv'
  BY <1>1, <1>2, SendsInv
<1>3. ASSUME NEW op \in {"note", "upload", "delete"}, NEW doc \in Nat
      PROVE  LET q == Request(op, desk.buyer, "page", 0, doc)
             IN  q \in RequestType /\ q.pc = "sent" /\ q.at = 0 /\ q.op = op /\ q.buyer = desk.buyer /\ q.doc = doc
  BY <1>1, NoCaseTyped DEF Request, RequestType
<1>4. ASSUME Sends(s, Request("note", desk.buyer, "page", 0, 0)) PROVE PostInv'
  <2> DEFINE q == Request("note", desk.buyer, "page", 0, 0)
  <2>1. q \in RequestType /\ q.pc = "sent" /\ q.at = 0 /\ q.op = "note" /\ q.buyer = desk.buyer
    BY <1>1, <1>3
  <2>2. Sends(s, q)
    BY <1>4
  <2> HIDE DEF q
  <2> QED BY <1>2, <2>1, <2>2
<1>5. ASSUME Sends(s, Request("upload", desk.buyer, "page", 0, asked + 1)) PROVE PostInv'
  <2> DEFINE q == Request("upload", desk.buyer, "page", 0, asked + 1)
  <2>1. /\ q \in RequestType /\ q.pc = "sent" /\ q.at = 0 /\ q.op = "upload" /\ q.buyer = desk.buyer
        /\ q.doc = asked + 1
    BY <1>1, <1>3
  <2>2. Sends(s, q)
    BY <1>5
  <2> HIDE DEF q
  <2> QED BY <1>2, <2>1, <2>2
<1>6. ASSUME NEW d \in desk.data.docs, Sends(s, Request("delete", desk.buyer, "page", 0, d)) PROVE PostInv'
  <2> DEFINE q == Request("delete", desk.buyer, "page", 0, d)
  <2>1. d \in Nat /\ Known(desk.buyer, d)
    BY DEF PostTypes, DeskType, CaseType, DocsInv
  <2>2. /\ q \in RequestType /\ q.pc = "sent" /\ q.at = 0 /\ q.op = "delete" /\ q.buyer = desk.buyer
        /\ q.doc = d
    BY <2>1, <1>3
  <2>3. Sends(s, q)
    BY <1>6
  <2> HIDE DEF q
  <2> QED BY <1>2, <2>1, <2>2, <2>3
<1> QED BY <1>4, <1>5, <1>6 DEF SendFromDesk

------------------------------------------------------------------------------
(* Every step.                                                              *)

LEMMA CaseStepInv == ASSUME PostInv, PostAuctionStep PROVE PostInv'
<1>1. ASSUME NEW b \in Buyers, Sell(b) \/ OpenDesk(b) PROVE PostInv'
  BY <1>1, KeptPostInv, OpenDeskInv DEF Sell
<1>2. ASSUME NEW r \in Replicas, LookForCase(r) \/ OpenCase(r) \/ LoseSale(r) PROVE PostInv'
  BY <1>2, KeptPostInv, OpenCaseInv DEF LookForCase, LoseSale
<1>3. ASSUME NEW s \in Slots,
             \/ \E b \in Buyers : Colleague(s, b)
             \/ ReadCase(s) \/ StoreFile(s) \/ CommitChange(s) \/ RemoveFile(s) \/ BreakRequest(s)
             \/ ColleagueIsTold(s) \/ Confirm(s) \/ SendFromDesk(s) \/ Answered(s)
      PROVE PostInv'
  BY <1>3, ColleagueInv, ReadCaseInv, StoreFileInv, CommitChangeInv, RemoveFileInv, BreakRequestInv,
     ColleagueIsToldInv, ConfirmInv, SendFromDeskInv, AnsweredInv
<1>4. ASSUME NEW l \in loads, ServeLoad(l) \/ LoadArrives(l) \/ LoadFails(l) PROVE PostInv'
  BY <1>4, ServeLoadInv, LoadArrivesInv, LoadFailsInv
<1>5. ASSUME NEW to \in plan.targets, PickTarget(to) PROVE PostInv'
  BY <1>5, PickTargetInv
<1> QED BY <1>1, <1>2, <1>3, <1>4, <1>5, RetryLoadInv, CloseDialogInv DEF PostAuctionStep

\* The guarantees and the room leave the cases alone.
LEMMA OtherStepsKeep ==
    Shared \/ OnTheHold \/ OtherTab \/ InTheRoom
    \/ (\E f \in flights : RoomAsks(f) \/ RoomIsAnswered(f))
    \/ (\E f \in flights : PollFails(f) /\ UNCHANGED <<plan, sale, post, hold>>)
      => UNCHANGED <<plan, post>>
BY DEF Shared, OnTheHold, OtherTab, InTheRoom, RoomAsks, RoomIsAnswered

LEMMA StepPostInv == PostInv /\ [Next]_vars => PostInv'
<1> SUFFICES ASSUME PostInv, [Next]_vars PROVE PostInv'
  OBVIOUS
<1>1. CASE OnTheCase
  BY <1>1, CaseStepInv DEF OnTheCase
<1>2. CASE UNCHANGED vars
  BY <1>2, KeptPostInv DEF vars
<1>3. CASE UNCHANGED <<plan, post>>
  BY <1>3, KeptPostInv
<1> QED BY <1>1, <1>2, <1>3, OtherStepsKeep DEF Next

\* The invariant holds in every state of every behaviour.
THEOREM PostInvariant == Spec => []PostInv
<1>1. Init => PostInv
  BY InitPostInv
<1> QED BY <1>1, StepPostInv, PTL DEF Spec

\* For every set of buyers, replicas, requests and failures: a document that a case lists
\* has its file.
THEOREM DocumentsAlwaysHaveFiles == Spec => []DocumentsHaveFiles
<1>1. PostInv => DocumentsHaveFiles
  BY DEF PostInv, DocsInv, DocumentsHaveFiles
<1> QED BY <1>1, PostInvariant, PTL

\* The page of the staff shows what it was told, whatever order its loads are answered in.
THEOREM OwnChangesAlwaysShow == Spec => []OwnChangesShow
<1>1. PostInv => OwnChangesShow
  BY DEF PostInv, DeskInv
<1> QED BY <1>1, PostInvariant, PTL

------------------------------------------------------------------------------
(* A case goes back only by two overlapping changes of its status.          *)

LEMMA OpenCaseStatus ==
    ASSUME PostInv, NEW r \in Replicas, OpenCase(r), NEW b \in Buyers PROVE cases'[b].status >= cases[b].status
<1>1. cases \in [Buyers -> CaseType]
  BY DEF PostInv, PostTypes
<1>2. CASE cases' = cases
  BY <1>1, <1>2 DEF CaseType
<1>3. CASE cases[opening[r][1]] = NoCase /\ cases' = [cases EXCEPT ![opening[r][1]] = [NoCase EXCEPT !.status = 1]]
  BY <1>1, <1>3 DEF CaseType, NoCase
<1> QED BY <1>2, <1>3 DEF OpenCase

LEMMA CommitStatus ==
    ASSUME PostInv, NEW s \in Slots, CommitChange(s), NEW b \in Buyers, cases'[b].status < cases[b].status
    PROVE  /\ change[s].op = "status" /\ change[s].pc = "commit" /\ change[s].buyer = b
           /\ change[s].seen.status < cases'[b].status
           /\ change[s].seen.at < cases[b].at
<1> USE DEF PostInv
<1> DEFINE q == change[s]
<1>1. /\ q \in RequestType /\ q.op # "none" /\ q.pc = "commit" /\ q.buyer \in Buyers /\ cases[q.buyer] \in CaseType
      /\ cases \in [Buyers -> CaseType] /\ cases' = [cases EXCEPT ![q.buyer] = Changed(cases[q.buyer], q)]
  BY DEF CommitChange, PostTypes, RequestType, NoChange
<1>2. q.buyer = b
  BY <1>1 DEF CaseType
<1>3. cases'[b] = Changed(cases[b], q) /\ cases[b].status \in 0..8
  BY <1>1, <1>2 DEF CaseType
<1>4. q.op = "status" /\ cases'[b].status = q.to
  BY <1>1, <1>2, <1>3, ChangedTyped
<1>5. /\ q.seen.status < q.to
      /\ q.seen.at < cases[b].at \/ (q.seen.at = cases[b].at /\ q.seen.status = cases[b].status)
  BY <1>1, <1>2, <1>4 DEF ReadInv
<1>6. q.to \in 0..8
  BY <1>1 DEF RequestType
<1> QED BY <1>1, <1>2, <1>3, <1>4, <1>5, <1>6

LEMMA BackStep ==
    ASSUME PostInv, [Next]_vars, NEW b \in Buyers, cases'[b].status < cases[b].status
    PROVE  \E s \in Slots : /\ change[s].op = "status" /\ change[s].pc = "commit" /\ change[s].buyer = b
                            /\ change[s].seen.status < cases'[b].status
                            /\ change[s].seen.at < cases[b].at
<1>1. cases[b].status \in 0..8
  BY DEF PostInv, PostTypes, CaseType
<1>2. cases' # cases
  BY <1>1
<1>3. (\E r \in Replicas : OpenCase(r)) \/ (\E s \in Slots : CommitChange(s))
  <2>1. OnTheCase
    BY <1>2, OtherStepsKeep DEF Next, vars, post
  <2> QED BY <1>2, <2>1 DEF OnTheCase, PostAuctionStep, Sell, OpenDesk, LookForCase, LoseSale, Colleague, ReadCase,
            StoreFile, RemoveFile, BreakRequest, ColleagueIsTold, Confirm, SendFromDesk, Answered, ServeLoad,
            LoadArrives, LoadFails, PickTarget, RetryLoad, CloseDialog, post
<1>4. ASSUME NEW r \in Replicas, OpenCase(r) PROVE FALSE
  <2>1. cases'[b].status >= cases[b].status
    BY <1>4, OpenCaseStatus
  <2>2. cases'[b].status \in 0..8
    BY StepPostInv DEF PostInv, PostTypes, CaseType
  <2> QED BY <1>1, <2>1, <2>2
<1> QED BY <1>3, <1>4, CommitStatus

\* Each change of status was allowed by what it read, so that a case goes back only when
\* one was committed between the reading and the writing of another.
THEOREM CasesGoBackOnlyByOverlap == Spec => GoesBackOnlyByOverlap
<1>1. PostInv /\ [Next]_vars =>
        [\A b \in Buyers : cases'[b].status < cases[b].status =>
           \E s \in Slots : /\ change[s].op = "status" /\ change[s].pc = "commit" /\ change[s].buyer = b
                            /\ change[s].seen.status < cases'[b].status
                            /\ change[s].seen.at < cases[b].at]_vars
  BY BackStep
<1> QED BY <1>1, PostInvariant, PTL DEF Spec, GoesBackOnlyByOverlap
==============================================================================
