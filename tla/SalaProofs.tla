------------------------------ MODULE SalaProofs ------------------------------
(***************************************************************************)
(* Theorems about Sala, for every set of lotes and every plan.             *)
(***************************************************************************)
EXTENDS Sala, TLAPS

------------------------------------------------------------------------------
(* A page that has been left holds nothing.                                 *)

\* A join in flight travels on an open connection.
JoinsByAnOpen == owed = <<"join">> => conn = "open"

\* With it LeavesNothingBehind is inductive: every action that opens a connection or
\* starts the timer asks for a socket that is not closed.
LeftInv == LeavesNothingBehind /\ JoinsByAnOpen

LEMMA StepLeavesNothing ==
    ASSUME LeftInv, [Next]_vars PROVE LeftInv'
<1> USE DEF LeftInv, LeavesNothingBehind, JoinsByAnOpen
<1>1. CASE ServerStep
  BY <1>1 DEF ServerStep, net, client
<1>2. CASE GatewayStep
  BY <1>2 DEF GatewayStep, JoinRoom, RefuseJoin, BuildSnapshot, LoteForSnapshot, SendSnapshot,
     SnapshotFails, ExpireCache, Asked, ReadRemate, ReadLote, net, client
<1>3. CASE BusStep
  BY <1>3 DEF BusStep, Publish, LoseEvent, net, client
<1>4. CASE SocketStep
  BY <1>4 DEF SocketStep, Connected, Drop, Reconnect, Gone, net, client
<1>5. CASE PageStep
  BY <1>5 DEF PageStep, BuildPage, LoteForPage, ServePage, PageArrives, PageFails, Reload, ServeLotes,
     LotesArrive, net, client
<1>6. CASE ScreenStep
  BY <1>6 DEF ScreenStep, Deliver, Render, Continue, Leave, Disconnect, Gone, net, client
<1>7. CASE BidStep
  <2>1. UNCHANGED <<left, conn, retry, member, owed>>
    BY <1>7 DEF BidStep, Submit, Touch, ServeBid, GiveUp, Answer, net, client
  <2> QED BY <2>1
<1>8. CASE UNCHANGED vars
  BY <1>8 DEF vars, net, client
<1> QED BY <1>1, <1>2, <1>3, <1>4, <1>5, <1>6, <1>7, <1>8 DEF Next

\* A page that has been left holds no connection and opens none: the cleanup of
\* the effect in useLiveRemateState, and disconnect and its timer in client.ts.
THEOREM PageLeavesNothing == Spec => []LeavesNothingBehind
<1>1. Init => LeftInv
  BY DEF Init, LeftInv, LeavesNothingBehind, JoinsByAnOpen
<1>2. LeftInv /\ [Next]_vars => LeftInv'
  BY StepLeavesNothing
<1>3. LeftInv => LeavesNothingBehind
  BY DEF LeftInv
<1> QED BY <1>1, <1>2, <1>3, PTL DEF Spec

------------------------------------------------------------------------------
(* What the page announced as accepted stands.                              *)

OfertaStatus == {"accepted", "outbid", "rejected"}

\* The shape of the records, over whatever values U they hold.
Row(U)  == [lote : U, mine : BOOLEAN, amount : U, token : Nat, status : OfertaStatus]
Bid(U)  == [lote : U, amount : U, token : Nat, touched : U, seen : U,
            answer : OfertaStatus \cup {"none", "conflict"}, waiting : BOOLEAN, form : BOOLEAN]
Form(U) == [touched : U, amount : U, token : [amount : U, id : Nat], busy : BOOLEAN, outbid : U]
Typed(U) == ofertas \in Seq(Row(U)) /\ reqs \subseteq Bid(U) /\ form \in Form(U) /\ drawn \in Nat

\* Every token with the amount it was drawn for: in the buyer's rows, in the bids
\* in flight, in the form; 0 is the token of a form that has none.
Claims ==
    {<<ofertas[i].token, ofertas[i].amount>> : i \in {j \in DOMAIN ofertas : ofertas[j].mine}}
    \cup {<<r.token, r.amount>> : r \in reqs}
    \cup {<<form.token.id, form.token.amount>>, <<0, 0>>}

OneAmount == \A c \in Claims : c[1] <= drawn /\ \A d \in Claims : c[1] = d[1] => c[2] = d[2]

Stands(l, a) == \E i \in DOMAIN ofertas :
    /\ ofertas[i].mine /\ ofertas[i].lote = l /\ ofertas[i].amount = a
    /\ ofertas[i].status # "rejected"

AnswersStand == \A r \in reqs : r.answer = "accepted" => Stands(r.lote, r.amount)

BidInv == (\E U : Typed(U)) /\ OneAmount /\ AnswersStand /\ AnnouncedBidStands

\* What no action does to a row: lose it, move it, or reject it afterwards.
RowsKept == \A i \in DOMAIN ofertas :
    /\ i \in DOMAIN ofertas'
    /\ ofertas'[i].mine = ofertas[i].mine /\ ofertas'[i].lote = ofertas[i].lote
    /\ ofertas'[i].amount = ofertas[i].amount /\ ofertas'[i].token = ofertas[i].token
    /\ ofertas'[i].status = "rejected" => ofertas[i].status = "rejected"

LEMMA StandsOn ==
    ASSUME RowsKept, NEW l, NEW a, Stands(l, a) PROVE Stands(l, a)'
  BY DEF RowsKept, Stands

\* Amounts do not change while no claim is added.
LEMMA NoNewClaim ==
    ASSUME OneAmount, drawn \in Nat, drawn' \in Nat, drawn <= drawn', Claims' \subseteq Claims,
           \A c \in Claims : c[1] \in Nat
    PROVE  OneAmount'
  BY DEF OneAmount

LEMMA ClaimTypes ==
    ASSUME NEW U, Typed(U) PROVE \A c \in Claims : c[1] \in Nat
<1>0. \A i \in DOMAIN ofertas : ofertas[i] \in Row(U)
  BY DEF Typed
<1>1. \A i \in DOMAIN ofertas : ofertas[i].token \in Nat
  BY <1>0 DEF Row
<1>2. \A r \in reqs : r.token \in Nat
  BY DEF Typed, Bid
<1>3. form.token.id \in Nat
  BY DEF Typed, Form
<1> QED BY <1>1, <1>2, <1>3 DEF Claims

LEMMA Grows ==
    ASSUME NEW U, NEW V, U \subseteq V, Typed(U) PROVE Typed(V)
<1>1. Row(U) \subseteq Row(V)
  BY DEF Row
<1>2. Seq(Row(U)) \subseteq Seq(Row(V))
  BY <1>1
<1>3. Bid(U) \subseteq Bid(V)
  BY DEF Bid
<1>4. Form(U) \subseteq Form(V)
  BY DEF Form
<1> QED BY <1>2, <1>3, <1>4 DEF Typed

\* Who leads the lote is outbid, and no other row changes its status.
Outbids(l) == \A i \in DOMAIN ofertas :
    ofertas'[i].status = IF i = Leader(l) THEN "outbid" ELSE ofertas[i].status

\* Accept appends a row and outbids the leader.
LEMMA AcceptKeepsRows ==
    ASSUME NEW U, ofertas \in Seq(Row(U)), NEW l \in U, NEW mine \in BOOLEAN, NEW amount \in U,
           NEW token \in Nat, Accept(l, mine, amount, token)
    PROVE  /\ RowsKept
           /\ Outbids(l)
           /\ ofertas' \in Seq(Row(U))
           /\ Len(ofertas') = Len(ofertas) + 1
           /\ ofertas'[Len(ofertas')] = [lote |-> l, mine |-> mine, amount |-> amount,
                                         token |-> token, status |-> "accepted"]
<1> DEFINE row == [lote |-> l, mine |-> mine, amount |-> amount, token |-> token,
                   status |-> "accepted"]
           out == [i \in DOMAIN ofertas |->
                     IF i = Leader(l) THEN [ofertas[i] EXCEPT !.status = "outbid"] ELSE ofertas[i]]
<1>1. ofertas \in Seq(Row(U))
  OBVIOUS
<1>2. row \in Row(U)
  BY DEF Row, OfertaStatus
<1>a. \A r \in Row(U) : /\ [r EXCEPT !.status = "outbid"] \in Row(U)
                        /\ [r EXCEPT !.status = "outbid"] =
                             [lote |-> r.lote, mine |-> r.mine, amount |-> r.amount,
                              token |-> r.token, status |-> "outbid"]
  BY DEF Row, OfertaStatus
<1>b. \A i \in DOMAIN ofertas : ofertas[i] \in Row(U)
  BY <1>1
<1>3. \A i \in DOMAIN ofertas : out[i] \in Row(U)
  BY <1>a, <1>b
<1>4. out \in Seq(Row(U)) /\ Len(out) = Len(ofertas) /\ DOMAIN out = DOMAIN ofertas
  BY <1>1, <1>3
<1>5. ofertas' = Append(out, row)
  BY DEF Accept
<1>6. \A i \in DOMAIN ofertas :
        /\ out[i].mine = ofertas[i].mine /\ out[i].lote = ofertas[i].lote
        /\ out[i].amount = ofertas[i].amount /\ out[i].token = ofertas[i].token
        /\ out[i].status = IF i = Leader(l) THEN "outbid" ELSE ofertas[i].status
  BY <1>a, <1>b
<1>7. \A i \in DOMAIN ofertas : i \in DOMAIN ofertas' /\ ofertas'[i] = out[i]
  BY <1>1, <1>2, <1>4, <1>5
<1> HIDE DEF out
<1>8. RowsKept
  BY <1>6, <1>7 DEF RowsKept
<1>9. Outbids(l)
  BY <1>6, <1>7 DEF Outbids
<1> QED BY <1>2, <1>4, <1>5, <1>1, <1>8, <1>9

\* What leaves rows, bids and form alone keeps the invariant.
LEMMA NothingSaid ==
    ASSUME BidInv, UNCHANGED <<ofertas, form, reqs, told, drawn>> PROVE BidInv'
  BY DEF BidInv, Typed, OneAmount, Claims, AnswersStand, Stands, AnnouncedBidStands

LEMMA InitBid == ASSUME Init PROVE BidInv
<1>1. Typed({FALSE, 0})
  BY DEF Init, Typed, Form, FreshForm, NoToken
<1>2. Claims = {<<0, 0>>}
  BY DEF Init, Claims, FreshForm, NoToken
<1>3. OneAmount
  BY <1>2 DEF OneAmount, Init
<1> QED BY <1>1, <1>3 DEF BidInv, Init, AnswersStand, AnnouncedBidStands

LEMMA RivalKeepsBids ==
    ASSUME BidInv, NEW l \in Lotes, RivalBids(l), UNCHANGED bids PROVE BidInv'
<1>1. PICK U : Typed(U)
  BY DEF BidInv
<1> DEFINE a == Amount(Leader(l)) + 1
<1>a. PICK V : U \subseteq V /\ l \in V /\ a \in V
  <2> WITNESS U \cup {l, a}
  <2> QED OBVIOUS
<1>2. Typed(V)
  BY <1>1, <1>a, Grows
<1>3. Accept(l, FALSE, a, 0)
  BY DEF RivalBids
<1>4. /\ RowsKept
      /\ ofertas' \in Seq(Row(V))
      /\ Len(ofertas') = Len(ofertas) + 1
      /\ ofertas'[Len(ofertas')] = [lote |-> l, mine |-> FALSE, amount |-> a, token |-> 0,
                                    status |-> "accepted"]
  BY <1>2, <1>3, <1>a, AcceptKeepsRows DEF Typed
<1> HIDE DEF a
<1>5. Typed(V)'
  BY <1>2, <1>4 DEF Typed, bids
<1>6. \A i \in DOMAIN ofertas' : ofertas'[i].mine => i \in DOMAIN ofertas
  BY <1>2, <1>4 DEF Typed
<1>7. Claims' \subseteq Claims
  BY <1>4, <1>6 DEF Claims, RowsKept, bids
<1>8. OneAmount'
  BY <1>1, <1>5, <1>7, ClaimTypes, NoNewClaim DEF BidInv, Typed, bids
<1>9. AnswersStand' /\ AnnouncedBidStands'
  <2>1. \A x, y : Stands(x, y) => Stands(x, y)'
    BY <1>4, StandsOn
  <2>2. reqs' = reqs /\ told' = told
    BY DEF bids
  <2>3. AnnouncedBidStands <=> \A t \in told : Stands(t[1], t[2])
    BY DEF AnnouncedBidStands, Stands
  <2>4. AnnouncedBidStands' <=> \A t \in told' : Stands(t[1], t[2])'
    BY DEF AnnouncedBidStands, Stands
  <2> QED BY <2>1, <2>2, <2>3, <2>4 DEF BidInv, AnswersStand
<1> QED BY <1>5, <1>8, <1>9 DEF BidInv

LEMMA ServerKeepsBids ==
    ASSUME BidInv, ServerStep PROVE BidInv'
<1>1. CASE \E l \in Lotes : RivalBids(l)
  BY <1>1, RivalKeepsBids DEF ServerStep
<1>2. CASE ~ \E l \in Lotes : RivalBids(l)
  <2>1. UNCHANGED ofertas
    BY <1>2 DEF ServerStep, RemateMoves, OpenLote, EndLote, Requeue, MoveTimer
  <2> QED BY <2>1, NothingSaid DEF ServerStep, bids
<1> QED BY <1>1, <1>2

\* A form that loses its state forgets its token, and nobody hears its bids.
LEMMA RenderKeepsBids ==
    ASSUME BidInv, Render PROVE BidInv'
<1>1. PICK U : Typed(U)
  BY DEF BidInv
<1> DEFINE R == {[r EXCEPT !.form = FALSE] : r \in reqs}
<1>a. PICK V : U \subseteq V /\ form'.outbid \in V /\ FALSE \in V /\ 0 \in V
  <2> WITNESS U \cup {form'.outbid, FALSE, 0}
  <2> QED OBVIOUS
<1>2. Typed(V)
  BY <1>1, <1>a, Grows
<1>3. UNCHANGED <<ofertas, told, drawn>>
  BY DEF Render, server
<1>4. CASE Mounted(view)
  <2>1. form' = [form EXCEPT !.outbid = form'.outbid] /\ reqs' = reqs
    <3>1. form' = [form EXCEPT !.outbid = Outbid(view)] /\ reqs' = reqs
      BY <1>4 DEF Render
    <3>2. PICK o : form' = [form EXCEPT !.outbid = o] /\ reqs' = reqs
      BY <3>1, Zenon
    <3> QED BY <1>2, <3>2 DEF Typed, Form
  <2>2. form' \in Form(V) /\ form'.token = form.token
    BY <1>2, <1>a, <2>1 DEF Typed, Form
  <2>3. Typed(V)'
    BY <1>2, <1>3, <2>1, <2>2 DEF Typed
  <2>4. Claims' = Claims
    BY <1>3, <2>1, <2>2 DEF Claims
  <2> QED BY <1>3, <2>1, <2>3, <2>4
          DEF BidInv, OneAmount, AnswersStand, AnnouncedBidStands, Stands
<1>5. CASE ~Mounted(view)
  <2>1. form' = FreshForm /\ reqs' = R
    BY <1>5 DEF Render
  <2>2. \A r \in reqs : /\ [r EXCEPT !.form = FALSE] \in Bid(V)
                        /\ [r EXCEPT !.form = FALSE].lote = r.lote
                        /\ [r EXCEPT !.form = FALSE].amount = r.amount
                        /\ [r EXCEPT !.form = FALSE].token = r.token
                        /\ [r EXCEPT !.form = FALSE].answer = r.answer
    BY <1>2 DEF Typed, Bid
  <2>3. \A q \in reqs' : q \in Bid(V) /\ \E r \in reqs :
           q.lote = r.lote /\ q.amount = r.amount /\ q.token = r.token /\ q.answer = r.answer
    BY <2>1, <2>2
  <2>4. form' \in Form(V) /\ form'.token = [amount |-> 0, id |-> 0]
    BY <1>a, <2>1 DEF Form, FreshForm, NoToken
  <2>5. Typed(V)'
    BY <1>2, <1>3, <2>3, <2>4 DEF Typed
  <2>6. Claims' \subseteq Claims
    BY <1>3, <2>3, <2>4 DEF Claims
  <2>7. OneAmount'
    BY <1>2, <1>3, <2>6, ClaimTypes, NoNewClaim DEF BidInv, Typed
  <2>8. AnswersStand' /\ AnnouncedBidStands'
    BY <1>3, <2>3 DEF BidInv, AnswersStand, AnnouncedBidStands, Stands
  <2> QED BY <2>5, <2>7, <2>8 DEF BidInv
<1> QED BY <1>4, <1>5

LEMMA TouchKeepsBids ==
    ASSUME BidInv, NEW a \in 1..plan.amount, Touch(a) PROVE BidInv'
<1>1. PICK U : Typed(U)
  BY DEF BidInv
<1> DEFINE V == U \cup {a, TRUE}
<1>2. Typed(V)
  BY <1>1, Grows
<1>3. form' = [form EXCEPT !.touched = TRUE, !.amount = a] /\ UNCHANGED <<ofertas, reqs, told, drawn>>
  BY DEF Touch, server
<1>4. form' \in Form(V) /\ form'.token = form.token
  BY <1>2, <1>3 DEF Typed, Form
<1>5. Typed(V)'
  BY <1>2, <1>3, <1>4 DEF Typed
<1>6. Claims' = Claims
  BY <1>3, <1>4 DEF Claims
<1> QED BY <1>3, <1>5, <1>6
        DEF BidInv, OneAmount, AnswersStand, AnnouncedBidStands, Stands

\* A bid takes the token of its amount, or one that nobody holds.
LEMMA SubmitKeepsBids ==
    ASSUME BidInv, Submit PROVE BidInv'
<1>1. PICK U : Typed(U)
  BY DEF BidInv
<1> DEFINE a == Offer
           t == TokenFor(Offer)
           r == [lote |-> shown.lote, amount |-> a, token |-> t, touched |-> form.touched,
                 seen |-> shown.winner, answer |-> "none", waiting |-> TRUE, form |-> TRUE]
<1>a. PICK V : U \subseteq V /\ a \in V /\ shown.lote \in V /\ shown.winner \in V
  <2> WITNESS U \cup {a, shown.lote, shown.winner}
  <2> QED OBVIOUS
<1>2. Typed(V)
  BY <1>1, <1>a, Grows
<1>3. /\ drawn' = (IF t > drawn THEN t ELSE drawn)
      /\ reqs' = reqs \cup {r}
      /\ UNCHANGED <<ofertas, told>>
  BY DEF Submit, server
<1>4. t = (IF form.token.amount = a THEN form.token.id ELSE drawn + 1)
  BY DEF TokenFor
<1>5. \E b : form' = [form EXCEPT !.busy = TRUE, !.token = b] /\ b = [amount |-> a, id |-> t]
  <2>1. form' = [form EXCEPT !.busy = TRUE, !.token = [amount |-> a, id |-> t]]
    BY DEF Submit
  <2> QED BY <2>1, Zenon
<1> HIDE DEF a, t
<1>6. form.token.id \in Nat /\ drawn \in Nat /\ form.touched \in V
  BY <1>2 DEF Typed, Form
<1>7. t \in Nat /\ drawn' \in Nat /\ drawn <= drawn' /\ t <= drawn'
  BY <1>3, <1>4, <1>6
<1>8. form' \in Form(V) /\ form'.token = [amount |-> a, id |-> t]
  <2>1. PICK b : form' = [form EXCEPT !.busy = TRUE, !.token = b] /\ b = [amount |-> a, id |-> t]
    BY <1>5
  <2>2. b \in [amount : V, id : Nat]
    BY <1>7, <1>a, <2>1
  <2>3. form \in Form(V)
    BY <1>2 DEF Typed
  <2>4. form' \in Form(V) /\ form'.token = b
    BY <2>1, <2>2, <2>3 DEF Form
  <2> QED BY <2>1, <2>4
<1>9. r \in Bid(V)
  BY <1>6, <1>7, <1>a DEF Bid
<1>10. Typed(V)'
  BY <1>2, <1>3, <1>7, <1>8, <1>9 DEF Typed
<1>11. Claims' \subseteq Claims \cup {<<t, a>>}
  BY <1>3, <1>8 DEF Claims
<1>12. \A c \in Claims : c[1] \in Nat /\ c[1] <= drawn
  BY <1>2, ClaimTypes DEF BidInv, OneAmount
<1>13. <<t, a>> \in Claims \/ t = drawn + 1
  BY <1>4, <1>6 DEF Claims
<1>14. OneAmount'
  <2>1. CASE <<t, a>> \in Claims
    BY <1>3, <1>6, <1>7, <1>11, <1>12, <2>1, NoNewClaim DEF BidInv
  <2>2. CASE t = drawn + 1
    <3>1. \A c \in Claims : c[1] # t
      BY <1>6, <1>12, <2>2
    <3>2. \A c \in Claims : c[1] <= drawn'
      BY <1>6, <1>7, <1>12
    <3>3. \A c, d \in Claims \cup {<<t, a>>} : c[1] = d[1] => c[2] = d[2]
      BY <3>1 DEF BidInv, OneAmount
    <3> QED BY <1>7, <1>11, <3>2, <3>3 DEF OneAmount
  <2> QED BY <1>13, <2>1, <2>2
<1>15. AnswersStand' /\ AnnouncedBidStands'
  BY <1>3 DEF BidInv, AnswersStand, AnnouncedBidStands, Stands
<1> QED BY <1>10, <1>14, <1>15 DEF BidInv

\* An answer names a bid that was in flight and says of it what its row says.
LEMMA ServeKeepsBids ==
    ASSUME BidInv, NEW r \in reqs, ServeBid(r) PROVE BidInv'
<1>1. PICK U : Typed(U)
  BY DEF BidInv
<1>2. /\ r \in Bid(U) /\ r.lote \in U /\ r.amount \in U /\ r.token \in Nat
      /\ ofertas \in Seq(Row(U))
      /\ \A i \in DOMAIN ofertas : ofertas[i] \in Row(U)
  BY <1>1 DEF Typed, Bid
<1>3. UNCHANGED <<form, told, drawn>>
  BY DEF ServeBid
<1>4. ASSUME NEW a \in OfertaStatus \cup {"conflict"}, Answered(r, a)
      PROVE  \A q \in reqs' : q \in reqs \/
                (/\ q \in Bid(U) /\ q.lote = r.lote /\ q.amount = r.amount
                 /\ q.token = r.token /\ q.answer = a)
  <2>1. /\ [r EXCEPT !.answer = a] \in Bid(U)
        /\ [r EXCEPT !.answer = a].lote = r.lote /\ [r EXCEPT !.answer = a].amount = r.amount
        /\ [r EXCEPT !.answer = a].token = r.token /\ [r EXCEPT !.answer = a].answer = a
    BY <1>2 DEF Bid
  <2>2. reqs' \subseteq reqs \cup {[r EXCEPT !.answer = a]}
    BY <1>4 DEF Answered
  <2> QED BY <2>1, <2>2
<1>5. ASSUME RowsKept, ofertas' \in Seq(Row(U)),
             NEW a \in OfertaStatus \cup {"conflict"}, Answered(r, a),
             a = "accepted" => Stands(r.lote, r.amount)',
             \A i \in DOMAIN ofertas' : ofertas'[i].mine =>
                \/ i \in DOMAIN ofertas
                \/ ofertas'[i].token = r.token /\ ofertas'[i].amount = r.amount
      PROVE  BidInv'
  <2>1. \A q \in reqs' : q \in Bid(U) /\ \E p \in reqs : q.token = p.token /\ q.amount = p.amount
    BY <1>1, <1>4, <1>5 DEF Typed
  <2>2. Typed(U)'
    BY <1>1, <1>3, <1>5, <2>1 DEF Typed
  <2>3. \A i \in DOMAIN ofertas' : ofertas'[i].mine =>
           <<ofertas'[i].token, ofertas'[i].amount>> \in Claims
    BY <1>5 DEF Claims, RowsKept
  <2>4. \A q \in reqs' : <<q.token, q.amount>> \in Claims
    BY <2>1 DEF Claims
  <2>5. Claims' \subseteq Claims
    BY <1>3, <2>3, <2>4 DEF Claims
  <2>6. OneAmount'
    BY <1>1, <1>3, <2>5, ClaimTypes, NoNewClaim DEF BidInv, Typed
  <2>7. \A x, y : Stands(x, y) => Stands(x, y)'
    BY <1>5, StandsOn
  <2>8. AnswersStand'
    BY <1>4, <1>5, <2>7 DEF BidInv, AnswersStand
  <2>9. AnnouncedBidStands'
    <3>1. AnnouncedBidStands <=> \A t \in told : Stands(t[1], t[2])
      BY DEF AnnouncedBidStands, Stands
    <3>2. AnnouncedBidStands' <=> \A t \in told' : Stands(t[1], t[2])'
      BY DEF AnnouncedBidStands, Stands
    <3> QED BY <1>3, <2>7, <3>1, <3>2 DEF BidInv
  <2> QED BY <2>2, <2>6, <2>8, <2>9 DEF BidInv
<1>6. CASE Existing(r.lote, r.token) # {}
  <2>1. PICK i \in Existing(r.lote, r.token) : Answered(r, ofertas[i].status)
    BY <1>6 DEF ServeBid
  <2>2. UNCHANGED ofertas
    BY <1>6 DEF ServeBid, server
  <2>3. i \in DOMAIN ofertas /\ ofertas[i].mine /\ ofertas[i].token = r.token /\ ofertas[i].lote = r.lote
    BY <2>1 DEF Existing
  <2>4. ofertas[i].amount = r.amount
    <3>1. <<ofertas[i].token, ofertas[i].amount>> \in Claims /\ <<r.token, r.amount>> \in Claims
      BY <2>3 DEF Claims
    <3> QED BY <2>3, <3>1 DEF BidInv, OneAmount
  <2>5. ofertas[i].status \in OfertaStatus
    BY <1>2, <2>3 DEF Row
  <2>6. ofertas[i].status = "accepted" => Stands(r.lote, r.amount)'
    BY <2>2, <2>3, <2>4 DEF Stands
  <2>7. RowsKept
    BY <2>2 DEF RowsKept
  <2> QED BY <1>2, <1>5, <2>1, <2>2, <2>5, <2>6, <2>7
<1>7. CASE Existing(r.lote, r.token) = {} /\ TokenTaken(r.token)
  <2>1. Answered(r, "conflict") /\ UNCHANGED ofertas
    BY <1>7 DEF ServeBid, server
  <2>2. RowsKept
    BY <2>1 DEF RowsKept
  <2> QED BY <1>2, <1>5, <2>1, <2>2
<1>8. CASE ~TokenTaken(r.token) /\ Existing(r.lote, r.token) = {} /\ Refused(r.lote, r.amount)
  <2> DEFINE row == [lote |-> r.lote, mine |-> TRUE, amount |-> r.amount, token |-> r.token,
                     status |-> "rejected"]
  <2>1. Answered(r, "rejected") /\ ofertas' = Append(ofertas, row)
    BY <1>8 DEF ServeBid
  <2>2. row \in Row(U)
    BY <1>2 DEF Row, OfertaStatus
  <2>3. /\ ofertas' \in Seq(Row(U))
        /\ \A i \in DOMAIN ofertas : i \in DOMAIN ofertas' /\ ofertas'[i] = ofertas[i]
        /\ \A i \in DOMAIN ofertas' : i \in DOMAIN ofertas \/ ofertas'[i] = row
    BY <1>2, <2>1, <2>2
  <2>4. RowsKept
    BY <2>3 DEF RowsKept
  <2> QED BY <1>5, <2>1, <2>3, <2>4 DEF OfertaStatus
<1>9. CASE ~TokenTaken(r.token) /\ Existing(r.lote, r.token) = {} /\ ~Refused(r.lote, r.amount)
  <2>1. Answered(r, "accepted") /\ Accept(r.lote, TRUE, r.amount, r.token)
    BY <1>9 DEF ServeBid
  <2>2. /\ RowsKept
        /\ ofertas' \in Seq(Row(U))
        /\ Len(ofertas') = Len(ofertas) + 1
        /\ ofertas'[Len(ofertas')] = [lote |-> r.lote, mine |-> TRUE, amount |-> r.amount,
                                      token |-> r.token, status |-> "accepted"]
    BY <1>1, <1>2, <2>1, AcceptKeepsRows
  <2>3. \A i \in DOMAIN ofertas' : i \in DOMAIN ofertas \/ i = Len(ofertas')
    BY <1>2, <2>2
  <2>4. Stands(r.lote, r.amount)'
    BY <1>2, <2>2 DEF Stands
  <2> QED BY <1>5, <2>1, <2>2, <2>3, <2>4 DEF OfertaStatus
<1> QED BY <1>6, <1>7, <1>8, <1>9

LEMMA GiveUpKeepsBids ==
    ASSUME BidInv, NEW r \in reqs, GiveUp(r) PROVE BidInv'
<1>1. PICK U : Typed(U)
  BY DEF BidInv
<1>2. UNCHANGED <<ofertas, told, drawn>>
  BY DEF GiveUp, server
<1>3. r \in Bid(U)
  BY <1>1 DEF Typed
<1>4. \A q \in reqs' : q \in Bid(U) /\ \E p \in reqs :
         q.lote = p.lote /\ q.amount = p.amount /\ q.token = p.token /\ q.answer = p.answer
  <2> DEFINE q == [r EXCEPT !.waiting = FALSE, !.form = FALSE]
  <2>1. q \in Bid(U) /\ q.lote = r.lote /\ q.amount = r.amount /\ q.token = r.token
        /\ q.answer = r.answer
    BY <1>3 DEF Bid
  <2>2. reqs' \subseteq reqs \cup {q}
    BY DEF GiveUp
  <2> QED BY <1>1, <2>1, <2>2 DEF Typed
<1>5. form' \in Form(U) /\ form'.token = form.token
  BY <1>1 DEF GiveUp, Typed, Form
<1>6. Typed(U)'
  BY <1>1, <1>2, <1>4, <1>5 DEF Typed
<1>7. Claims' \subseteq Claims
  BY <1>2, <1>4, <1>5 DEF Claims
<1>8. OneAmount'
  BY <1>1, <1>2, <1>7, ClaimTypes, NoNewClaim DEF BidInv, Typed
<1>9. AnswersStand' /\ AnnouncedBidStands'
  BY <1>2, <1>4 DEF BidInv, AnswersStand, AnnouncedBidStands, Stands
<1> QED BY <1>6, <1>8, <1>9 DEF BidInv

LEMMA AnswerKeepsBids ==
    ASSUME BidInv, NEW r \in reqs, Answer(r) PROVE BidInv'
<1>1. PICK W : Typed(W)
  BY DEF BidInv
<1>a. PICK U : W \subseteq U /\ FALSE \in U /\ 0 \in U
  <2> WITNESS W \cup {FALSE, 0}
  <2> QED OBVIOUS
<1>b. Typed(U)
  BY <1>1, <1>a, Grows
<1>2. UNCHANGED <<ofertas, drawn>> /\ reqs' = reqs \ {r}
  BY DEF Answer, server
<1>3. form' \in Form(U) /\ form'.token \in {form.token, [amount |-> 0, id |-> 0]}
  BY <1>a, <1>b DEF Answer, Typed, Form, NoToken
<1>4. Typed(U)'
  BY <1>b, <1>2, <1>3 DEF Typed
<1>5. Claims' \subseteq Claims
  BY <1>2, <1>3 DEF Claims
<1>6. OneAmount'
  BY <1>b, <1>2, <1>5, ClaimTypes, NoNewClaim DEF BidInv, Typed
<1>7. AnswersStand'
  BY <1>2 DEF BidInv, AnswersStand, Stands
<1>8. AnnouncedBidStands'
  <2>1. \A t \in told' : t \in told \/ (r.answer = "accepted" /\ t = <<r.lote, r.amount>>)
    BY DEF Answer
  <2>2. r.answer = "accepted" => Stands(r.lote, r.amount)
    BY DEF BidInv, AnswersStand
  <2>3. AnnouncedBidStands <=> \A t \in told : Stands(t[1], t[2])
    BY DEF AnnouncedBidStands, Stands
  <2>4. \A t \in told' : Stands(t[1], t[2])
    BY <2>1, <2>2, <2>3 DEF BidInv
  <2>5. AnnouncedBidStands' <=> \A t \in told' : Stands(t[1], t[2])
    BY <1>2 DEF AnnouncedBidStands, Stands
  <2> QED BY <2>4, <2>5
<1> QED BY <1>4, <1>6, <1>7, <1>8 DEF BidInv

LEMMA StepKeepsBids ==
    ASSUME BidInv, [Next]_vars PROVE BidInv'
<1>1. CASE ServerStep
  BY <1>1, ServerKeepsBids
<1>2. CASE GatewayStep
  BY <1>2, NothingSaid DEF GatewayStep, JoinRoom, RefuseJoin, BuildSnapshot, LoteForSnapshot, SendSnapshot,
     SnapshotFails, ExpireCache,
     server, bids
<1>3. CASE BusStep
  BY <1>3, NothingSaid DEF BusStep, Publish, LoseEvent, bids
<1>4. CASE SocketStep
  BY <1>4, NothingSaid DEF SocketStep, Connected, Drop, Reconnect, server, bids
<1>5. CASE PageStep
  BY <1>5, NothingSaid DEF PageStep, BuildPage, LoteForPage, ServePage, PageArrives, PageFails, Reload,
     ServeLotes, LotesArrive, server, bids
<1>6. CASE Deliver \/ Continue \/ Leave
  BY <1>6, NothingSaid DEF Deliver, Continue, Leave, server, bids
<1>7. CASE Render
  BY <1>7, RenderKeepsBids
<1>8. CASE BidStep
  BY <1>8, SubmitKeepsBids, TouchKeepsBids, ServeKeepsBids, GiveUpKeepsBids, AnswerKeepsBids
     DEF BidStep
<1>9. CASE UNCHANGED vars
  BY <1>9, NothingSaid DEF vars, server, bids
<1> QED BY <1>1, <1>2, <1>3, <1>4, <1>5, <1>6, <1>7, <1>8, <1>9 DEF Next, ScreenStep

\* A bid the page announced as accepted is a row the server accepted, of that lote
\* and amount: PlaceBidButton keeps its token while the amount is the same, and
\* place_bid answers a known token with its row.
THEOREM AnnouncementsStand == Spec => []AnnouncedBidStands
<1>1. Init => BidInv
  BY InitBid
<1>2. BidInv /\ [Next]_vars => BidInv'
  BY StepKeepsBids
<1>3. BidInv => AnnouncedBidStands
  BY DEF BidInv
<1> QED BY <1>1, <1>2, <1>3, PTL DEF Spec
==============================================================================
