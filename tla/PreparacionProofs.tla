--------------------------- MODULE PreparacionProofs ---------------------------
(***************************************************************************)
(* What is proved of Preparacion, for any tabs, slots and plans: a tab     *)
(* never competes with itself for its refresh token, rotation leaves no    *)
(* spare key, only overlapping writers leave two lotes with one            *)
(* display_order, what the page shows at rest is the catalogue, and no     *)
(* photo leaves a lote unless the user removed it.                         *)
(***************************************************************************)
EXTENDS Preparacion, SequenceTheorems, FiniteSetTheorems, TLAPS

(***************************************************************************)
(* The session.  A pair on its way to a tab -- the answer of an exchange   *)
(* or of a login -- is known to nobody yet, and no other answer brings it. *)
(***************************************************************************)
Known(p) == \/ storage = p
            \/ \E t \in Tabs : store[t] = p \/ p \in sent[t]
Brings(x) == x.phase = "answer"

SessionTypeOK ==
    /\ issued \in Nat /\ live \subseteq 1..issued /\ aged \subseteq 1..issued /\ byes \subseteq 1..issued
    /\ store \in [Tabs -> 0..issued] /\ storage \in 0..issued
    /\ sent \in [Tabs -> SUBSET (1..issued)]
    /\ exchanges \subseteq Exchange
    /\ login \in [Tabs -> [phase : {"none", "asked", "answer"}, got : 0..issued]]

NewPairs ==
    /\ \A x \in exchanges : Brings(x) => x.got # 0 /\ ~Known(x.got)
    /\ \A t \in Tabs : Brings(login[t]) => login[t].got # 0 /\ ~Known(login[t].got)
    /\ \A x, y \in exchanges : Brings(x) /\ Brings(y) /\ x.got = y.got => x = y
    /\ \A t, u \in Tabs : Brings(login[t]) /\ Brings(login[u]) /\ login[t].got = login[u].got => t = u
    /\ \A x \in exchanges, t \in Tabs : Brings(x) /\ Brings(login[t]) => x.got # login[t].got

\* A pair that was sent to be exchanged stays in the store only while the exchange lasts.
SentOnce ==
    /\ \A t \in Tabs : store[t] # 0 /\ store[t] \in sent[t] => Exchanging(t)
    /\ \A x \in exchanges : ~x.again

SessionInv == SessionTypeOK /\ NewPairs /\ SentOnce
------------------------------------------------------------------------------
LEMMA SessionStarts == ASSUME Init PROVE SessionInv
<1> USE DEF Init, SessionInit, SessionInv
<1>1. SessionTypeOK BY DEF SessionTypeOK, NoLogin
<1>2. NewPairs BY DEF NewPairs, NoLogin, Brings
<1>3. SentOnce BY DEF SentOnce
<1> QED BY <1>1, <1>2, <1>3

\* Steps that issue nothing and tell no tab of a pair it did not have.
LEMMA NothingNew ==
    ASSUME SessionInv, UNCHANGED <<issued, exchanges, sent>>,
           live' \subseteq live, aged' \subseteq 1..issued, byes' \subseteq 1..issued,
           store' \in [Tabs -> 0..issued], \A t \in Tabs : store'[t] \in {store[t], 0},
           storage' \in 0..issued, storage' \in {storage, 0} \cup {store[t] : t \in Tabs},
           login' \in [Tabs -> [phase : {"none", "asked", "answer"}, got : 0..issued]],
           \A t \in Tabs : Brings(login'[t]) => login'[t] = login[t]
    PROVE  SessionInv'
<1> USE DEF SessionInv
<1>1. SessionTypeOK' BY DEF SessionTypeOK, Exchange
<1>2. \A p \in Nat : p # 0 /\ Known(p)' => Known(p) BY DEF Known, SessionTypeOK
<1>3. NewPairs'
  <2>1. \A x \in exchanges : x.got \in Nat BY DEF SessionTypeOK, Exchange
  <2>2. \A t \in Tabs : login[t].got \in Nat BY DEF SessionTypeOK
  <2> QED BY <1>2, <2>1, <2>2 DEF NewPairs
<1>4. SentOnce' BY DEF SentOnce, Exchanging
<1> QED BY <1>1, <1>3, <1>4

LEMMA NothingNewSteps ==
    ASSUME SessionInv, NEW t \in Tabs,
           \/ Ask(t) \/ Logout(t) \/ AskLogin(t) \/ LoseLogin(t)
           \/ \E s \in Slots : TurnAway(t, s) \/ ServeRead(t, s) \/ ReadArrives(t, s) \/ GivesUp(t, s) \/ LoseCall(t, s)
    PROVE  SessionInv'
<1>0. SessionTypeOK BY DEF SessionInv
<1>1. CASE Ask(t) \/ \E s \in Slots : TurnAway(t, s) \/ ServeRead(t, s) \/ LoseCall(t, s)
  <2>1. UNCHANGED sessionVars BY <1>1 DEF Ask, TurnAway, ServeRead, LoseCall
  <2> QED BY <2>1, <1>0, NothingNew DEF SessionTypeOK, sessionVars
<1>3. CASE \E s \in Slots : ReadArrives(t, s) \/ GivesUp(t, s)
  <2>1. /\ UNCHANGED <<issued, live, aged, store, exchanges, byes, login, sent>>
        /\ storage' \in {storage, 0, store[t]}
    BY <1>3 DEF ReadArrives, GivesUp
  <2> QED BY <1>0, <2>1, NothingNew DEF SessionTypeOK
<1>4. CASE Logout(t)
  <2>1. /\ UNCHANGED <<issued, live, aged, exchanges, login, sent>> /\ storage' = 0
        /\ store' = [store EXCEPT ![t] = 0] /\ byes' = byes \cup {store[t]} /\ store[t] # 0
    BY <1>4 DEF Logout, Holds
  <2>2. store[t] \in 1..issued /\ 0 \in 0..issued BY <1>0, <2>1 DEF SessionTypeOK
  <2>3. store' \in [Tabs -> 0..issued] /\ \A u \in Tabs : store'[u] \in {store[u], 0}
    BY <1>0, <2>1, <2>2 DEF SessionTypeOK
  <2>4. byes' \subseteq 1..issued /\ storage' \in 0..issued BY <1>0, <2>1, <2>2 DEF SessionTypeOK
  <2>5. live' \subseteq live /\ aged' \subseteq 1..issued /\ storage' \in {storage, 0} \cup {store[u] : u \in Tabs}
        /\ login' \in [Tabs -> [phase : {"none", "asked", "answer"}, got : 0..issued]]
    BY <1>0, <2>1 DEF SessionTypeOK
  <2> QED BY <2>1, <2>3, <2>4, <2>5, NothingNew
<1>5. CASE AskLogin(t) \/ LoseLogin(t)
  <2>1. /\ UNCHANGED <<issued, live, aged, store, storage, exchanges, byes, sent>>
        /\ login' = [login EXCEPT ![t].phase = "asked"] \/ login' = [login EXCEPT ![t] = NoLogin]
    BY <1>5 DEF AskLogin, LoseLogin
  <2>2. login' \in [Tabs -> [phase : {"none", "asked", "answer"}, got : 0..issued]]
    BY <1>0, <2>1 DEF SessionTypeOK, NoLogin
  <2>3. \A u \in Tabs : Brings(login'[u]) => login'[u] = login[u]
    BY <1>0, <2>1 DEF SessionTypeOK, NoLogin, Brings
  <2> QED BY <1>0, <2>1, <2>2, <2>3, NothingNew DEF SessionTypeOK
<1> QED BY <1>1, <1>3, <1>4, <1>5

LEMMA OldPairSteps ==
    ASSUME SessionInv, NEW p \in 1..issued, Age(p) \/ ServeLogout(p) \/ LoseLogout(p)
    PROVE  SessionInv'
<1>1. UNCHANGED <<issued, store, storage, exchanges, login, sent>> BY DEF Age, ServeLogout, LoseLogout
<1>2. live' \subseteq live /\ aged' \subseteq aged \cup {p} /\ byes' \subseteq byes BY DEF Age, ServeLogout, LoseLogout
<1> QED BY <1>1, <1>2, NothingNew DEF SessionInv, SessionTypeOK

\* An exchange goes on towards anything but an answer.
LEMMA ExchangeGoesOn ==
    ASSUME SessionInv, NEW x \in exchanges, NEW y \in Exchange,
           exchanges' = (exchanges \ {x}) \cup {y}, y.by = x.by, y.again = x.again, ~Brings(y),
           UNCHANGED <<issued, aged, store, storage, byes, login, sent>>, live' \subseteq live
    PROVE  SessionInv'
<1> USE DEF SessionInv
<1>1. SessionTypeOK' BY DEF SessionTypeOK, Exchange
<1>2. \A p : Known(p)' => Known(p) BY DEF Known
<1>3. NewPairs' BY <1>2 DEF NewPairs
<1>4. SentOnce' BY DEF SentOnce, Exchanging
<1> QED BY <1>1, <1>3, <1>4

LEMMA ExchangeSteps ==
    ASSUME SessionInv, NEW x \in exchanges, Present(x) \/ Revoke(x) \/ LoseExchange(x)
    PROVE  SessionInv'
<1>0. x \in Exchange BY DEF SessionInv, SessionTypeOK
<1>1. PICK ph \in {"refused", "read", "spent", "lost"} : exchanges' = (exchanges \ {x}) \cup {[x EXCEPT !.phase = ph]}
  BY DEF Present, Revoke, LoseExchange, Becomes
<1> DEFINE y == [x EXCEPT !.phase = ph]
<1>2. y \in Exchange /\ y.by = x.by /\ y.again = x.again /\ ~Brings(y) BY <1>0 DEF Exchange, Brings
<1>3. UNCHANGED <<issued, aged, store, storage, byes, login, sent>> /\ live' \subseteq live
  BY DEF Present, Revoke, LoseExchange
<1>4. exchanges' = (exchanges \ {x}) \cup {y} BY <1>1
<1> HIDE DEF y
<1> QED BY <1>2, <1>3, <1>4, ExchangeGoesOn

\* The new pair of an exchange is one nobody has heard of.
LEMMA IssueTokensKeeps ==
    ASSUME SessionInv, NEW x \in exchanges, IssueTokens(x)
    PROVE  SessionInv'
<1> USE DEF SessionInv
<1>0. x \in Exchange /\ issued \in Nat BY DEF SessionTypeOK
<1> DEFINE y == [x EXCEPT !.phase = "answer", !.got = issued + 1]
<1>1. /\ y.by = x.by /\ y.again = x.again /\ y.got = issued + 1 /\ Brings(y)
      /\ y \in [by : Tabs \cup {Nobody}, slot : Slots, pair : 1..issued', got : 0..issued', again : BOOLEAN,
                phase : {"asked", "read", "spent", "answer", "refused", "lost"}]
  <2>1. issued' = issued + 1 BY DEF IssueTokens
  <2>2. /\ x.by \in Tabs \cup {Nobody} /\ x.slot \in Slots /\ x.again \in BOOLEAN
        /\ x.pair \in 1..issued' /\ issued + 1 \in 0..issued'
    BY <1>0, <2>1 DEF Exchange
  <2>3. y = [by |-> x.by, slot |-> x.slot, pair |-> x.pair, got |-> issued + 1, again |-> x.again,
             phase |-> "answer"]
    <3> DEFINE z == [by |-> x.by, slot |-> x.slot, pair |-> x.pair, got |-> x.got, again |-> x.again,
                     phase |-> "answer"]
    <3>1. [x EXCEPT !.phase = "answer"] = z BY <1>0 DEF Exchange
    <3>2. y = [[x EXCEPT !.phase = "answer"] EXCEPT !.got = issued + 1] OBVIOUS
    <3>3. y = [z EXCEPT !.got = issued + 1] BY <3>1, <3>2 
    <3> QED BY <3>3
  <2> HIDE DEF y
  <2> QED BY <2>2, <2>3 DEF Brings
<1>2. /\ exchanges' = (exchanges \ {x}) \cup {y} /\ issued' = issued + 1 /\ live' = live \cup {issued + 1}
      /\ UNCHANGED <<aged, store, storage, byes, login, sent>>
  BY DEF IssueTokens, Becomes
<1> HIDE DEF y
<1>3. SessionTypeOK'
  <2>1. 0..issued \subseteq 0..issued' /\ 1..issued \subseteq 1..issued' BY <1>0, <1>2
  <2>2. exchanges' \subseteq Exchange' BY <2>1, <1>1, <1>2 DEF SessionTypeOK, Exchange
  <2>3. store' \in [Tabs -> 0..issued'] /\ sent' \in [Tabs -> SUBSET (1..issued')]
        /\ login' \in [Tabs -> [phase : {"none", "asked", "answer"}, got : 0..issued']]
    BY <2>1, <1>2 DEF SessionTypeOK
  <2> QED BY <2>1, <2>2, <2>3, <1>0, <1>2 DEF SessionTypeOK
<1>4. ~Known(issued + 1) BY <1>0 DEF Known, SessionTypeOK
<1>5. /\ \A z \in exchanges : z.got # issued + 1
      /\ \A t \in Tabs : login[t].got # issued + 1
  BY <1>0 DEF SessionTypeOK, Exchange
<1>6. \A p : Known(p)' = Known(p) BY <1>2 DEF Known
<1>7. NewPairs' BY <1>0, <1>1, <1>2, <1>4, <1>5, <1>6 DEF NewPairs
<1>8. SentOnce' BY <1>1, <1>2 DEF SentOnce, Exchanging
<1> QED BY <1>3, <1>7, <1>8

LEMMA ServeLoginKeeps ==
    ASSUME SessionInv, NEW t \in Tabs, ServeLogin(t)
    PROVE  SessionInv'
<1> USE DEF SessionInv
<1> DEFINE reply == [phase |-> "answer", got |-> issued + 1]
<1>0. issued \in Nat BY DEF SessionTypeOK
<1>1. /\ login' = [login EXCEPT ![t] = reply] /\ issued' = issued + 1 /\ live' = live \cup {issued + 1}
      /\ UNCHANGED <<aged, store, storage, exchanges, byes, sent>>
  BY DEF ServeLogin
<1>2. 0..issued \subseteq 0..issued' /\ 1..issued \subseteq 1..issued' /\ issued' \in 1..issued' BY <1>0, <1>1
<1>3. SessionTypeOK'
  <2>1. exchanges' \subseteq Exchange' BY <1>1, <1>2 DEF SessionTypeOK, Exchange
  <2>2. /\ store' \in [Tabs -> 0..issued'] /\ sent' \in [Tabs -> SUBSET (1..issued')]
        /\ reply \in [phase : {"none", "asked", "answer"}, got : 0..issued']
        /\ login \in [Tabs -> [phase : {"none", "asked", "answer"}, got : 0..issued']]
    BY <1>1, <1>2 DEF SessionTypeOK
  <2>3. login' \in [Tabs -> [phase : {"none", "asked", "answer"}, got : 0..issued']] BY <1>1, <2>2
  <2> QED BY <1>0, <1>1, <1>2, <2>1, <2>2, <2>3 DEF SessionTypeOK
<1>4. ~Known(issued + 1) BY <1>0 DEF Known, SessionTypeOK
<1>5. /\ \A x \in exchanges : x.got # issued + 1
      /\ \A u \in Tabs : login[u].got # issued + 1
  BY <1>0 DEF SessionTypeOK, Exchange
<1>6. \A p : Known(p)' = Known(p) BY <1>1 DEF Known
<1>7. \A u \in Tabs : login'[u] = IF u = t THEN reply ELSE login[u] BY <1>1 DEF SessionTypeOK
<1>8. reply.got = issued + 1 OBVIOUS
<1> HIDE DEF reply
<1>9. NewPairs' BY <1>0, <1>1, <1>4, <1>5, <1>6, <1>7, <1>8 DEF NewPairs
<1>10. SentOnce' BY <1>1 DEF SentOnce, Exchanging
<1> QED BY <1>3, <1>9, <1>10

\* A tab keeps a new pair, which arrived with an exchange or a login.
LEMMA PairArrives ==
    ASSUME SessionInv, NEW t \in Tabs, NEW p \in 1..issued, ~Known(p),
           exchanges' \subseteq exchanges, \A x \in exchanges' : Brings(x) => x.got # p,
           \A x \in exchanges \ exchanges' : x.by = t,
           login' \in [Tabs -> [phase : {"none", "asked", "answer"}, got : 0..issued]],
           \A u \in Tabs : Brings(login'[u]) => login'[u] = login[u] /\ login[u].got # p,
           Holds(t, p), UNCHANGED <<issued, live, aged, byes, sent>>
    PROVE  SessionInv'
<1> USE DEF SessionInv
<1>0. store' = [store EXCEPT ![t] = p] /\ storage' = p BY DEF Holds
<1>1. SessionTypeOK' BY <1>0 DEF SessionTypeOK, Exchange
<1>2. \A q : Known(q)' => Known(q) \/ q = p BY <1>0 DEF Known, SessionTypeOK
<1>3. NewPairs' BY <1>2 DEF NewPairs
<1>4. SentOnce'
  <2>1. p \notin sent[t] BY DEF Known
  <2>2. \A u \in Tabs : u # t => store'[u] = store[u] /\ (Exchanging(u) => Exchanging(u)')
    BY <1>0 DEF SessionTypeOK, Exchanging
  <2>3. store'[t] = p BY <1>0 DEF SessionTypeOK
  <2> QED BY <2>1, <2>2, <2>3 DEF SentOnce
<1> QED BY <1>1, <1>3, <1>4

LEMMA RefreshedKeeps ==
    ASSUME SessionInv, NEW x \in exchanges, Refreshed(x)
    PROVE  SessionInv'
<1>0. SessionTypeOK /\ NewPairs BY DEF SessionInv
<1>1. /\ x.by # Nobody /\ Brings(x) /\ exchanges' = exchanges \ {x} /\ Holds(x.by, x.got)
      /\ UNCHANGED <<issued, live, aged, byes, login, sent>>
  BY DEF Refreshed, Brings
<1>2. x.by \in Tabs /\ x.got \in 1..issued /\ ~Known(x.got) BY <1>0, <1>1 DEF SessionTypeOK, NewPairs, Exchange
<1>3. /\ \A z \in exchanges' : Brings(z) => z.got # x.got
      /\ \A u \in Tabs : Brings(login'[u]) => login'[u] = login[u] /\ login[u].got # x.got
  BY <1>0, <1>1 DEF NewPairs
<1>4. login' \in [Tabs -> [phase : {"none", "asked", "answer"}, got : 0..issued]]
  BY <1>0, <1>1 DEF SessionTypeOK
<1>5. exchanges' \subseteq exchanges /\ \A z \in exchanges \ exchanges' : z.by = x.by BY <1>1
<1> QED BY <1>1, <1>2, <1>3, <1>4, <1>5, PairArrives

LEMMA LoginArrivesKeeps ==
    ASSUME SessionInv, NEW t \in Tabs, LoginArrives(t)
    PROVE  SessionInv'
<1>0. SessionTypeOK /\ NewPairs BY DEF SessionInv
<1>1. /\ Brings(login[t]) /\ login' = [login EXCEPT ![t] = NoLogin] /\ Holds(t, login[t].got)
      /\ UNCHANGED <<issued, live, aged, exchanges, byes, sent>>
  BY DEF LoginArrives, Brings
<1>2. login[t].got \in 1..issued /\ ~Known(login[t].got) BY <1>0, <1>1 DEF SessionTypeOK, NewPairs
<1>3. NoLogin \in [phase : {"none", "asked", "answer"}, got : 0..issued] /\ ~Brings(NoLogin)
  BY <1>0 DEF NoLogin, Brings, SessionTypeOK
<1>4. \A u \in Tabs : login'[u] = IF u = t THEN NoLogin ELSE login[u] BY <1>0, <1>1 DEF SessionTypeOK
<1>5. login' \in [Tabs -> [phase : {"none", "asked", "answer"}, got : 0..issued]]
  BY <1>0, <1>1, <1>3 DEF SessionTypeOK
<1>6. \A u \in Tabs : Brings(login'[u]) => login'[u] = login[u] /\ login[u].got # login[t].got
  BY <1>0, <1>1, <1>3, <1>4 DEF NewPairs
<1>7. \A x \in exchanges' : Brings(x) => x.got # login[t].got BY <1>0, <1>1 DEF NewPairs
<1>8. exchanges' \subseteq exchanges /\ exchanges \ exchanges' = {} BY <1>1
<1> QED BY <1>1, <1>2, <1>5, <1>6, <1>7, <1>8, PairArrives

\* The tab logs out before the exchange is over for the requests that wait.
LEMMA ExchangeEnds ==
    ASSUME SessionInv, NEW x \in exchanges, RefreshFailed(x) \/ Unread(x)
    PROVE  SessionInv'
<1> USE DEF SessionInv
<1>0. SessionTypeOK /\ NewPairs /\ SentOnce OBVIOUS
<1>1. CASE RefreshFailed(x)
  <2>1. /\ x.by # Nobody /\ exchanges' = exchanges \ {x} /\ store' = [store EXCEPT ![x.by] = 0] /\ storage' = 0
        /\ byes' = byes \cup ({store[x.by]} \ {0}) /\ UNCHANGED <<issued, live, aged, login, sent>>
    BY <1>1 DEF RefreshFailed, Holds
  <2>2. x.by \in Tabs /\ store[x.by] \in 0..issued BY <1>0, <2>1 DEF SessionTypeOK, Exchange
  <2>3. SessionTypeOK'
    <3>1. 0 \in 0..issued /\ {store[x.by]} \ {0} \subseteq 1..issued BY <1>0, <2>2 DEF SessionTypeOK
    <3>2. store' \in [Tabs -> 0..issued] BY <1>0, <2>1, <3>1 DEF SessionTypeOK
    <3>3. byes' \subseteq 1..issued /\ storage' \in 0..issued BY <1>0, <2>1, <3>1 DEF SessionTypeOK
    <3> QED BY <1>0, <2>1, <3>2, <3>3 DEF SessionTypeOK, Exchange
  <2>4. \A p : p # 0 /\ Known(p)' => Known(p) BY <1>0, <2>1, <2>2 DEF Known, SessionTypeOK
  <2>5. NewPairs' BY <1>0, <2>1, <2>4 DEF NewPairs
  <2>6. SentOnce' BY <1>0, <2>1, <2>2 DEF SentOnce, SessionTypeOK, Exchanging
  <2> QED BY <2>3, <2>5, <2>6
<1>2. CASE Unread(x)
  <2>1. /\ x.by = Nobody /\ exchanges' = exchanges \ {x}
        /\ UNCHANGED <<issued, live, aged, store, storage, byes, login, sent>>
    BY <1>2 DEF Unread
  <2>2. SessionTypeOK' BY <1>0, <2>1 DEF SessionTypeOK, Exchange
  <2>3. \A p : Known(p)' = Known(p) BY <2>1 DEF Known
  <2>4. NewPairs' BY <1>0, <2>1, <2>3 DEF NewPairs
  <2>5. SentOnce' BY <1>0, <2>1, PageAssumption DEF SentOnce, Exchanging
  <2> QED BY <2>2, <2>4, <2>5
<1> QED BY <1>1, <1>2

\* The single flight: a tab starts an exchange only if it has none, and then its pair was
\* not sent before.
LEMMA UnauthorizedKeeps ==
    ASSUME SessionInv, NEW t \in Tabs, NEW s \in Slots, Unauthorized(t, s)
    PROVE  SessionInv'
<1>0. SessionTypeOK /\ NewPairs /\ SentOnce BY DEF SessionInv
<1>1. UNCHANGED <<issued, live, aged, store, storage, byes, login>> BY DEF Unauthorized
<1>2. CASE Exchanging(t)
  <2>1. exchanges' = exchanges /\ sent' = sent BY <1>2 DEF Unauthorized
  <2> QED BY <1>0, <1>1, <2>1, NothingNew DEF SessionTypeOK
<1>3. CASE ~Exchanging(t)
  <2> DEFINE x == [by |-> t, slot |-> s, pair |-> store[t], phase |-> "asked", got |-> 0,
                   again |-> store[t] \in sent[t]]
  <2>1. exchanges' = exchanges \cup {x} /\ sent' = [sent EXCEPT ![t] = sent[t] \cup {store[t]}] /\ store[t] # 0
    BY <1>3 DEF Unauthorized
  <2>2. store[t] \in 1..issued /\ store[t] \notin sent[t] /\ issued \in Nat
    BY <1>0, <1>3, <2>1 DEF SessionTypeOK, SentOnce
  <2>3. x \in Exchange /\ x.by = t /\ ~x.again /\ ~Brings(x)
    <3>1. (store[t] \in sent[t]) = FALSE BY <2>2
    <3>2. x = [by |-> t, slot |-> s, pair |-> store[t], phase |-> "asked", got |-> 0, again |-> FALSE]
      BY <3>1
    <3> HIDE DEF x
    <3> QED BY <2>2, <3>2 DEF Exchange, Brings
  <2> HIDE DEF x
  <2>4. SessionTypeOK' BY <1>0, <1>1, <2>1, <2>2, <2>3 DEF SessionTypeOK, Exchange
  <2>5. \A p : Known(p)' = Known(p) BY <1>0, <1>1, <2>1 DEF Known, SessionTypeOK
  <2>6. NewPairs' BY <1>0, <1>1, <2>1, <2>3, <2>5 DEF NewPairs
  <2>7. SentOnce' BY <1>0, <1>1, <2>1, <2>3 DEF SentOnce, SessionTypeOK, Exchanging
  <2> QED BY <2>4, <2>6, <2>7 DEF SessionInv
<1> QED BY <1>2, <1>3

LEMMA ReloadKeeps ==
    ASSUME SessionInv, NEW t \in Tabs, Reload(t)
    PROVE  SessionInv'
<1>0. SessionTypeOK /\ NewPairs /\ SentOnce BY DEF SessionInv
<1> DEFINE Orphan(x) == IF x.by = t THEN [x EXCEPT !.by = Nobody] ELSE x
<1>1. /\ exchanges' = {Orphan(x) : x \in exchanges} /\ store' = [store EXCEPT ![t] = storage]
      /\ sent' = [sent EXCEPT ![t] = {}] /\ UNCHANGED <<issued, live, aged, storage, byes, login>>
  BY DEF Reload
<1>2. \A x \in exchanges : /\ Orphan(x) \in Exchange /\ Orphan(x).got = x.got /\ Orphan(x).again = x.again
                           /\ Brings(Orphan(x)) = Brings(x) /\ (x.by # t => Orphan(x) = x)
  BY <1>0 DEF SessionTypeOK, Exchange, Brings
<1> HIDE DEF Orphan
<1>3. SessionTypeOK' BY <1>0, <1>1, <1>2 DEF SessionTypeOK, Exchange
<1>4. \A p : Known(p)' => Known(p) BY <1>0, <1>1 DEF Known, SessionTypeOK
<1>5. NewPairs' BY <1>0, <1>1, <1>2, <1>4 DEF NewPairs
<1>6. SentOnce'
  <2>1. \A u \in Tabs : u # t => (Exchanging(u) => Exchanging(u)') BY <1>1, <1>2 DEF Exchanging
  <2>2. \A u \in Tabs : store'[u] # 0 /\ store'[u] \in sent'[u] => u # t /\ store[u] # 0 /\ store[u] \in sent[u]
    BY <1>0, <1>1 DEF SessionTypeOK
  <2> QED BY <1>0, <1>1, <1>2, <2>1, <2>2 DEF SentOnce
<1> QED BY <1>3, <1>5, <1>6 DEF SessionInv

LEMMA SessionStep ==
    ASSUME SessionInv, [Next]_vars
    PROVE  SessionInv'
<1>0. SessionTypeOK BY DEF SessionInv
<1>1. CASE UNCHANGED sessionVars BY <1>0, <1>1, NothingNew DEF SessionTypeOK, sessionVars
<1>2. CASE SessionProgress
  <2>1. CASE \E t \in Tabs, s \in Slots :
                TurnAway(t, s) \/ ServeRead(t, s) \/ ReadArrives(t, s) \/ GivesUp(t, s)
    BY <2>1, NothingNewSteps
  <2>2. CASE \E t \in Tabs, s \in Slots : Unauthorized(t, s) BY <2>2, UnauthorizedKeeps
  <2>3. CASE \E x \in exchanges : Refreshed(x) BY <2>3, RefreshedKeeps
  <2>4. CASE \E x \in exchanges : RefreshFailed(x) \/ Unread(x) BY <2>4, ExchangeEnds
  <2>5. CASE \E x \in exchanges : Present(x) \/ Revoke(x) BY <2>5, ExchangeSteps
  <2>6. CASE \E x \in exchanges : IssueTokens(x) BY <2>6, IssueTokensKeeps
  <2>7. CASE \E p \in byes : ServeLogout(p) BY <1>0, <2>7, OldPairSteps DEF SessionTypeOK
  <2>8. CASE \E t \in Tabs : ServeLogin(t) BY <2>8, ServeLoginKeeps
  <2>9. CASE \E t \in Tabs : LoginArrives(t) BY <2>9, LoginArrivesKeeps
  <2> QED BY <1>2, <2>1, <2>2, <2>3, <2>4, <2>5, <2>6, <2>7, <2>8, <2>9 DEF SessionProgress
<1>3. CASE SessionMoves
  <2>1. CASE \E t \in Tabs : Ask(t) \/ Logout(t) \/ AskLogin(t) \/ LoseLogin(t) BY <2>1, NothingNewSteps
  <2>2. CASE \E t \in Tabs, s \in Slots : LoseCall(t, s) BY <2>2, NothingNewSteps
  <2>3. CASE \E p \in 1..issued : Age(p) BY <2>3, OldPairSteps
  <2>4. CASE \E x \in exchanges : LoseExchange(x) BY <2>4, ExchangeSteps
  <2>5. CASE \E p \in byes : LoseLogout(p) BY <1>0, <2>5, OldPairSteps DEF SessionTypeOK
  <2> QED BY <1>3, <2>1, <2>2, <2>3, <2>4, <2>5 DEF SessionMoves
<1>4. CASE \E t \in Tabs : Reload(t) BY <1>4, ReloadKeeps
<1>5. UNCHANGED sessionVars \/ SessionProgress \/ SessionMoves \/ \E t \in Tabs : Reload(t)
  BY DEF Next, Progress, Moves, vars
<1> QED BY <1>1, <1>2, <1>3, <1>4, <1>5

\* A tab never competes with itself for its refresh token: the shared refreshPromise of the
\* interceptor is enough, in any number of tabs and requests.
THEOREM SingleFlight == Spec => []NeverCompetesWithItself
<1>1. SessionInv => NeverCompetesWithItself BY DEF SessionInv, SentOnce, NeverCompetesWithItself
<1> QED BY <1>1, SessionStarts, SessionStep, PTL DEF Spec
------------------------------------------------------------------------------
(***************************************************************************)
(* The rotation.  While nothing met an exchange in flight, every refresh   *)
(* token the server accepts is in one hand: the store of a tab that has    *)
(* not spent it, an answer on its way, or a logout on its way.             *)
(***************************************************************************)
Renewed(t) == \E x \in exchanges : x.by = t /\ x.phase \in {"spent", "answer"}
Accounted(p) ==
    \/ p \in byes
    \/ \E t \in Tabs : p = store[t] /\ p # 0 /\ ~Renewed(t)
    \/ \E x \in exchanges : Brings(x) /\ x.got = p
    \/ \E t \in Tabs : Brings(login[t]) /\ login[t].got = p

\* An exchange is of a tab that goes on waiting with the pair it sent, one of a tab; who
\* logs in has no pair; and no two tabs, nor a tab and a logout, have the same.
OneOfATab ==
    /\ \A x \in exchanges : /\ x.by \in Tabs /\ x.pair = store[x.by]
                            /\ x.phase \in {"asked", "read", "spent", "answer"}
    /\ \A x, y \in exchanges : x.by = y.by => x = y
    /\ \A t \in Tabs : login[t] # NoLogin => store[t] = 0
PairsApart ==
    /\ \A t, u \in Tabs : store[t] = store[u] /\ store[t] # 0 => t = u
    /\ \A p \in byes : /\ \A t \in Tabs : store[t] # p /\ ~(Brings(login[t]) /\ login[t].got = p)
                       /\ \A x \in exchanges : ~(Brings(x) /\ x.got = p)
LiveIsAccounted == \A p \in 0..issued : p \in live <=> Accounted(p)
Rotation == OneOfATab /\ PairsApart /\ LiveIsAccounted
------------------------------------------------------------------------------
LEMMA RotationStarts == ASSUME Init, ~mixed PROVE Rotation
<1> USE DEF Init, SessionInit
<1>1. /\ left.tabs \subseteq Tabs /\ left.tabs # {} /\ IsFiniteSet(left.tabs)
      /\ ~(Cardinality(left.tabs) > 1)
  BY PlansAssumption
<1>2. PICK t \in left.tabs : TRUE BY <1>1
<1>3. left.tabs = {t}
  <2>1. /\ IsFiniteSet(left.tabs \ {t}) /\ Cardinality(left.tabs \ {t}) = Cardinality(left.tabs) - 1
        /\ Cardinality(left.tabs) \in Nat
    BY <1>1, <1>2, FS_RemoveElement, FS_CardinalityType
  <2>2. Cardinality(left.tabs \ {t}) \in Nat BY <2>1, FS_CardinalityType
  <2>3. Cardinality(left.tabs \ {t}) = 0 BY <1>1, <2>1, <2>2
  <2>4. left.tabs \ {t} = {} BY <2>1, <2>3, FS_EmptySet
  <2> QED BY <1>2, <2>4
<1>4. t \in Tabs /\ \A u \in Tabs : store[u] = IF u = t THEN 1 ELSE 0 BY <1>1, <1>2, <1>3
<1>5. OneOfATab /\ PairsApart BY <1>4 DEF OneOfATab, PairsApart
<1>6. LiveIsAccounted BY <1>4 DEF LiveIsAccounted, Accounted, Renewed, Brings, NoLogin
<1> QED BY <1>5, <1>6 DEF Rotation

LEMMA RotationRests ==
    ASSUME Rotation, UNCHANGED <<issued, live, store, exchanges, byes, login>>
    PROVE  Rotation'
BY DEF Rotation, OneOfATab, PairsApart, LiveIsAccounted, Accounted, Renewed, Brings

LEMMA UnauthorizedRotates ==
    ASSUME SessionInv, Rotation, NEW t \in Tabs, NEW s \in Slots, Unauthorized(t, s)
    PROVE  Rotation'
<1>1. UNCHANGED <<issued, live, store, byes, login>> BY DEF Unauthorized
<1>2. CASE Exchanging(t)
  <2>1. exchanges' = exchanges BY <1>2 DEF Unauthorized
  <2> QED BY <1>1, <2>1, RotationRests
<1>3. CASE ~Exchanging(t)
  <2> DEFINE x == [by |-> t, slot |-> s, pair |-> store[t], phase |-> "asked", got |-> 0,
                   again |-> store[t] \in sent[t]]
  <2>1. exchanges' = exchanges \cup {x} BY <1>3 DEF Unauthorized
  <2>2. x.by = t /\ x.pair = store[t] /\ x.phase = "asked" OBVIOUS
  <2> HIDE DEF x
  <2>3. OneOfATab' BY <1>1, <1>3, <2>1, <2>2 DEF Rotation, OneOfATab, Exchanging
  <2>4. PairsApart' BY <1>1, <2>1, <2>2 DEF Rotation, PairsApart, Brings
  <2>5. \A u : Renewed(u)' = Renewed(u) BY <2>1, <2>2 DEF Renewed
  <2>6. LiveIsAccounted' BY <1>1, <2>1, <2>2, <2>5 DEF Rotation, LiveIsAccounted, Accounted, Brings
  <2> QED BY <2>3, <2>4, <2>6 DEF Rotation
<1> QED BY <1>2, <1>3

\* The pair of a tab is accepted until its exchange revokes it: none is refused.
LEMMA PresentRotates ==
    ASSUME SessionInv, Rotation, NEW x \in exchanges, Present(x)
    PROVE  Rotation'
<1>0. x \in Exchange /\ exchanges \subseteq Exchange BY DEF SessionInv, SessionTypeOK
<1>1. UNCHANGED <<issued, live, store, byes, login>> /\ x.phase = "asked" BY DEF Present
<1>2. x.pair \in live
  <2>1. x.pair \in 0..issued /\ x.pair # 0 /\ x.by \in Tabs /\ x.pair = store[x.by]
    BY <1>0 DEF Rotation, OneOfATab, Exchange, SessionInv, SessionTypeOK
  <2>2. ~Renewed(x.by) BY <1>1 DEF Renewed, Rotation, OneOfATab
  <2> QED BY <2>1, <2>2 DEF Rotation, LiveIsAccounted, Accounted
<1> DEFINE y == [x EXCEPT !.phase = "read"]
<1>3. exchanges' = (exchanges \ {x}) \cup {y} BY <1>2 DEF Present, Becomes
<1>4. y.by = x.by /\ y.pair = x.pair /\ y.phase = "read" BY <1>0 DEF Exchange
<1> HIDE DEF y
<1>5. OneOfATab' BY <1>1, <1>3, <1>4 DEF Rotation, OneOfATab
<1>6. PairsApart' BY <1>1, <1>3, <1>4 DEF Rotation, PairsApart, Brings
<1>7. \A u : Renewed(u)' = Renewed(u) BY <1>1, <1>3, <1>4 DEF Renewed
<1>8. LiveIsAccounted' BY <1>1, <1>3, <1>4, <1>7 DEF Rotation, LiveIsAccounted, Accounted, Brings
<1> QED BY <1>5, <1>6, <1>8 DEF Rotation

LEMMA RevokeRotates ==
    ASSUME SessionInv, Rotation, NEW x \in exchanges, Revoke(x)
    PROVE  Rotation'
<1>0. x \in Exchange BY DEF SessionInv, SessionTypeOK
<1>1. UNCHANGED <<issued, store, byes, login>> /\ live' = live \ {x.pair} /\ x.phase = "read" BY DEF Revoke
<1> DEFINE y == [x EXCEPT !.phase = "spent"]
<1>3. exchanges' = (exchanges \ {x}) \cup {y} BY DEF Revoke, Becomes
<1>4. y.by = x.by /\ y.pair = x.pair /\ y.phase = "spent" BY <1>0 DEF Exchange
<1> HIDE DEF y
<1>5. OneOfATab' BY <1>1, <1>3, <1>4 DEF Rotation, OneOfATab
<1>6. PairsApart' BY <1>1, <1>3, <1>4 DEF Rotation, PairsApart, Brings
<1>7. \A u : Renewed(u)' <=> Renewed(u) \/ u = x.by BY <1>1, <1>3, <1>4 DEF Renewed
<1>8. x.by \in Tabs /\ x.pair = store[x.by] /\ x.pair # 0 BY <1>0 DEF Rotation, OneOfATab, Exchange
<1>9. LiveIsAccounted'
  <2> SUFFICES ASSUME NEW p \in 0..issued PROVE p \in live' <=> Accounted(p)'
    BY <1>1 DEF LiveIsAccounted
  <2>1. CASE p = x.pair
    <3>1. p \notin live' BY <1>1, <2>1
    <3>2. p \notin byes BY <1>8, <2>1 DEF Rotation, PairsApart
    <3>3. \A t \in Tabs : p = store[t] => Renewed(t)' BY <1>7, <1>8, <2>1 DEF Rotation, PairsApart
    <3>4. Known(p) BY <1>8, <2>1 DEF Known
    <3>5. ~\E z \in exchanges' : Brings(z) /\ z.got = p
      BY <1>3, <1>4, <3>4 DEF SessionInv, NewPairs, Brings
    <3>6. ~\E t \in Tabs : Brings(login[t]) /\ login[t].got = p
      BY <3>4 DEF SessionInv, NewPairs
    <3> QED BY <1>1, <3>1, <3>2, <3>3, <3>5, <3>6 DEF Accounted
  <2>2. CASE p # x.pair
    <3>1. p \in live' <=> Accounted(p) BY <1>1, <2>2 DEF Rotation, LiveIsAccounted
    <3>2. (\E z \in exchanges' : Brings(z) /\ z.got = p) <=> \E z \in exchanges : Brings(z) /\ z.got = p
      BY <1>1, <1>3, <1>4 DEF Brings
    <3>3. (\E t \in Tabs : p = store[t] /\ p # 0 /\ ~Renewed(t)') <=> \E t \in Tabs : p = store[t] /\ p # 0 /\ ~Renewed(t)
      BY <1>7, <1>8, <2>2
    <3> QED BY <1>1, <3>1, <3>2, <3>3 DEF Accounted, Brings
  <2> QED BY <2>1, <2>2
<1> QED BY <1>5, <1>6, <1>9 DEF Rotation

LEMMA IssueRotates ==
    ASSUME SessionInv, Rotation, NEW x \in exchanges, IssueTokens(x)
    PROVE  Rotation'
<1>0. x \in Exchange /\ exchanges \subseteq Exchange /\ issued \in Nat /\ live \subseteq 1..issued
  BY DEF SessionInv, SessionTypeOK
<1> DEFINE y == [x EXCEPT !.phase = "answer", !.got = issued + 1]
<1>1. /\ UNCHANGED <<store, byes, login>> /\ issued' = issued + 1 /\ live' = live \cup {issued + 1}
      /\ x.phase = "spent" /\ exchanges' = (exchanges \ {x}) \cup {y}
  BY DEF IssueTokens, Becomes
<1>2. y.by = x.by /\ y.pair = x.pair /\ y.phase = "answer" /\ y.got = issued + 1 BY <1>0 DEF Exchange
<1> HIDE DEF y
<1>3. OneOfATab' BY <1>1, <1>2 DEF Rotation, OneOfATab
<1>4. issued + 1 \notin byes /\ issued + 1 \notin live BY <1>0 DEF SessionInv, SessionTypeOK
<1>5. PairsApart' BY <1>1, <1>2, <1>4 DEF Rotation, PairsApart, Brings
<1>6. \A u : Renewed(u)' = Renewed(u) BY <1>1, <1>2 DEF Renewed
<1>7. LiveIsAccounted'
  <2> SUFFICES ASSUME NEW p \in 0..issued' PROVE p \in live' <=> Accounted(p)'
    BY DEF LiveIsAccounted
  <2>1. Accounted(p)' <=> Accounted(p) \/ p = issued + 1 BY <1>1, <1>2, <1>6 DEF Accounted, Brings
  <2>2. p \in 0..issued \/ p = issued + 1 BY <1>0, <1>1
  <2> QED BY <1>1, <1>4, <2>1, <2>2 DEF Rotation, LiveIsAccounted
<1> QED BY <1>3, <1>5, <1>7 DEF Rotation

\* Nothing was refused or lost, and nobody left.
LEMMA NoneFails ==
    ASSUME SessionInv, Rotation, NEW x \in exchanges
    PROVE  ~RefreshFailed(x) /\ ~Unread(x)
BY PageAssumption DEF Rotation, OneOfATab, RefreshFailed, Unread

LEMMA RefreshedRotates ==
    ASSUME SessionInv, Rotation, NEW x \in exchanges, Refreshed(x)
    PROVE  Rotation'
<1>0. x \in Exchange /\ store \in [Tabs -> 0..issued] /\ x.by \in Tabs
  BY DEF SessionInv, SessionTypeOK, Rotation, OneOfATab
<1> DEFINE t == x.by
<1>1. /\ UNCHANGED <<issued, live, byes, login>> /\ exchanges' = exchanges \ {x} /\ Brings(x)
      /\ \A u \in Tabs : store'[u] = IF u = t THEN x.got ELSE store[u]
  BY <1>0 DEF Refreshed, Holds, Brings
<1>2. x.got # 0 /\ ~Known(x.got) BY <1>1 DEF SessionInv, NewPairs
<1>3. \A y \in exchanges' : y.by # t BY <1>1 DEF Rotation, OneOfATab
<1>4. login[t] = NoLogin
  <2>1. x.pair # 0 /\ x.pair = store[t] BY <1>0 DEF Exchange, Rotation, OneOfATab
  <2> QED BY <1>0, <2>1 DEF Rotation, OneOfATab
<1>5. OneOfATab' BY <1>0, <1>1, <1>3, <1>4 DEF Rotation, OneOfATab
<1>6. x.got \notin byes BY <1>1 DEF Rotation, PairsApart
<1>7. PairsApart' BY <1>0, <1>1, <1>2, <1>6 DEF Rotation, PairsApart, Known
<1>8. ~Renewed(t)' /\ Renewed(t) /\ \A u : u # t => Renewed(u)' = Renewed(u)
  BY <1>1, <1>3 DEF Renewed, Brings
<1>9. \A p \in 0..issued : Accounted(p)' <=> Accounted(p)
  <2> SUFFICES ASSUME NEW p \in 0..issued PROVE Accounted(p)' <=> Accounted(p)
    OBVIOUS
  <2>1. (\E u \in Tabs : p = store[u] /\ p # 0 /\ ~Renewed(u))'
        <=> (\E u \in Tabs : p = store[u] /\ p # 0 /\ ~Renewed(u)) \/ p = x.got
    BY <1>0, <1>1, <1>2, <1>8
  <2>2. (\E y \in exchanges : Brings(y) /\ y.got = p)
        <=> (\E y \in exchanges' : Brings(y) /\ y.got = p) \/ p = x.got
    BY <1>1
  <2> QED BY <1>1, <2>1, <2>2 DEF Accounted, Brings
<1> QED BY <1>1, <1>5, <1>7, <1>9 DEF Rotation, LiveIsAccounted

\* Who logs out without an exchange takes the pair of the tab along.
LEMMA LogoutRotates ==
    ASSUME SessionInv, Rotation, NEW t \in Tabs, Logout(t), ~mixed'
    PROVE  Rotation'
<1>0. store \in [Tabs -> 0..issued] BY DEF SessionInv, SessionTypeOK
<1>1. /\ UNCHANGED <<issued, live, exchanges, login>> /\ byes' = byes \cup {store[t]} /\ store[t] # 0
      /\ \A u \in Tabs : store'[u] = IF u = t THEN 0 ELSE store[u]
  BY <1>0 DEF Logout, Holds
<1>2. ~Exchanging(t) BY DEF Logout
<1>3. OneOfATab' BY <1>1, <1>2 DEF Rotation, OneOfATab, Exchanging
<1>4. Known(store[t]) BY DEF Known
<1>5. PairsApart'
  <2>1. \A u \in Tabs : store'[u] # store[t] BY <1>1 DEF Rotation, PairsApart
  <2>2. \A u \in Tabs : ~(Brings(login[u]) /\ login[u].got = store[t]) BY <1>4 DEF SessionInv, NewPairs
  <2>3. \A x \in exchanges : ~(Brings(x) /\ x.got = store[t]) BY <1>4 DEF SessionInv, NewPairs
  <2>4. \A p \in byes : \A u \in Tabs : store'[u] # p
    BY <1>0, <1>1 DEF Rotation, PairsApart, SessionInv, SessionTypeOK
  <2> QED BY <1>1, <2>1, <2>2, <2>3, <2>4 DEF Rotation, PairsApart, Brings
<1>6. \A u : Renewed(u)' = Renewed(u) BY <1>1 DEF Renewed
<1>7. ~Renewed(t) BY <1>2 DEF Renewed, Exchanging
<1>8. \A p : Accounted(p)' <=> Accounted(p)
  <2> SUFFICES ASSUME NEW p PROVE Accounted(p)' <=> Accounted(p)
    OBVIOUS
  <2>1. (\E u \in Tabs : p = store[u] /\ p # 0 /\ ~Renewed(u))
        <=> (\E u \in Tabs : p = store[u] /\ p # 0 /\ ~Renewed(u))' \/ p = store[t]
    BY <1>1, <1>6, <1>7
  <2> QED BY <1>1, <2>1 DEF Accounted, Brings
<1> QED BY <1>1, <1>3, <1>5, <1>8 DEF Rotation, LiveIsAccounted

LEMMA ServeLogoutRotates ==
    ASSUME SessionInv, Rotation, NEW p \in byes, ServeLogout(p)
    PROVE  Rotation'
<1>1. /\ UNCHANGED <<issued, store, exchanges, login>> /\ byes' = byes \ {p} /\ live' = live \ {p}
  BY DEF ServeLogout
<1>2. OneOfATab' /\ PairsApart' BY <1>1 DEF Rotation, OneOfATab, PairsApart, Brings
<1>3. \A u : Renewed(u)' = Renewed(u) BY <1>1 DEF Renewed
<1>4. \A q : Accounted(q)' <=> Accounted(q) /\ q # p
  BY <1>1, <1>3 DEF Accounted, Brings, Rotation, PairsApart
<1> QED BY <1>1, <1>2, <1>4 DEF Rotation, LiveIsAccounted

LEMMA AskLoginRotates ==
    ASSUME SessionInv, Rotation, NEW t \in Tabs, AskLogin(t)
    PROVE  Rotation'
<1>1. /\ UNCHANGED <<issued, live, store, exchanges, byes>> /\ store[t] = 0
      /\ login[t] = NoLogin /\ \A u \in Tabs : u # t => login'[u] = login[u]
      /\ login'[t].phase = "asked"
  BY DEF AskLogin, SessionInv, SessionTypeOK
<1>2. \A u \in Tabs : /\ Brings(login'[u]) <=> Brings(login[u])
                      /\ Brings(login[u]) => login'[u] = login[u]
  BY <1>1 DEF Brings, NoLogin
<1>3. OneOfATab' BY <1>1 DEF Rotation, OneOfATab
<1>4. PairsApart' BY <1>1, <1>2 DEF Rotation, PairsApart, Brings
<1>5. \A u : Renewed(u)' = Renewed(u) BY <1>1 DEF Renewed
<1>6. \A p : Accounted(p)' <=> Accounted(p) BY <1>1, <1>2, <1>5 DEF Accounted, Brings
<1> QED BY <1>1, <1>3, <1>4, <1>6 DEF Rotation, LiveIsAccounted

LEMMA ServeLoginRotates ==
    ASSUME SessionInv, Rotation, NEW t \in Tabs, ServeLogin(t)
    PROVE  Rotation'
<1> DEFINE reply == [phase |-> "answer", got |-> issued + 1]
<1>0. /\ issued \in Nat /\ live \subseteq 1..issued /\ byes \subseteq 1..issued /\ exchanges \subseteq Exchange
      /\ store \in [Tabs -> 0..issued]
  BY DEF SessionInv, SessionTypeOK
<1>1. /\ UNCHANGED <<store, exchanges, byes>> /\ issued' = issued + 1 /\ live' = live \cup {issued + 1}
      /\ login[t].phase = "asked" /\ \A u \in Tabs : login'[u] = IF u = t THEN reply ELSE login[u]
  BY DEF ServeLogin, SessionInv, SessionTypeOK
<1>2. login[t] # NoLogin /\ ~Brings(login[t]) BY <1>1 DEF NoLogin, Brings
<1>3. Brings(reply) /\ reply.got = issued + 1 BY DEF Brings
<1> HIDE DEF reply
<1>4. OneOfATab' BY <1>1, <1>2 DEF Rotation, OneOfATab
<1>5. issued + 1 \notin byes /\ issued + 1 \notin live BY <1>0
<1>6. PairsApart' BY <1>1, <1>3, <1>5 DEF Rotation, PairsApart, Brings
<1>7. \A u : Renewed(u)' = Renewed(u) BY <1>1 DEF Renewed
<1>8. LiveIsAccounted'
  <2> SUFFICES ASSUME NEW p \in 0..issued' PROVE p \in live' <=> Accounted(p)'
    BY DEF LiveIsAccounted
  <2>1. (\E u \in Tabs : Brings(login'[u]) /\ login'[u].got = p)
        <=> (\E u \in Tabs : Brings(login[u]) /\ login[u].got = p) \/ p = issued + 1
    BY <1>1, <1>2, <1>3
  <2>2. Accounted(p)' <=> Accounted(p) \/ p = issued + 1 BY <1>1, <1>7, <2>1 DEF Accounted, Brings
  <2>3. p \in 0..issued \/ p = issued + 1 BY <1>0, <1>1
  <2> QED BY <1>1, <1>5, <2>2, <2>3 DEF Rotation, LiveIsAccounted
<1> QED BY <1>4, <1>6, <1>8 DEF Rotation

LEMMA LoginArrivesRotates ==
    ASSUME SessionInv, Rotation, NEW t \in Tabs, LoginArrives(t)
    PROVE  Rotation'
<1>0. store \in [Tabs -> 0..issued] /\ exchanges \subseteq Exchange BY DEF SessionInv, SessionTypeOK
<1> DEFINE got == login[t].got
<1>1. /\ UNCHANGED <<issued, live, exchanges, byes>> /\ Brings(login[t])
      /\ \A u \in Tabs : store'[u] = IF u = t THEN got ELSE store[u]
      /\ \A u \in Tabs : login'[u] = IF u = t THEN NoLogin ELSE login[u]
  BY <1>0 DEF LoginArrives, Holds, Brings, SessionInv, SessionTypeOK
<1>2. got # 0 /\ ~Known(got) BY <1>1 DEF SessionInv, NewPairs
<1>3. store[t] = 0 /\ ~Brings(NoLogin) BY <1>1 DEF Rotation, OneOfATab, Brings, NoLogin
<1>4. \A x \in exchanges : x.by # t BY <1>0, <1>3 DEF Rotation, OneOfATab, Exchange
<1>5. OneOfATab' BY <1>1, <1>4 DEF Rotation, OneOfATab
<1>6. got \notin byes BY <1>1 DEF Rotation, PairsApart
<1>7. PairsApart' BY <1>0, <1>1, <1>2, <1>3, <1>6 DEF Rotation, PairsApart, Known, Brings
<1>8. (\A u : Renewed(u)' = Renewed(u)) /\ ~Renewed(t) BY <1>1, <1>4 DEF Renewed
<1>9. \A p : Accounted(p)' <=> Accounted(p)
  <2> SUFFICES ASSUME NEW p PROVE Accounted(p)' <=> Accounted(p)
    OBVIOUS
  <2>1. (\E u \in Tabs : p = store[u] /\ p # 0 /\ ~Renewed(u))'
        <=> (\E u \in Tabs : p = store[u] /\ p # 0 /\ ~Renewed(u)) \/ p = got
    BY <1>0, <1>1, <1>2, <1>3, <1>8
  <2>2. (\E u \in Tabs : Brings(login[u]) /\ login[u].got = p)
        <=> (\E u \in Tabs : Brings(login'[u]) /\ login'[u].got = p) \/ p = got
    BY <1>1, <1>3
  <2> QED BY <1>1, <2>1, <2>2 DEF Accounted, Brings
<1> QED BY <1>1, <1>5, <1>7, <1>9 DEF Rotation, LiveIsAccounted

\* A tab that waits for no exchange and has what localStorage has loses nothing.
LEMMA ReloadRotates ==
    ASSUME SessionInv, Rotation, NEW t \in Tabs, Reload(t), ~mixed'
    PROVE  Rotation'
<1>0. store \in [Tabs -> 0..issued] BY DEF SessionInv, SessionTypeOK
<1>1. ~Exchanging(t) /\ store[t] = storage BY DEF Reload
<1>2. store' = store BY <1>0, <1>1 DEF Reload
<1>3. exchanges' = exchanges
  <2>1. \A x \in exchanges : x.by # t BY <1>1 DEF Exchanging
  <2>2. exchanges' = {IF x.by = t THEN [x EXCEPT !.by = Nobody] ELSE x : x \in exchanges} BY DEF Reload
  <2> QED BY <2>1, <2>2
<1>4. UNCHANGED <<issued, live, byes, login>> BY DEF Reload
<1> QED BY <1>2, <1>3, <1>4, RotationRests

\* Once something was mixed it stays so.
RotationInv == SessionInv /\ (~mixed => Rotation)
LEMMA RotationStep ==
    ASSUME RotationInv, [Next]_vars
    PROVE  RotationInv'
<1>0. SessionInv /\ SessionInv' BY SessionStep DEF RotationInv
<1> SUFFICES ASSUME ~mixed' PROVE Rotation'
  BY <1>0 DEF RotationInv
<1> DEFINE Goal == ~mixed => Rotation
<1>a. SessionInv /\ Goal BY <1>0 DEF RotationInv
<1>1. CASE UNCHANGED sessionVars
  <2>1. ~mixed /\ UNCHANGED <<issued, live, store, exchanges, byes, login>> BY <1>1 DEF sessionVars
  <2> QED BY <1>a, <2>1, RotationRests
<1>2. CASE \E t \in Tabs, s \in Slots : TurnAway(t, s) \/ ServeRead(t, s) \/ ReadArrives(t, s) \/ GivesUp(t, s)
                                        \/ LoseCall(t, s)
  <2>1. ~mixed /\ UNCHANGED <<issued, live, store, exchanges, byes, login>>
    BY <1>2 DEF TurnAway, ServeRead, ReadArrives, GivesUp, LoseCall, sessionVars
  <2> QED BY <1>a, <2>1, RotationRests
<1>3. CASE (\E t \in Tabs : Ask(t)) \/ \E p \in 1..issued : Age(p)
  <2>1. ~mixed /\ UNCHANGED <<issued, live, store, exchanges, byes, login>> BY <1>3 DEF Ask, Age, sessionVars
  <2> QED BY <1>a, <2>1, RotationRests
<1>4. CASE \E t \in Tabs, s \in Slots : Unauthorized(t, s)
  <2>1. ~mixed BY <1>4 DEF Unauthorized
  <2> QED BY <1>a, <1>4, <2>1, UnauthorizedRotates
<1>5. CASE \E x \in exchanges : Refreshed(x) \/ RefreshFailed(x) \/ Unread(x)
  <2>1. ~mixed BY <1>5 DEF Refreshed, RefreshFailed, Unread
  <2> QED BY <1>a, <1>5, <2>1, RefreshedRotates, NoneFails
<1>6. CASE \E x \in exchanges : Present(x) \/ Revoke(x) \/ IssueTokens(x)
  <2>1. ~mixed BY <1>6 DEF Present, Revoke, IssueTokens
  <2> QED BY <1>a, <1>6, <2>1, PresentRotates, RevokeRotates, IssueRotates
<1>7. CASE \E p \in byes : ServeLogout(p)
  <2>1. ~mixed BY <1>7 DEF ServeLogout
  <2> QED BY <1>a, <1>7, <2>1, ServeLogoutRotates
<1>8. CASE \E t \in Tabs : ServeLogin(t) \/ LoginArrives(t) \/ AskLogin(t)
  <2>1. ~mixed BY <1>8 DEF ServeLogin, LoginArrives, AskLogin
  <2> QED BY <1>a, <1>8, <2>1, ServeLoginRotates, LoginArrivesRotates, AskLoginRotates
<1>9. CASE \E t \in Tabs : Logout(t) \/ Reload(t)
  <2>1. ~mixed BY <1>9 DEF Logout, Reload
  <2> QED BY <1>a, <1>9, <2>1, LogoutRotates, ReloadRotates
<1>10. CASE \/ \E t \in Tabs : LoseLogin(t)
            \/ \E x \in exchanges : LoseExchange(x)
            \/ \E p \in byes : LoseLogout(p)
  BY <1>10 DEF LoseLogin, LoseExchange, LoseLogout
<1>11. CASE SessionProgress BY <1>11, <1>2, <1>4, <1>5, <1>6, <1>7, <1>8 DEF SessionProgress
<1>12. CASE SessionMoves BY <1>12, <1>2, <1>3, <1>8, <1>9, <1>10 DEF SessionMoves
<1>13. UNCHANGED sessionVars \/ SessionProgress \/ SessionMoves \/ \E t \in Tabs : Reload(t)
  BY DEF Next, Progress, Moves, vars
<1> QED BY <1>1, <1>9, <1>11, <1>12, <1>13

\* Rotation leaves no spare key: at rest, what the server accepts is exactly what the tabs
\* hold, whatever number of renewals, logouts and logins there were, as long as none met
\* another in flight and nothing was lost.
THEOREM NoSpareKey == Spec => []OneTabOneSession
<1>1. Init => RotationInv BY SessionStarts, RotationStarts DEF RotationInv
<1>2. RotationInv => OneTabOneSession
  <2> SUFFICES ASSUME RotationInv, ~mixed, SessionAtRest PROVE live = {store[t] : t \in Tabs} \ {0}
    BY DEF OneTabOneSession
  <2>1. /\ \A p \in 0..issued : p \in live <=> Accounted(p)
        /\ live \subseteq 0..issued /\ \A t \in Tabs : store[t] \in 0..issued
        /\ 0 \notin live
    BY DEF RotationInv, Rotation, LiveIsAccounted, SessionInv, SessionTypeOK
  <2>2. \A p : Accounted(p) <=> \E t \in Tabs : p = store[t] /\ p # 0
    BY DEF SessionAtRest, Accounted, Renewed, Brings, NoLogin
  <2> QED BY <2>1, <2>2
<1> QED BY <1>1, <1>2, RotationStep, PTL DEF Spec
------------------------------------------------------------------------------
(***************************************************************************)
(* The requests: their shape, and that only the server reads for one.      *)
(***************************************************************************)
Phases == {"idle", "sent", "read", "back", "waits"}
GoodWhat(w) == w.op = "reorder" => DOMAIN w.ids \subseteq Int
GoodCall(c) ==
    /\ c = [what |-> c.what, pair |-> c.pair, retried |-> c.retried, phase |-> c.phase, ans |-> c.ans]
    /\ c.phase \in Phases
    /\ GoodWhat(c.what)
CallsOK ==
    /\ calls = [t \in Tabs |-> [s \in Slots |-> calls[t][s]]]
    /\ \A t \in Tabs, s \in Slots : GoodCall(calls[t][s])

\* No request that was not being read for is now, and the others are read for the same.
ReadsStay == \A t \in Tabs, s \in Slots : calls'[t][s].phase = "read" => calls'[t][s] = calls[t][s]

LEMMA CallsStart == ASSUME Init PROVE CallsOK /\ \A t \in Tabs, s \in Slots : calls[t][s].phase # "read"
BY DEF Init, SessionInit, CallsOK, GoodCall, GoodWhat, NoCall, Nothing, Phases

LEMMA GoesOn ==
    ASSUME CallsOK, NEW t \in Tabs, NEW s \in Slots, NEW c, GoodCall(c), Goes(t, s, c)
    PROVE  /\ CallsOK'
           /\ \A u \in Tabs, r \in Slots : calls'[u][r] = IF u = t /\ r = s THEN c ELSE calls[u][r]
<1>1. calls' = [calls EXCEPT ![t] = [calls[t] EXCEPT ![s] = c]] BY DEF Goes
<1>2. /\ calls = [u \in Tabs |-> [r \in Slots |-> calls[u][r]]]
      /\ calls[t] = [r \in Slots |-> calls[t][r]]
  BY DEF CallsOK
<1>3. \A u \in Tabs : calls'[u] = IF u = t THEN [calls[t] EXCEPT ![s] = c] ELSE calls[u] BY <1>1, <1>2
<1>4. \A u \in Tabs, r \in Slots : calls'[u][r] = IF u = t /\ r = s THEN c ELSE calls[u][r]
  BY <1>2, <1>3
<1>5. calls' = [u \in Tabs |-> [r \in Slots |-> calls'[u][r]]]
  <2>1. \A u \in Tabs : calls'[u] = [r \in Slots |-> calls'[u][r]] BY <1>2, <1>3
  <2>2. calls' = [u \in Tabs |-> calls'[u]] BY <1>1, <1>2
  <2> QED BY <2>1, <2>2
<1>6. \A u \in Tabs, r \in Slots : GoodCall(calls'[u][r]) BY <1>4 DEF CallsOK
<1> QED BY <1>4, <1>5, <1>6 DEF CallsOK

\* The records the actions put in a slot.
LEMMA FreshCall ==
    ASSUME NEW w, NEW p, GoodWhat(w)
    PROVE  GoodCall(Fresh(w, p)) /\ Fresh(w, p).phase = "sent"
<1>1. Fresh(w, p) = [what |-> w, pair |-> p, retried |-> FALSE, phase |-> "sent", ans |-> Nothing]
  BY DEF Fresh
<1> QED BY <1>1 DEF GoodCall, Phases

Turned(c, ph, ans) == [c EXCEPT !.phase = ph, !.ans = ans]
LEMMA TurnedCall ==
    ASSUME NEW c, GoodCall(c), NEW ans, NEW ph \in Phases
    PROVE  LET d == Turned(c, ph, ans) IN GoodCall(d) /\ d.phase = ph /\ d.what = c.what /\ d.ans = ans
<1> DEFINE d == Turned(c, ph, ans)
           e == [what |-> c.what, pair |-> c.pair, retried |-> c.retried, phase |-> ph, ans |-> c.ans]
<1>1. d = [what |-> c.what, pair |-> c.pair, retried |-> c.retried, phase |-> ph, ans |-> ans]
  <2>1. [c EXCEPT !.phase = ph] = e BY DEF GoodCall
  <2>2. d = [[c EXCEPT !.phase = ph] EXCEPT !.ans = ans] BY DEF Turned
  <2>3. d = [e EXCEPT !.ans = ans] BY <2>1, <2>2
  <2> HIDE DEF d
  <2> QED BY <2>3
<1> HIDE DEF d
<1>2. GoodCall(d) /\ d.phase = ph /\ d.what = c.what /\ d.ans = ans BY <1>1 DEF GoodCall
<1> QED BY <1>2 DEF d

\* What every action outside the server does to the requests.
Quiet == CallsOK' /\ ReadsStay

LEMMA NoCallIsGood == GoodCall(NoCall) /\ NoCall.phase = "idle"
BY DEF GoodCall, GoodWhat, NoCall, Nothing, Phases

LEMMA SameCalls == ASSUME CallsOK, UNCHANGED calls PROVE Quiet
BY DEF Quiet, CallsOK, ReadsStay

LEMMA QuietGoes ==
    ASSUME CallsOK, NEW t \in Tabs, NEW s \in Slots, NEW c, GoodCall(c), c.phase # "read", Goes(t, s, c)
    PROVE  Quiet
BY GoesOn DEF Quiet, ReadsStay

LEMMA QuietAsking ==
    ASSUME CallsOK, NEW t \in Tabs, NEW w, GoodWhat(w), Asking(t, w)
    PROVE  Quiet
<1>1. FreeSlot(t) \in Slots BY DEF FreeSlot, Asking, HasRoom
<1>2. Goes(t, FreeSlot(t), Fresh(w, store[t])) BY DEF Asking, Goes
<1> QED BY <1>1, <1>2, FreshCall, QuietGoes

LEMMA QuietAnswered ==
    ASSUME CallsOK, NEW t \in Tabs, NEW s \in Slots, NEW ans, Answered(t, s, ans)
    PROVE  Quiet
<1>1. Goes(t, s, Turned(calls[t][s], "back", ans)) BY DEF Answered, Turned
<1>2. GoodCall(calls[t][s]) /\ "back" \in Phases BY DEF CallsOK, Phases
<1> QED BY <1>1, <1>2, TurnedCall, QuietGoes

\* The requests of a tab that was waiting for a renewal.
LEMMA QuietAfterWait ==
    ASSUME CallsOK, NEW t \in Tabs, NEW c, \A s \in Slots : GoodCall(c[s]) /\ c[s].phase # "read", AfterWait(t, c)
    PROVE  Quiet
<1> DEFINE slots == [s \in Slots |-> IF s \in Waiting(t) THEN c[s] ELSE calls[t][s]]
<1>1. calls' = [calls EXCEPT ![t] = slots] BY DEF AfterWait
<1>2. \A s \in Slots : GoodCall(slots[s]) /\ (slots[s].phase = "read" => slots[s] = calls[t][s]) BY DEF CallsOK
<1>3. slots = [s \in Slots |-> slots[s]] OBVIOUS
<1> HIDE DEF slots
<1>4. \A u \in Tabs : calls'[u] = IF u = t THEN slots ELSE calls[u] BY <1>1 DEF CallsOK
<1>5. calls' = [u \in Tabs |-> calls'[u]] BY <1>1 DEF CallsOK
<1>6. \A u \in Tabs : calls[u] = [s \in Slots |-> calls[u][s]] BY DEF CallsOK
<1>7. \A u \in Tabs : calls'[u] = [s \in Slots |-> calls'[u][s]] BY <1>3, <1>4, <1>6
<1>8. calls' = [u \in Tabs |-> [s \in Slots |-> calls'[u][s]]] BY <1>5, <1>7
<1>9. \A u \in Tabs, s \in Slots : GoodCall(calls'[u][s]) BY <1>2, <1>4 DEF CallsOK
<1>10. ReadsStay BY <1>2, <1>4 DEF ReadsStay
<1> QED BY <1>8, <1>9, <1>10 DEF Quiet, CallsOK

LEMMA SessionQuiet ==
    ASSUME CallsOK, SessionInv, SessionProgress \/ SessionMoves \/ \E t \in Tabs : Reload(t)
    PROVE  Quiet
<1> USE DEF CallsOK
<1>1. ASSUME NEW t \in Tabs, NEW s \in Slots,
             TurnAway(t, s) \/ ServeRead(t, s) \/ GivesUp(t, s) \/ LoseCall(t, s)
      PROVE  Quiet
  <2>1. PICK ans : Answered(t, s, ans) BY <1>1 DEF TurnAway, ServeRead, GivesUp, LoseCall
  <2> QED BY <2>1, QuietAnswered
<1>2. ASSUME NEW t \in Tabs, NEW s \in Slots, ReadArrives(t, s)
      PROVE  Quiet
  BY <1>2, NoCallIsGood, QuietGoes DEF ReadArrives
<1>3. ASSUME NEW t \in Tabs, NEW s \in Slots, Unauthorized(t, s)
      PROVE  Quiet
  <2> DEFINE c == calls[t][s]
             d == [c EXCEPT !.phase = "waits", !.retried = TRUE]
  <2>1. Goes(t, s, d) BY <1>3 DEF Unauthorized
  <2>2. GoodCall(c) OBVIOUS
  <2> HIDE DEF c
  <2>3. d = [what |-> c.what, pair |-> c.pair, retried |-> TRUE, phase |-> "waits", ans |-> c.ans]
    <3> DEFINE e == [what |-> c.what, pair |-> c.pair, retried |-> c.retried, phase |-> "waits", ans |-> c.ans]
    <3>1. [c EXCEPT !.phase = "waits"] = e BY <2>2 DEF GoodCall
    <3>2. d = [[c EXCEPT !.phase = "waits"] EXCEPT !.retried = TRUE] OBVIOUS
    <3>3. d = [e EXCEPT !.retried = TRUE] BY <3>1, <3>2
    <3> HIDE DEF d
    <3> QED BY <3>3
  <2> HIDE DEF d
  <2>4. GoodCall(d) /\ d.phase # "read" BY <2>2, <2>3 DEF GoodCall, Phases
  <2> QED BY <2>1, <2>4, QuietGoes
<1>4. ASSUME NEW x \in exchanges, x.by \in Tabs, Refreshed(x)
      PROVE  Quiet
  <2> DEFINE t == x.by
             c == [s \in Slots |-> [calls[t][s] EXCEPT !.phase = "sent", !.pair = x.got, !.ans = Nothing]]
  <2>1. AfterWait(t, c) BY <1>4 DEF Refreshed
  <2>2. ASSUME NEW s \in Slots
        PROVE  GoodCall(c[s]) /\ c[s].phase # "read"
    <3> DEFINE o == calls[t][s]
               d == [o EXCEPT !.phase = "sent", !.pair = x.got, !.ans = Nothing]
    <3>1. c[s] = d OBVIOUS
    <3>2. GoodCall(o) BY <1>4
    <3> HIDE DEF o
    <3>3. d = [what |-> o.what, pair |-> x.got, retried |-> o.retried, phase |-> "sent", ans |-> Nothing]
      <4> DEFINE e == [what |-> o.what, pair |-> o.pair, retried |-> o.retried, phase |-> "sent", ans |-> o.ans]
                 f == [what |-> o.what, pair |-> x.got, retried |-> o.retried, phase |-> "sent", ans |-> o.ans]
      <4>1. [o EXCEPT !.phase = "sent"] = e BY <3>2 DEF GoodCall
      <4>2. [e EXCEPT !.pair = x.got] = f OBVIOUS
      <4>3. d = [[[o EXCEPT !.phase = "sent"] EXCEPT !.pair = x.got] EXCEPT !.ans = Nothing] OBVIOUS
      <4>4. d = [f EXCEPT !.ans = Nothing] BY <4>1, <4>2, <4>3
      <4> QED BY <4>4
    <3> HIDE DEF d, c
    <3> QED BY <3>1, <3>2, <3>3 DEF GoodCall, Phases
  <2> HIDE DEF c
  <2> QED BY <1>4, <2>1, <2>2, QuietAfterWait
<1>5. ASSUME NEW x \in exchanges, x.by \in Tabs, RefreshFailed(x)
      PROVE  Quiet
  <2> DEFINE t == x.by
             c == [s \in Slots |-> Turned(calls[t][s], "back", Failed)]
  <2>1. AfterWait(t, c) BY <1>5 DEF RefreshFailed, Turned
  <2>2. "back" \in Phases BY DEF Phases
  <2>3. \A s \in Slots : GoodCall(calls[t][s]) BY <1>5
  <2>4. \A s \in Slots : GoodCall(c[s]) /\ c[s].phase # "read" BY <2>2, <2>3, TurnedCall
  <2> HIDE DEF c
  <2> QED BY <1>5, <2>1, <2>4, QuietAfterWait
<1>6. ASSUME NEW x, Unread(x) \/ Present(x) \/ Revoke(x) \/ IssueTokens(x) \/ LoseExchange(x)
      PROVE  Quiet
  BY <1>6, SameCalls DEF Unread, Present, Revoke, IssueTokens, LoseExchange
<1>7. ASSUME NEW p, ServeLogout(p) \/ Age(p) \/ LoseLogout(p)
      PROVE  Quiet
  BY <1>7, SameCalls DEF ServeLogout, Age, LoseLogout
<1>8. ASSUME NEW t \in Tabs, ServeLogin(t) \/ Logout(t) \/ AskLogin(t) \/ LoseLogin(t)
      PROVE  Quiet
  BY <1>8, SameCalls DEF ServeLogin, Logout, AskLogin, LoseLogin
<1>9. ASSUME NEW t \in Tabs, Ask(t)
      PROVE  Quiet
  <2>1. Asking(t, [op |-> "read"]) /\ GoodWhat([op |-> "read"]) BY <1>9 DEF Ask, GoodWhat
  <2> QED BY <2>1, QuietAsking
<1>10. ASSUME NEW t \in Tabs, LoginArrives(t)
       PROVE  Quiet
  <2>1. FreeSlot(t) \in Slots BY <1>10 DEF LoginArrives, HasRoom, FreeSlot
  <2>2. Goes(t, FreeSlot(t), Fresh([op |-> "me"], login[t].got)) BY <1>10 DEF LoginArrives
  <2>3. GoodWhat([op |-> "me"]) BY DEF GoodWhat
  <2> QED BY <2>1, <2>2, <2>3, FreshCall, QuietGoes
<1>11. ASSUME NEW t \in Tabs, Reload(t)
       PROVE  Quiet
  <2> DEFINE slots == [s \in Slots |-> NoCall]
  <2>1. calls' = [calls EXCEPT ![t] = slots] BY <1>11 DEF Reload
  <2>2. \A u \in Tabs : calls'[u] = IF u = t THEN slots ELSE calls[u] BY <2>1
  <2>3. \A u \in Tabs, s \in Slots : calls'[u][s] = IF u = t THEN NoCall ELSE calls[u][s] BY <2>2
  <2>4. calls' = [u \in Tabs |-> [s \in Slots |-> calls'[u][s]]]
    <3>1. \A u \in Tabs : calls[u] = [s \in Slots |-> calls[u][s]] OBVIOUS
    <3>2. \A u \in Tabs : calls'[u] = [s \in Slots |-> calls'[u][s]] BY <2>2, <3>1
    <3>3. calls' = [u \in Tabs |-> calls'[u]] BY <2>1
    <3> QED BY <3>2, <3>3
  <2> QED BY <2>3, <2>4, NoCallIsGood DEF Quiet, ReadsStay
<1>12. \A x \in exchanges : Refreshed(x) \/ RefreshFailed(x) => x.by \in Tabs
  BY DEF Refreshed, RefreshFailed, SessionInv, SessionTypeOK, Exchange
<1>13. CASE SessionProgress
  BY <1>13, <1>1, <1>2, <1>3, <1>4, <1>5, <1>6, <1>7, <1>8, <1>10, <1>12 DEF SessionProgress
<1>14. CASE SessionMoves
  BY <1>14, <1>1, <1>6, <1>7, <1>8, <1>9 DEF SessionMoves
<1> QED BY <1>11, <1>13, <1>14

\* Arrivals: a request of the page ends, or its slot goes on with another one.
Follows(s) == Ends(s) \/ \E w : w.op # "reorder" /\ Then(s, w)

LEMMA QuietFollows ==
    ASSUME CallsOK, NEW s \in Slots, Follows(s)
    PROVE  Quiet
<1>1. CASE Ends(s) BY <1>1, PageAssumption, NoCallIsGood, QuietGoes DEF Ends
<1>2. CASE \E w : w.op # "reorder" /\ Then(s, w)
  <2>1. PICK w : w.op # "reorder" /\ Then(s, w) BY <1>2
  <2>2. GoodWhat(w) BY <2>1 DEF GoodWhat
  <2>3. Goes(Page, s, Fresh(w, store[Page])) BY <2>1 DEF Then
  <2> QED BY <2>2, <2>3, PageAssumption, FreshCall, QuietGoes
<1> QED BY <1>1, <1>2 DEF Follows

LEMMA ArrivalsFollow ==
    ASSUME NEW s \in Slots, Arrivals(s)
    PROVE  Follows(s)
<1>1. Reload1(s) => Follows(s)
  <2> DEFINE w == [op |-> "list", load |-> page.load + 1]
  <2>1. Reload1(s) => Then(s, w) BY DEF Reload1
  <2>2. w.op # "reorder" OBVIOUS
  <2> QED BY <2>1, <2>2 DEF Follows
<1>2. ListArrives(s) \/ ReorderArrives(s) => Follows(s) BY DEF ListArrives, ReorderArrives, Follows
<1>3. DeleteArrives(s) \/ DuplicateArrives(s) => Follows(s)
  BY <1>1 DEF DeleteArrives, DuplicateArrives, Follows
<1>4. NotSaved(s) \/ (\E w : Saved(s, w)) => Follows(s) BY <1>1 DEF NotSaved, Saved, Follows
<1>5. CreateArrives(s) => Follows(s)
  <2> DEFINE c == calls[Page][s]
             w == [op |-> "upload", lote |-> c.ans.id, mount |-> 0, images |-> <<>>,
                   files |-> c.what.files, number |-> c.what.number, again |-> c.what.again]
  <2>1. CreateArrives(s) => NotSaved(s) \/ Saved(s, c.what) \/ Then(s, w) BY DEF CreateArrives
  <2>2. w.op # "reorder" OBVIOUS
  <2> QED BY <1>4, <2>1, <2>2 DEF Follows
<1>6. StagedArrive(s) => Follows(s)
  <2> DEFINE c == calls[Page][s]
             w(images) == [op |-> "photos", lote |-> c.what.lote, mount |-> 0, images |-> images,
                           number |-> c.what.number, again |-> c.what.again]
  <2>1. StagedArrive(s) => Saved(s, c.what) \/ \E images : Then(s, w(images)) BY DEF StagedArrive
  <2>2. \A images : w(images).op # "reorder" OBVIOUS
  <2> HIDE DEF w
  <2> QED BY <1>4, <2>1, <2>2 DEF Follows
<1>7. CoverArrives(s) => Follows(s) BY <1>4 DEF CoverArrives
<1>8. EditArrives(s) => Follows(s) BY <1>1, <1>4 DEF EditArrives
<1>9. UploadsArrive(s) => Follows(s)
  <2> DEFINE w(m, lote, images) == [op |-> "photos", lote |-> lote, mount |-> m, images |-> images, kept |-> refs[m]]
  <2>1. UploadsArrive(s) => Ends(s) \/ \E m, lote, images : Then(s, w(m, lote, images)) BY DEF UploadsArrive, Persists
  <2>2. \A m, lote, images : w(m, lote, images).op # "reorder" OBVIOUS
  <2> HIDE DEF w
  <2> QED BY <2>1, <2>2 DEF Follows
<1>10. PhotosArrive(s) => Follows(s) BY <1>1 DEF PhotosArrive, Follows
<1> QED BY <1>2, <1>3, <1>5, <1>6, <1>7, <1>8, <1>9, <1>10 DEF Arrivals

LEMMA ChoicesQuiet ==
    ASSUME CallsOK, Choices
    PROVE  Quiet
<1> USE PageAssumption
<1>1. CASE \/ CloseDrawer \/ OpenCreate \/ LeavePhotos \/ BackToPhotos \/ \E k : OpenEdit(k)
  <2>1. UNCHANGED calls BY <1>1 DEF CloseDrawer, OpenCreate, LeavePhotos, BackToPhotos, OpenEdit
  <2> QED BY <2>1, SameCalls
<1>2. CASE TryAgain
  <2> DEFINE w == [op |-> "list", load |-> page.load + 1]
  <2>1. Asking(Page, w) /\ GoodWhat(w) BY <1>2 DEF TryAgain, Asks, GoodWhat
  <2> QED BY <2>1, QuietAsking
<1>3. ASSUME NEW k, MoveLote(k)
      PROVE  Quiet
  <2> DEFINE w == [op |-> "reorder", ids |-> [i \in 1..Len(page.rows) |-> Swapped(page.rows, k)[i].id], kept |-> page.rows]
  <2>1. Asking(Page, w) BY <1>3 DEF MoveLote, Asks
  <2>2. DOMAIN w.ids = 1..Len(page.rows) OBVIOUS
  <2>3. GoodWhat(w) BY <2>2 DEF GoodWhat
  <2> QED BY <2>1, <2>3, QuietAsking
<1>4. ASSUME NEW k, DeleteLote(k)
      PROVE  Quiet
  <2> DEFINE w == [op |-> "delete", lote |-> page.rows[k].id]
  <2>1. Asking(Page, w) /\ GoodWhat(w) BY <1>4 DEF DeleteLote, Asks, GoodWhat
  <2> QED BY <2>1, QuietAsking
<1>5. ASSUME NEW k, DuplicateLote(k)
      PROVE  Quiet
  <2>1. PICK number : Asking(Page, [op |-> "create", by |-> "list", number |-> number,
                                    images |-> page.rows[k].images, files |-> 0])
    BY <1>5 DEF DuplicateLote, Asks
  <2> QED BY <2>1, QuietAsking DEF GoodWhat
<1>6. ASSUME NEW files, NEW again, SaveNew(files, again)
      PROVE  Quiet
  <2> DEFINE w == [op |-> "create", by |-> "drawer", number |-> drawer.number, images |-> <<>>,
                   files |-> files, again |-> again]
  <2>1. Asking(Page, w) /\ GoodWhat(w) BY <1>6 DEF SaveNew, Asks, GoodWhat
  <2> QED BY <2>1, QuietAsking
<1>7. ASSUME NEW n, SaveEdit(n)
      PROVE  Quiet
  <2> DEFINE w == [op |-> "edit", lote |-> drawer.lote, number |-> n]
  <2>1. Asking(Page, w) /\ GoodWhat(w) BY <1>7 DEF SaveEdit, Asks, GoodWhat
  <2> QED BY <2>1, QuietAsking
<1>8. ASSUME NEW images, Arrange(images)
      PROVE  Quiet
  <2> DEFINE w == [op |-> "photos", lote |-> drawer.shows, mount |-> drawer.mount, images |-> images,
                   kept |-> refs[drawer.mount]]
  <2>1. FreeSlot(Page) \in Slots BY <1>8 DEF Arrange, HasRoom, FreeSlot
  <2>2. Then(FreeSlot(Page), w) BY <1>8 DEF Arrange, Persists
  <2>3. w.op # "reorder" OBVIOUS
  <2> QED BY <2>1, <2>2, <2>3, QuietFollows DEF Follows
<1>9. ASSUME NEW files, Upload(files)
      PROVE  Quiet
  <2> DEFINE w == [op |-> "upload", lote |-> drawer.shows, files |-> files, mount |-> drawer.mount]
  <2>1. Asking(Page, w) /\ GoodWhat(w) BY <1>9 DEF Upload, Asks, GoodWhat
  <2> QED BY <2>1, QuietAsking
<1>10. ASSUME NEW t \in Tabs, RivalCreates(t)
       PROVE  Quiet
  <2> DEFINE w == [op |-> "create", number |-> Suggested({lotes[i].number : i \in Live}), images |-> <<>>]
  <2>1. Asking(t, w) /\ GoodWhat(w) BY <1>10 DEF RivalCreates, Elsewhere, GoodWhat
  <2> QED BY <2>1, QuietAsking
<1>11. ASSUME NEW t \in Tabs, NEW i, RivalDeletes(t, i)
       PROVE  Quiet
  <2> DEFINE w == [op |-> "delete", lote |-> i]
  <2>1. Asking(t, w) /\ GoodWhat(w) BY <1>11 DEF RivalDeletes, Elsewhere, GoodWhat
  <2> QED BY <2>1, QuietAsking
<1> QED BY <1>1, <1>2, <1>3, <1>4, <1>5, <1>6, <1>7, <1>8, <1>9, <1>10, <1>11 DEF Choices
------------------------------------------------------------------------------
(***************************************************************************)
(* The orders of the lotes.  What a request read is still true when it     *)
(* commits, unless another writer of orders overlapped it.                 *)
(***************************************************************************)
GoodRow(r) == /\ r = [number |-> r.number, order |-> r.order, here |-> r.here, images |-> r.images]
              /\ r.order \in Int
RowsOK == /\ \E n \in Nat : lotes = [i \in 1..n |-> lotes[i]]
          /\ \A i \in DOMAIN lotes : GoodRow(lotes[i])

IsCreate(c) == c.what.op = "create" /\ c.ans.order \in Nat
IsReorder(c) == c.what.op = "reorder" /\ DOMAIN c.ans.orders \subseteq Range(c.what.ids)
ReadsOK == \A t \in Tabs, s \in Slots :
               calls[t][s].phase = "read" => IsCreate(calls[t][s]) \/ IsReorder(calls[t][s])

StillTrue(c) ==
    /\ c.what.op = "create" => \A i \in Live : lotes[i].order < c.ans.order
    /\ c.what.op = "reorder" => /\ Live \subseteq DOMAIN c.ans.orders
                                /\ \A i \in Live : c.ans.orders[i] = lotes[i].order
NoTies == \A i, j \in Live : i # j => lotes[i].order # lotes[j].order
OrdersInv == ~raced => /\ NoTies
                       /\ \A t \in Tabs, s \in Slots : calls[t][s].phase = "read" => StillTrue(calls[t][s])

CatalogoInv == CallsOK /\ RowsOK /\ ReadsOK /\ OrdersInv

LEMMA CatalogoStarts == ASSUME Init PROVE CatalogoInv
<1>1. PICK n \in Nat : /\ n = left.lotes
                       /\ lotes = [i \in 1..n |-> [number |-> <<i, 0>>, order |-> i - 1, here |-> TRUE,
                                      images |-> IF i = 1 THEN [k \in 1..left.photos |-> k] ELSE <<>>]]
  BY PlansAssumption DEF Init, SessionInit, CatalogoInit
<1>2. DOMAIN lotes = 1..n /\ \A i \in 1..n : GoodRow(lotes[i]) /\ lotes[i].order = i - 1
  <2>1. DOMAIN lotes = 1..n BY <1>1
  <2>2. ASSUME NEW i \in 1..n
        PROVE  GoodRow(lotes[i]) /\ lotes[i].order = i - 1
    <3>1. PICK images : lotes[i] = [number |-> <<i, 0>>, order |-> i - 1, here |-> TRUE, images |-> images]
      BY <1>1
    <3> QED BY <3>1 DEF GoodRow
  <2> QED BY <2>1, <2>2
<1>3. lotes = [i \in 1..n |-> lotes[i]] BY <1>1
<1>4. RowsOK BY <1>2, <1>3 DEF RowsOK
<1>5. NoTies BY <1>2 DEF NoTies, Live
<1> QED BY <1>4, <1>5, CallsStart DEF CatalogoInv, ReadsOK, OrdersInv

LEMMA QuietKeeps ==
    ASSUME CatalogoInv, Quiet, UNCHANGED <<lotes, raced>>
    PROVE  CatalogoInv'
<1>1. Live' = Live BY DEF Live
<1>2. RowsOK' BY DEF CatalogoInv, RowsOK
<1>3. ReadsOK' BY DEF CatalogoInv, ReadsOK, Quiet, ReadsStay, IsCreate, IsReorder
<1>4. OrdersInv' BY <1>1 DEF CatalogoInv, OrdersInv, Quiet, ReadsStay, NoTies, StillTrue
<1> QED BY <1>2, <1>3, <1>4 DEF CatalogoInv, Quiet

\* The first halves: what is promised is true when it is read.
LEMMA FirstHalf ==
    ASSUME CatalogoInv, NEW t \in Tabs, NEW s \in Slots, NEW ans, Reads(t, s, ans),
           UNCHANGED <<lotes, raced>>,
           LET c == Turned(calls[t][s], "read", ans) IN (IsCreate(c) \/ IsReorder(c)) /\ StillTrue(c)
    PROVE  CatalogoInv'
<1> DEFINE c == Turned(calls[t][s], "read", ans)
<1>1. Goes(t, s, c) BY DEF Reads, Turned
<1>2. GoodCall(calls[t][s]) /\ "read" \in Phases BY DEF CatalogoInv, CallsOK, Phases
<1>3. GoodCall(c) BY <1>2, TurnedCall
<1>4. (IsCreate(c) \/ IsReorder(c)) /\ StillTrue(c) OBVIOUS
<1> HIDE DEF c
<1>5. /\ CallsOK'
      /\ \A u \in Tabs, r \in Slots : calls'[u][r] = IF u = t /\ r = s THEN c ELSE calls[u][r]
  BY <1>1, <1>3, GoesOn DEF CatalogoInv
<1>6. Live' = Live BY DEF Live
<1>7. RowsOK' BY DEF CatalogoInv, RowsOK
<1>8. ReadsOK' BY <1>4, <1>5 DEF CatalogoInv, ReadsOK, IsCreate, IsReorder
<1>9. OrdersInv'
  <2>1. ASSUME ~raced', NEW u \in Tabs, NEW r \in Slots, calls'[u][r].phase = "read"
        PROVE  StillTrue(calls[u][r])'
    <3>1. CASE u = t /\ r = s
      <4>1. calls'[u][r] = c BY <3>1, <1>5
      <4> QED BY <4>1, <1>4, <1>6 DEF StillTrue
    <3>2. CASE ~(u = t /\ r = s)
      <4>1. calls'[u][r] = calls[u][r] /\ StillTrue(calls[u][r])
        BY <3>2, <1>5, <2>1 DEF CatalogoInv, OrdersInv
      <4> QED BY <4>1, <1>6 DEF StillTrue
    <3> QED BY <3>1, <3>2
  <2> QED BY <1>6, <2>1 DEF CatalogoInv, OrdersInv, NoTies
<1> QED BY <1>5, <1>7, <1>8, <1>9 DEF CatalogoInv

LEMMA CreateReadsKeeps ==
    ASSUME CatalogoInv, NEW t \in Tabs, NEW s \in Slots, CreateReads(t, s)
    PROVE  CatalogoInv'
<1> DEFINE c == calls[t][s]
<1>1. UNCHANGED <<lotes, raced>> BY DEF CreateReads, serverVars
<1>2. CASE Answered(t, s, Failed) BY <1>1, <1>2, QuietAnswered, QuietKeeps DEF CatalogoInv
<1>3. CASE \E o \in 0..Len(lotes) + 1 : IsNextOrder(o) /\ Reads(t, s, [op |-> "order", order |-> o])
  <2>1. PICK o \in 0..Len(lotes) + 1 : IsNextOrder(o) /\ Reads(t, s, [op |-> "order", order |-> o]) BY <1>3
  <2> DEFINE d == Turned(c, "read", [op |-> "order", order |-> o])
  <2>2. GoodCall(c) /\ "read" \in Phases BY DEF CatalogoInv, CallsOK, Phases
  <2>3. d.what = c.what /\ d.ans = [op |-> "order", order |-> o] BY <2>2, TurnedCall
  <2> HIDE DEF d
  <2>4. o \in Nat /\ \A i \in Live : lotes[i].order < o BY <2>1 DEF IsNextOrder, Orders
  <2>5. IsCreate(d) /\ StillTrue(d) BY <2>3, <2>4 DEF CreateReads, IsCreate, StillTrue
  <2> QED BY <1>1, <2>1, <2>5, FirstHalf DEF d
<1> QED BY <1>2, <1>3 DEF CreateReads

LEMMA ReorderReadsKeeps ==
    ASSUME CatalogoInv, NEW t \in Tabs, NEW s \in Slots, ReorderReads(t, s)
    PROVE  CatalogoInv'
<1> DEFINE c == calls[t][s]
           ans == [op |-> "orders", orders |-> [i \in Live |-> lotes[i].order]]
           d == Turned(c, "read", ans)
<1>1. UNCHANGED <<lotes, raced>> BY DEF ReorderReads, serverVars
<1>2. CASE Answered(t, s, Failed) BY <1>1, <1>2, QuietAnswered, QuietKeeps DEF CatalogoInv
<1>3. CASE Range(c.what.ids) = Live /\ Reads(t, s, ans)
  <2>1. GoodCall(c) /\ "read" \in Phases BY DEF CatalogoInv, CallsOK, Phases
  <2>2. d.what = c.what /\ d.ans = ans BY <2>1, TurnedCall
  <2>3. c.what.op = "reorder" BY DEF ReorderReads
  <2> HIDE DEF d
  <2>4. IsReorder(d) /\ StillTrue(d) BY <1>3, <2>2, <2>3 DEF IsReorder, StillTrue
  <2> QED BY <1>1, <1>3, <2>4, FirstHalf DEF d
<1> QED BY <1>2, <1>3 DEF ReorderReads

\* A request is answered and the rows change with it.
LEMMA WriteKeeps ==
    ASSUME CatalogoInv, NEW t \in Tabs, NEW s \in Slots, NEW ans, Answered(t, s, ans), RowsOK',
           ~raced' => /\ ~raced /\ NoTies'
                      /\ (\A d : StillTrue(d) => StillTrue(d)') \/ Reading = {<<t, s>>}
    PROVE  CatalogoInv'
<1> DEFINE c == Turned(calls[t][s], "back", ans)
<1>1. Goes(t, s, c) BY DEF Answered, Turned
<1>2. GoodCall(calls[t][s]) /\ "back" \in Phases BY DEF CatalogoInv, CallsOK, Phases
<1>3. GoodCall(c) /\ c.phase = "back" BY <1>2, TurnedCall
<1> HIDE DEF c
<1>4. /\ CallsOK'
      /\ \A u \in Tabs, r \in Slots : calls'[u][r] = IF u = t /\ r = s THEN c ELSE calls[u][r]
  BY <1>1, <1>3, GoesOn DEF CatalogoInv
<1>5. ReadsOK' BY <1>3, <1>4 DEF CatalogoInv, ReadsOK, IsCreate, IsReorder
<1>6. ASSUME ~raced', NEW u \in Tabs, NEW r \in Slots, calls'[u][r].phase = "read"
      PROVE  StillTrue(calls[u][r])'
  <2>1. ~(u = t /\ r = s) /\ calls'[u][r] = calls[u][r] BY <1>3, <1>4, <1>6
  <2>2. <<u, r>> \in Reading /\ <<u, r>> # <<t, s>> BY <1>6, <2>1 DEF Reading
  <2>3. \A d : StillTrue(d) => StillTrue(d)' BY <1>6, <2>2
  <2>4. StillTrue(calls[u][r]) BY <1>6, <2>1 DEF CatalogoInv, OrdersInv
  <2> DEFINE d == calls[u][r]
  <2>5. d = calls[u][r] OBVIOUS
  <2> HIDE DEF d
  <2> QED BY <2>1, <2>3, <2>4 DEF StillTrue
<1> QED BY <1>4, <1>5, <1>6 DEF CatalogoInv, OrdersInv

LEMMA AppendRow ==
    ASSUME NEW q, NEW n \in Nat, q = [i \in 1..n |-> q[i]], NEW e
    PROVE  Append(q, e) = [i \in 1..(n + 1) |-> IF i = n + 1 THEN e ELSE q[i]] /\ Len(q) = n
<1> DEFINE S == {q[i] : i \in 1..n} \cup {e}
<1>1. q \in [1..n -> S] OBVIOUS
<1>2. q \in Seq(S) /\ e \in S /\ DOMAIN q = 1..n BY <1>1
<1> HIDE DEF S
<1>3. Len(q) = n BY <1>2
<1> QED BY <1>2, <1>3

LEMMA CreateCommitsKeeps ==
    ASSUME CatalogoInv, NEW t \in Tabs, NEW s \in Slots, CreateCommits(t, s)
    PROVE  CatalogoInv'
<1> DEFINE c == calls[t][s]
           row == [number |-> c.what.number, order |-> c.ans.order, here |-> TRUE, images |-> c.what.images]
<1>1. CASE Answered(t, s, Failed) /\ UNCHANGED <<lotes, raced>>
  BY <1>1, QuietAnswered, QuietKeeps DEF CatalogoInv
<1>2. CASE /\ Answered(t, s, [op |-> "lote", id |-> Len(lotes) + 1, images |-> c.what.images])
           /\ lotes' = Append(lotes, row)
           /\ raced' = (raced \/ Reading # {<<t, s>>})
  <2>1. c.what.op = "create" /\ c.phase = "read" BY DEF CreateCommits
  <2>2. IsCreate(c) BY <2>1 DEF CatalogoInv, ReadsOK, IsReorder
  <2>3. PICK n \in Nat : lotes = [i \in 1..n |-> lotes[i]] BY DEF CatalogoInv, RowsOK
  <2>4. GoodRow(row) /\ row.order = c.ans.order BY <2>2 DEF GoodRow, IsCreate
  <2> HIDE DEF row
  <2>5. lotes' = [i \in 1..(n + 1) |-> IF i = n + 1 THEN row ELSE lotes[i]] BY <1>2, <2>3, AppendRow
  <2>6. /\ DOMAIN lotes = 1..n /\ DOMAIN lotes' = 1..(n + 1)
        /\ \A i \in 1..(n + 1) : lotes'[i] = IF i = n + 1 THEN row ELSE lotes[i]
    BY <2>3, <2>5
  <2>7. RowsOK'
    <3>1. lotes' = [i \in 1..(n + 1) |-> lotes'[i]] BY <2>5
    <3>2. \A i \in 1..(n + 1) : GoodRow(lotes'[i]) BY <2>4, <2>6 DEF CatalogoInv, RowsOK
    <3> QED BY <2>6, <3>1, <3>2 DEF RowsOK, GoodRow
  <2>8. ASSUME ~raced'
        PROVE  ~raced /\ NoTies' /\ Reading = {<<t, s>>}
    <3>1. ~raced /\ Reading = {<<t, s>>} BY <1>2, <2>8
    <3>2. NoTies /\ \A i \in Live : lotes[i].order < c.ans.order
      BY <2>1, <3>1 DEF CatalogoInv, OrdersInv, StillTrue
    <3>3. \A i \in Live' : i = n + 1 \/ i \in Live BY <2>6 DEF Live
    <3>4. \A i \in Live : i # n + 1 /\ lotes'[i] = lotes[i] BY <2>6 DEF Live
    <3>5. lotes'[n + 1] = row BY <2>6
    <3>6. \A i \in Live : lotes[i].order # c.ans.order BY <2>2, <3>2 DEF IsCreate
    <3>7. NoTies' BY <2>4, <3>2, <3>3, <3>4, <3>5, <3>6 DEF NoTies
    <3> QED BY <3>1, <3>7
  <2> QED BY <1>2, <2>7, <2>8, WriteKeeps
<1> QED BY <1>1, <1>2 DEF CreateCommits

\* The places of a reorder are a permutation, so the rows it leaves alone do not collide
\* with those it writes.
LEMMA ReorderCommitsKeeps ==
    ASSUME CatalogoInv, NEW t \in Tabs, NEW s \in Slots, ReorderCommits(t, s)
    PROVE  CatalogoInv'
<1> DEFINE c == calls[t][s]
           ids == c.what.ids
           read == c.ans.orders
           Place(i) == (CHOOSE k \in DOMAIN ids : ids[k] = i) - 1
           moved == {i \in DOMAIN read : Place(i) # read[i]}
           place == [i \in DOMAIN read |-> Place(i)]
           rows == [i \in DOMAIN lotes |-> IF i \in moved THEN [lotes[i] EXCEPT !.order = Place(i)] ELSE lotes[i]]
<1>1. /\ c.phase = "read" /\ c.what.op = "reorder" /\ Answered(t, s, Done)
      /\ lotes' = rows
      /\ raced' = (raced \/ Reading # {<<t, s>>})
  BY DEF ReorderCommits
<1>2. DOMAIN ids \subseteq Int BY <1>1 DEF CatalogoInv, CallsOK, GoodCall, GoodWhat
<1>3. DOMAIN read \subseteq Range(ids) BY <1>1 DEF CatalogoInv, ReadsOK, IsCreate, IsReorder
<1>4. \A i \in DOMAIN read : \E k \in DOMAIN ids : ids[k] = i BY <1>3 DEF Range
<1>5. \A i \in DOMAIN read : place[i] \in Int BY <1>2, <1>4
<1>6. \A i, j \in DOMAIN read : i # j => place[i] # place[j]
  <2> TAKE i, j \in DOMAIN read
  <2> DEFINE k == CHOOSE m \in DOMAIN ids : ids[m] = i
             l == CHOOSE m \in DOMAIN ids : ids[m] = j
  <2>1. k \in DOMAIN ids /\ ids[k] = i /\ l \in DOMAIN ids /\ ids[l] = j BY <1>4
  <2> HIDE DEF k, l
  <2>2. k - 1 = l - 1 => k = l BY <1>2, <2>1
  <2>3. i # j => k - 1 # l - 1 BY <2>1, <2>2
  <2> QED BY <2>3 DEF k, l
<1>7. rows = [i \in DOMAIN lotes |-> IF i \in DOMAIN read /\ place[i] # read[i]
                                     THEN [lotes[i] EXCEPT !.order = place[i]] ELSE lotes[i]]
  OBVIOUS
<1> HIDE DEF place, ids, read, rows, moved
<1>8. \A i \in DOMAIN lotes : /\ GoodRow(rows[i]) /\ rows[i].here = lotes[i].here
                              /\ i \in DOMAIN read /\ read[i] = lotes[i].order => rows[i].order = place[i]
  <2> SUFFICES ASSUME NEW i \in DOMAIN lotes
               PROVE  /\ GoodRow(rows[i]) /\ rows[i].here = lotes[i].here
                      /\ i \in DOMAIN read /\ read[i] = lotes[i].order => rows[i].order = place[i]
    OBVIOUS
  <2> DEFINE r == lotes[i]
  <2>1. GoodRow(r) BY DEF CatalogoInv, RowsOK
  <2>2. CASE i \in DOMAIN read /\ place[i] # read[i]
    <3>1. rows[i] = [number |-> r.number, order |-> place[i], here |-> r.here, images |-> r.images]
      BY <1>7, <2>1, <2>2 DEF GoodRow
    <3> QED BY <1>5, <2>2, <3>1 DEF GoodRow
  <2>3. CASE ~(i \in DOMAIN read /\ place[i] # read[i]) BY <1>7, <2>1, <2>3
  <2> QED BY <2>2, <2>3
<1>9. rows = [i \in DOMAIN lotes |-> rows[i]] BY <1>7
<1>10. DOMAIN lotes' = DOMAIN lotes BY <1>1, <1>7
<1>11. RowsOK'
  <2>1. PICK n \in Nat : lotes = [i \in 1..n |-> lotes[i]] BY DEF CatalogoInv, RowsOK
  <2>2. lotes' = [i \in 1..n |-> lotes'[i]] BY <1>1, <1>9, <2>1
  <2>3. \A i \in DOMAIN lotes' : GoodRow(lotes'[i]) BY <1>1, <1>8, <1>10
  <2> QED BY <2>2, <2>3 DEF RowsOK, GoodRow
<1>12. ASSUME ~raced'
       PROVE  ~raced /\ NoTies' /\ Reading = {<<t, s>>}
  <2>1. ~raced /\ Reading = {<<t, s>>} BY <1>1, <1>12
  <2>2. Live \subseteq DOMAIN read /\ \A i \in Live : read[i] = lotes[i].order
    BY <1>1, <2>1 DEF CatalogoInv, OrdersInv, StillTrue, read
  <2>3. Live' = Live BY <1>1, <1>8, <1>10 DEF Live
  <2>4. \A i \in Live : lotes'[i].order = place[i] BY <1>1, <1>8, <2>2 DEF Live
  <2>5. NoTies' BY <1>6, <2>2, <2>3, <2>4 DEF NoTies
  <2> QED BY <2>1, <2>5
<1> QED BY <1>1, <1>11, <1>12, WriteKeeps

\* update, the photos and soft_delete: the row keeps its order, and no row comes back.
LEMMA ServeOwnedKeeps ==
    ASSUME CatalogoInv, NEW t \in Tabs, NEW s \in Slots, NEW op, NEW fits, NEW ans, NEW row,
           ServeOwned(t, s, op, fits, ans, row),
           LET l == calls[t][s].what.lote IN
           l \in Live => GoodRow(row) /\ row.order = lotes[l].order /\ (row.here => lotes[l].here)
    PROVE  CatalogoInv'
<1> DEFINE c == calls[t][s]
           l == c.what.lote
<1>1. PICK back : Answered(t, s, back) BY DEF ServeOwned
<1>2. raced' = raced BY DEF ServeOwned
<1>3. CASE lotes' = lotes BY <1>1, <1>2, <1>3, QuietAnswered, QuietKeeps DEF CatalogoInv
<1>4. CASE l \in Live /\ lotes' = [lotes EXCEPT ![l] = row]
  <2>1. PICK n \in Nat : lotes = [i \in 1..n |-> lotes[i]] BY DEF CatalogoInv, RowsOK
  <2>2. GoodRow(row) /\ row.order = lotes[l].order /\ (row.here => lotes[l].here) BY <1>4
  <2>3. l \in DOMAIN lotes BY <1>4 DEF Live
  <2> HIDE DEF l
  <2>4. /\ DOMAIN lotes' = DOMAIN lotes
        /\ \A i \in DOMAIN lotes : lotes'[i] = IF i = l THEN row ELSE lotes[i]
    BY <1>4, <2>3
  <2>5. lotes' = [i \in 1..n |-> lotes'[i]] BY <1>4, <2>1
  <2>6. \A i \in DOMAIN lotes' : GoodRow(lotes'[i]) BY <2>2, <2>4 DEF CatalogoInv, RowsOK
  <2>7. RowsOK' BY <2>5, <2>6 DEF RowsOK, GoodRow
  <2>8. Live' \subseteq Live /\ \A i \in Live : lotes'[i].order = lotes[i].order BY <2>2, <2>3, <2>4 DEF Live
  <2>9. \A d : StillTrue(d) => StillTrue(d)' BY <2>8 DEF StillTrue
  <2>10. ~raced' => ~raced /\ NoTies' BY <1>2, <2>8 DEF CatalogoInv, OrdersInv, NoTies
  <2> QED BY <1>1, <2>7, <2>9, <2>10, WriteKeeps
<1> QED BY <1>3, <1>4 DEF ServeOwned, Owned

LEMMA CatalogoProgressKeeps ==
    ASSUME CatalogoInv, CatalogoProgress
    PROVE  CatalogoInv'
<1>1. PICK t \in Tabs, s \in Slots :
        \/ ServeList(t, s) \/ CreateReads(t, s) \/ CreateCommits(t, s)
        \/ ReorderReads(t, s) \/ ReorderCommits(t, s)
        \/ ServeEdit(t, s) \/ ServePhotos(t, s) \/ ServeDelete(t, s) \/ ServeUpload(t, s)
  BY DEF CatalogoProgress
<1> DEFINE w == calls[t][s].what
           old == lotes[w.lote]
<1>2. CASE ServeList(t, s) \/ ServeUpload(t, s)
  <2>1. PICK ans : Answered(t, s, ans) BY <1>2 DEF ServeList, ServeUpload
  <2>2. UNCHANGED <<lotes, raced>> BY <1>2 DEF ServeList, ServeUpload, serverVars
  <2> QED BY <2>1, <2>2, QuietAnswered, QuietKeeps DEF CatalogoInv
<1>3. w.lote \in Live => GoodRow(old) BY DEF CatalogoInv, RowsOK, Live
<1>4. CASE ServeEdit(t, s)
  <2> DEFINE row == [old EXCEPT !.number = w.number]
  <2>1. w.lote \in Live => row = [number |-> w.number, order |-> old.order, here |-> old.here, images |-> old.images]
    BY <1>3 DEF GoodRow
  <2> HIDE DEF row
  <2>2. w.lote \in Live => GoodRow(row) /\ row.order = old.order /\ (row.here => old.here)
    BY <1>3, <2>1 DEF GoodRow
  <2>3. \E fits : ServeOwned(t, s, "edit", fits, Done, row) BY <1>4 DEF ServeEdit, row
  <2> QED BY <2>2, <2>3, ServeOwnedKeeps
<1>5. CASE ServePhotos(t, s)
  <2> DEFINE row == [old EXCEPT !.images = w.images]
  <2>1. w.lote \in Live => row = [number |-> old.number, order |-> old.order, here |-> old.here, images |-> w.images]
    BY <1>3 DEF GoodRow
  <2> HIDE DEF row
  <2>2. w.lote \in Live => GoodRow(row) /\ row.order = old.order /\ (row.here => old.here)
    BY <1>3, <2>1 DEF GoodRow
  <2>3. \E ans : ServeOwned(t, s, "photos", TRUE, ans, row) BY <1>5 DEF ServePhotos, row
  <2> QED BY <2>2, <2>3, ServeOwnedKeeps
<1>6. CASE ServeDelete(t, s)
  <2> DEFINE row == [old EXCEPT !.here = FALSE]
  <2>1. \A b : w.lote \in Live => [old EXCEPT !.here = b] =
                 [number |-> old.number, order |-> old.order, here |-> b, images |-> old.images]
    BY <1>3 DEF GoodRow
  <2>2. w.lote \in Live => GoodRow(row) /\ row.order = old.order /\ (row.here => old.here)
    BY <1>3, <2>1 DEF GoodRow
  <2>3. ServeOwned(t, s, "delete", TRUE, Done, row) BY <1>6 DEF ServeDelete, row
  <2> QED BY <2>2, <2>3, ServeOwnedKeeps
<1> QED BY <1>1, <1>2, <1>4, <1>5, <1>6, CreateReadsKeeps, CreateCommitsKeeps, ReorderReadsKeeps, ReorderCommitsKeeps

LEMMA CatalogoStep ==
    ASSUME CatalogoInv, SessionInv, [Next]_vars
    PROVE  CatalogoInv'
<1>1. CASE CatalogoProgress BY <1>1, CatalogoProgressKeeps
<1>2. CASE (SessionProgress \/ SessionMoves \/ \E t \in Tabs : Reload(t)) /\ UNCHANGED serverVars
  BY <1>2, SessionQuiet, QuietKeeps DEF serverVars, CatalogoInv
<1>3. CASE ((\E s \in Slots : Arrivals(s)) \/ Choices) /\ UNCHANGED serverVars
  BY <1>3, ArrivalsFollow, QuietFollows, ChoicesQuiet, QuietKeeps DEF serverVars, CatalogoInv
<1>4. CASE (\E t \in Tabs, s \in Slots : Unheard(t, s)) /\ UNCHANGED serverVars
  BY <1>4, NoCallIsGood, QuietGoes, QuietKeeps DEF Unheard, serverVars, CatalogoInv
<1>5. CASE Freeze \/ UNCHANGED vars
  BY <1>5, SameCalls, QuietKeeps DEF Freeze, vars, serverVars, CatalogoInv
<1> QED BY <1>1, <1>2, <1>3, <1>4, <1>5 DEF Next, Progress, Moves

\* However many creations, deletions, edits and reorders any tabs ask for, two live lotes
\* have the same display_order only if two writers of it overlapped.
THEOREM TiesNeedAnOverlap == Spec => []TiesOnlyByOverlap
<1>1. CatalogoInv => TiesOnlyByOverlap BY DEF CatalogoInv, OrdersInv, NoTies, TiesOnlyByOverlap
<1> QED BY <1>1, CatalogoStarts, SessionStarts, CatalogoStep, SessionStep, PTL DEF Spec

\* The variables keep their types.
THEOREM TypeCorrect == Spec => []TypeOK
<1>1. SessionInv /\ CatalogoInv => TypeOK
  BY DEF SessionInv, SessionTypeOK, CatalogoInv, CallsOK, GoodCall, Phases, RowsOK, GoodRow, TypeOK
<1> QED BY <1>1, CatalogoStarts, SessionStarts, CatalogoStep, SessionStep, PTL DEF Spec
------------------------------------------------------------------------------
(***************************************************************************)
(* What the page shows.  What a request in flight will bring to the list.  *)
(***************************************************************************)
Call(s)     == calls[Page][s]
Underway(c) == c.phase # "idle"
Okay(c)     == Heard(c) /\ ~Refusal(c)
IsList(c)   == Underway(c) /\ c.what.op = "list"
IsOrder(c)  == Underway(c) /\ c.what.op = "reorder"
IsStaged(c) == Underway(c) /\ c.what.op \in {"upload", "photos"} /\ c.what.mount = 0

\* A request of the panel while it saves.
OfThePanel(c) == \/ IsStaged(c)
                 \/ Underway(c) /\ c.what.op = "edit"
                 \/ Underway(c) /\ c.what.op = "create" /\ c.what.by = "drawer"

\* What the page will do when it hears the answer is load the list.
WillLoad(c) == IsStaged(c) \/ (Okay(c) /\ c.what.op \in Writes \ {"reorder"})
Owed        == \E s \in Slots : WillLoad(Call(s))

\* What the list may show.
Right == {[k \in DOMAIN q |-> Shown(q[k])] : q \in Listings}

\* A new order is shown; the one it replaces is right until the server has changed its own.
OrderStands(c) ==
    /\ page.list = "ready"
    /\ \E n \in Nat : c.what.ids = [k \in 1..n |-> c.what.ids[k]]
    /\ page.rows = [k \in DOMAIN c.what.ids |-> Shown(c.what.ids[k])]
    /\ IF Okay(c) THEN page.rows \in Right ELSE c.what.kept \in Right
    /\ c.phase = "read" => /\ c.ans.orders = [i \in Live |-> lotes[i].order]
                           /\ Range(c.what.ids) = Live /\ Len(c.what.ids) = Cardinality(Live)

PageShape ==
    /\ DOMAIN page = {"open", "rows", "list", "load"} /\ page.load \in Nat
    /\ page.open => DOMAIN drawer = {"mode", "lote", "number", "saved", "busy", "step", "shows", "images", "mount"}

\* The panel waits for one request at a time, and the loads are numbered.
PanelInv ==
    /\ PageShape
    /\ page.open =>
         /\ \A s \in Slots : IsList(Call(s)) => Call(s).what.load \in 0..page.load
         /\ \A s \in Slots : OfThePanel(Call(s)) => drawer.busy = TRUE
         /\ \A s, r \in Slots : OfThePanel(Call(s)) /\ OfThePanel(Call(r)) => s = r
         /\ drawer.busy = TRUE => drawer.mode # "closed"

ListNow ==
    /\ ~Overtaken
    /\ \A s \in Slots : IsOrder(Call(s)) => OrderStands(Call(s))
    /\ page.list = "ready" => page.rows \in Right \/ Owed \/ \E s \in Slots : IsOrder(Call(s))
    /\ \A s \in Slots : IsList(Call(s)) /\ Okay(Call(s)) /\ Call(s).what.load = page.load
          => Call(s).ans.rows \in Right \/ Owed
ListInv == page.open /\ ~crossed => ListNow

\* Slot s of the page goes on as d, and the others stay.
Only(s, d) == \A r \in Slots : Call(r)' = IF r = s THEN d ELSE Call(r)

LEMMA SlotGoes ==
    ASSUME CallsOK, NEW t \in Tabs, NEW s \in Slots, NEW c, Goes(t, s, c)
    PROVE  \A u \in Tabs, r \in Slots : calls'[u][r] = IF u = t /\ r = s THEN c ELSE calls[u][r]
<1>1. calls' = [calls EXCEPT ![t] = [calls[t] EXCEPT ![s] = c]] BY DEF Goes
<1>2. /\ calls = [u \in Tabs |-> [r \in Slots |-> calls[u][r]]]
      /\ calls[t] = [r \in Slots |-> calls[t][r]]
  BY DEF CallsOK
<1>3. \A u \in Tabs : calls'[u] = IF u = t THEN [calls[t] EXCEPT ![s] = c] ELSE calls[u] BY <1>1, <1>2
<1> QED BY <1>2, <1>3

LEMMA PageGoes ==
    ASSUME CallsOK, NEW s \in Slots, NEW c, Goes(Page, s, c)
    PROVE  Only(s, c)
BY SlotGoes, PageAssumption DEF Only, Call

LEMMA OtherGoes ==
    ASSUME CallsOK, NEW t \in Tabs \ {Page}, NEW s \in Slots, NEW c, Goes(t, s, c)
    PROVE  \A r \in Slots : Call(r)' = Call(r)
BY SlotGoes, PageAssumption DEF Call

IsFresh(d, w) == d.what = w /\ d.phase = "sent" /\ d.ans = Nothing /\ ~Okay(d)

LEMMA FreshIs == ASSUME NEW w, NEW p PROVE IsFresh(Fresh(w, p), w)
BY DEF IsFresh, Fresh, Okay, Heard

LEMMA PageThen ==
    ASSUME CallsOK, NEW s \in Slots, NEW w, Then(s, w)
    PROVE  \E d : IsFresh(d, w) /\ Only(s, d)
BY PageGoes, FreshIs DEF Then

LEMMA PageEnds ==
    ASSUME CallsOK, NEW s \in Slots, Ends(s)
    PROVE  \E d : ~Underway(d) /\ Only(s, d)
BY PageGoes, NoCallIsGood DEF Ends, Underway

LEMMA PageAsks ==
    ASSUME CallsOK, NEW w, Asks(w)
    PROVE  \E f \in Slots : \E d : ~Underway(Call(f)) /\ IsFresh(d, w) /\ Only(f, d)
<1>1. FreeSlot(Page) \in Slots /\ calls[Page][FreeSlot(Page)].phase = "idle"
  BY DEF FreeSlot, Asks, Asking, HasRoom
<1>2. Goes(Page, FreeSlot(Page), Fresh(w, store[Page])) BY DEF Asks, Asking, Goes
<1> QED BY <1>1, <1>2, PageGoes, FreshIs DEF Call, Underway

LEMMA OtherAsks ==
    ASSUME CallsOK, NEW t \in Tabs \ {Page}, NEW w, Asking(t, w)
    PROVE  \A r \in Slots : Call(r)' = Call(r)
<1>1. FreeSlot(t) \in Slots BY DEF FreeSlot, Asking, HasRoom
<1>2. Goes(t, FreeSlot(t), Fresh(w, store[t])) BY DEF Asking, Goes
<1> QED BY <1>1, <1>2, OtherGoes

\* A request of the page is answered, or read for.
LEMMA PageAnswered ==
    ASSUME CallsOK, NEW s \in Slots, NEW ans, NEW ph \in {"back", "read"},
           Goes(Page, s, [Call(s) EXCEPT !.phase = ph, !.ans = ans])
    PROVE  \E d : d.what = Call(s).what /\ d.phase = ph /\ d.ans = ans /\ Only(s, d)
<1>1. Goes(Page, s, Turned(Call(s), ph, ans)) BY DEF Turned
<1>2. GoodCall(Call(s)) /\ ph \in Phases BY PageAssumption DEF CallsOK, Phases, Call
<1> QED BY <1>1, <1>2, TurnedCall, PageGoes

\* What the session and the interceptor do to a request: nothing that is asked for is done,
\* and what was done is at most forgotten.
Private(c) == c.phase = "idle" \/ c.what.op \in {"read", "me"}
Turns(c, d) ==
    \/ d = c
    \/ /\ d.what = c.what /\ c.phase \notin {"idle", "read"} /\ d.phase \notin {"idle", "read"}
       /\ ~Okay(d) /\ (Okay(c) => d.ans = Lost)
    \/ Private(c) /\ Private(d)

LEMMA AfterWaitGoes ==
    ASSUME CallsOK, NEW t \in Tabs, NEW c, AfterWait(t, c)
    PROVE  \A u \in Tabs, r \in Slots :
             calls'[u][r] = IF u = t /\ calls[t][r].phase = "waits" THEN c[r] ELSE calls[u][r]
<1> DEFINE slots == [s \in Slots |-> IF s \in Waiting(t) THEN c[s] ELSE calls[t][s]]
<1>1. calls' = [calls EXCEPT ![t] = slots] BY DEF AfterWait
<1>2. \A r \in Slots : slots[r] = IF calls[t][r].phase = "waits" THEN c[r] ELSE calls[t][r] BY DEF Waiting
<1> HIDE DEF slots
<1>3. \A u \in Tabs : calls'[u] = IF u = t THEN slots ELSE calls[u] BY <1>1 DEF CallsOK
<1> QED BY <1>2, <1>3

LEMMA Answers == /\ Denied # Failed /\ Denied # Lost /\ Denied # Nothing /\ Done # Denied
                 /\ Done # Failed /\ Done # Lost /\ Failed # Lost
BY DEF Denied, Failed, Lost, Nothing, Done

LEMMA SessionTurnsAll ==
    ASSUME CallsOK, SessionInv, SessionProgress \/ SessionMoves
    PROVE  \A u \in Tabs, r \in Slots : Turns(calls[u][r], calls'[u][r])
<1> DEFINE Good == \A u \in Tabs, r \in Slots : Turns(calls[u][r], calls'[u][r])
<1>1. ASSUME NEW t \in Tabs, NEW s \in Slots, NEW c, Goes(t, s, c), Turns(calls[t][s], c)
      PROVE  Good
  BY <1>1, SlotGoes DEF Turns
<1>2. ASSUME NEW t \in Tabs, NEW s \in Slots,
             TurnAway(t, s) \/ ServeRead(t, s) \/ GivesUp(t, s) \/ LoseCall(t, s)
      PROVE  Good
  <2> DEFINE c == calls[t][s]
  <2>1. PICK ans : /\ Answered(t, s, ans)
                   /\ \/ c.phase = "sent" /\ ans \in {Denied, Failed}
                      \/ c.what.op \in {"read", "me"}
                      \/ c.phase = "back" /\ c.ans = Denied /\ ans = Failed
                      \/ c.phase = "back" /\ ans = Lost
    BY <1>2 DEF TurnAway, ServeRead, GivesUp, LoseCall
  <2> DEFINE d == Turned(c, "back", ans)
  <2>2. Goes(t, s, d) BY <2>1 DEF Answered, Turned
  <2>3. GoodCall(c) /\ "back" \in Phases BY DEF CallsOK, Phases
  <2>4. d.what = c.what /\ d.phase = "back" /\ d.ans = ans BY <2>3, TurnedCall
  <2> HIDE DEF c, d
  <2>5. Turns(c, d) BY <2>1, <2>4, Answers DEF Turns, Private, Okay, Heard, Refusal
  <2> QED BY <1>1, <2>2, <2>5 DEF c
<1>3. ASSUME NEW t \in Tabs, NEW s \in Slots, ReadArrives(t, s)
      PROVE  Good
  <2>1. Goes(t, s, NoCall) /\ Private(calls[t][s]) /\ Private(NoCall)
    BY <1>3, NoCallIsGood DEF ReadArrives, Private
  <2> QED BY <1>1, <2>1 DEF Turns
<1>4. ASSUME NEW t \in Tabs, NEW s \in Slots, Unauthorized(t, s)
      PROVE  Good
  <2> DEFINE c == calls[t][s]
             d == [c EXCEPT !.phase = "waits", !.retried = TRUE]
  <2>1. Goes(t, s, d) /\ c.phase = "back" /\ c.ans = Denied BY <1>4 DEF Unauthorized
  <2>2. GoodCall(c) BY DEF CallsOK
  <2> HIDE DEF c
  <2>3. d.what = c.what /\ d.phase = "waits"
    <3> DEFINE e == [what |-> c.what, pair |-> c.pair, retried |-> c.retried, phase |-> "waits", ans |-> c.ans]
    <3>1. [c EXCEPT !.phase = "waits"] = e BY <2>2 DEF GoodCall
    <3>2. d = [[c EXCEPT !.phase = "waits"] EXCEPT !.retried = TRUE] OBVIOUS
    <3>3. d = [e EXCEPT !.retried = TRUE] BY <3>1, <3>2
    <3> HIDE DEF d
    <3> QED BY <3>3
  <2> HIDE DEF d
  <2>4. Turns(c, d) BY <2>1, <2>3 DEF Turns, Okay, Heard
  <2> QED BY <1>1, <2>1, <2>4 DEF c
<1>5. ASSUME NEW t \in Tabs, NEW c, AfterWait(t, c),
             \A s \in Slots : calls[t][s].phase = "waits" => Turns(calls[t][s], c[s])
      PROVE  Good
  BY <1>5, AfterWaitGoes DEF Turns
<1>6. ASSUME NEW x \in exchanges, x.by \in Tabs, Refreshed(x)
      PROVE  Good
  <2> DEFINE t == x.by
             c == [s \in Slots |-> [calls[t][s] EXCEPT !.phase = "sent", !.pair = x.got, !.ans = Nothing]]
  <2>1. AfterWait(t, c) BY <1>6 DEF Refreshed
  <2>2. ASSUME NEW s \in Slots, calls[t][s].phase = "waits"
        PROVE  Turns(calls[t][s], c[s])
    <3> DEFINE o == calls[t][s]
               d == [o EXCEPT !.phase = "sent", !.pair = x.got, !.ans = Nothing]
    <3>1. c[s] = d OBVIOUS
    <3>2. GoodCall(o) /\ o.phase = "waits" BY <1>6, <2>2 DEF CallsOK
    <3> HIDE DEF o
    <3>3. d.what = o.what /\ d.phase = "sent"
      <4> DEFINE e == [what |-> o.what, pair |-> o.pair, retried |-> o.retried, phase |-> "sent", ans |-> o.ans]
                 f == [what |-> o.what, pair |-> x.got, retried |-> o.retried, phase |-> "sent", ans |-> o.ans]
      <4>1. [o EXCEPT !.phase = "sent"] = e BY <3>2 DEF GoodCall
      <4>2. [e EXCEPT !.pair = x.got] = f OBVIOUS
      <4>3. d = [[[o EXCEPT !.phase = "sent"] EXCEPT !.pair = x.got] EXCEPT !.ans = Nothing] OBVIOUS
      <4>4. d = [f EXCEPT !.ans = Nothing] BY <4>1, <4>2, <4>3
      <4> HIDE DEF d
      <4> QED BY <4>4
    <3> HIDE DEF d, c
    <3>4. Turns(o, d) BY <3>2, <3>3 DEF Turns, Okay, Heard
    <3> QED BY <3>1, <3>4 DEF o
  <2> HIDE DEF c
  <2> QED BY <1>5, <1>6, <2>1, <2>2
<1>7. ASSUME NEW x \in exchanges, x.by \in Tabs, RefreshFailed(x)
      PROVE  Good
  <2> DEFINE t == x.by
             c == [s \in Slots |-> Turned(calls[t][s], "back", Failed)]
  <2>1. AfterWait(t, c) BY <1>7 DEF RefreshFailed, Turned
  <2>2. ASSUME NEW s \in Slots, calls[t][s].phase = "waits"
        PROVE  Turns(calls[t][s], c[s])
    <3>1. GoodCall(calls[t][s]) /\ "back" \in Phases BY <1>7 DEF CallsOK, Phases
    <3>2. c[s].what = calls[t][s].what /\ c[s].phase = "back" /\ c[s].ans = Failed BY <3>1, TurnedCall
    <3> HIDE DEF c
    <3> QED BY <2>2, <3>2 DEF Turns, Okay, Heard, Refusal
  <2> HIDE DEF c
  <2> QED BY <1>5, <1>7, <2>1, <2>2
<1>8. UNCHANGED calls => Good BY DEF Turns
<1>9. ASSUME NEW x, Unread(x) \/ Present(x) \/ Revoke(x) \/ IssueTokens(x) \/ LoseExchange(x)
      PROVE  Good
  BY <1>8, <1>9 DEF Unread, Present, Revoke, IssueTokens, LoseExchange
<1>10. ASSUME NEW p, ServeLogout(p) \/ Age(p) \/ LoseLogout(p)
      PROVE  Good
  BY <1>8, <1>10 DEF ServeLogout, Age, LoseLogout
<1>11. ASSUME NEW t \in Tabs, ServeLogin(t) \/ Logout(t) \/ AskLogin(t) \/ LoseLogin(t)
      PROVE  Good
  BY <1>8, <1>11 DEF ServeLogin, Logout, AskLogin, LoseLogin
<1>12. ASSUME NEW t \in Tabs, Ask(t) \/ LoginArrives(t)
      PROVE  Good
  <2>1. FreeSlot(t) \in Slots /\ calls[t][FreeSlot(t)].phase = "idle"
    BY <1>12 DEF Ask, Asking, LoginArrives, HasRoom, FreeSlot
  <2>2. PICK w, p : Goes(t, FreeSlot(t), Fresh(w, p)) /\ w.op \in {"read", "me"}
    <3>1. CASE Ask(t)
      <4>1. Goes(t, FreeSlot(t), Fresh([op |-> "read"], store[t])) BY <3>1 DEF Ask, Asking, Goes
      <4> QED BY <4>1
    <3>2. CASE LoginArrives(t)
      <4>1. Goes(t, FreeSlot(t), Fresh([op |-> "me"], login[t].got)) BY <3>2 DEF LoginArrives
      <4> QED BY <4>1
    <3> QED BY <1>12, <3>1, <3>2
  <2>3. Private(Fresh(w, p)) /\ Private(calls[t][FreeSlot(t)]) BY <2>1, <2>2, FreshIs DEF Private, IsFresh
  <2> QED BY <1>1, <2>1, <2>2, <2>3 DEF Turns
<1>13. \A x \in exchanges : Refreshed(x) \/ RefreshFailed(x) => x.by \in Tabs
  BY DEF Refreshed, RefreshFailed, SessionInv, SessionTypeOK, Exchange
<1> HIDE DEF Good
<1>14. ASSUME SessionProgress PROVE Good
  BY <1>14, <1>2, <1>3, <1>4, <1>6, <1>7, <1>9, <1>10, <1>11, <1>12, <1>13 DEF SessionProgress
<1>15. ASSUME SessionMoves PROVE Good
  BY <1>15, <1>2, <1>9, <1>10, <1>11, <1>12 DEF SessionMoves
<1> QED BY <1>14, <1>15 DEF Good

LEMMA SessionTurns ==
    ASSUME CallsOK, SessionInv, SessionProgress \/ SessionMoves \/ \E t \in Tabs \ {Page} : Reload(t)
    PROVE  \A s \in Slots : Turns(Call(s), Call(s)')
<1>1. ASSUME NEW t \in Tabs \ {Page}, Reload(t)
      PROVE  \A s \in Slots : Turns(Call(s), Call(s)')
  <2>1. calls'[Page] = calls[Page] BY <1>1, PageAssumption DEF Reload, CallsOK
  <2> QED BY <2>1 DEF Turns, Call
<1> QED BY <1>1, SessionTurnsAll, PageAssumption DEF Call

------------------------------------------------------------------------------
LEMMA PanelStarts == ASSUME Init PROVE PanelInv
<1>1. /\ DOMAIN page = {"open", "rows", "list", "load"} /\ page.load = 0
      /\ DOMAIN drawer = {"mode", "lote", "number", "saved", "busy", "step", "shows", "images", "mount"}
      /\ drawer.busy = FALSE
  BY DEF Init, PageInit, Closed
<1>2. \A s \in Slots : Call(s) = NoCall BY PageAssumption DEF Init, SessionInit, Call
<1> QED BY <1>1, <1>2, NoCallIsGood DEF PanelInv, PageShape, IsList, OfThePanel, IsStaged, Underway

\* No request of the panel begins.
LEMMA PanelQuiet ==
    ASSUME PanelInv, PageShape',
           page'.open => /\ page.open /\ page'.load = page.load
                         /\ drawer'.busy = TRUE <=> drawer.busy = TRUE
                         /\ drawer'.busy = TRUE => drawer'.mode # "closed",
           \A s \in Slots : /\ IsList(Call(s)') => IsList(Call(s)) /\ Call(s)'.what = Call(s).what
                            /\ OfThePanel(Call(s)') => OfThePanel(Call(s))
    PROVE  PanelInv'
BY DEF PanelInv

\* One slot of the page goes on as d.
LEMMA PanelKeeps ==
    ASSUME PanelInv, PageShape', page'.open => page.open, page'.load >= page.load,
           NEW s \in Slots, NEW d, Only(s, d),
           IsList(d) => d.what.load \in 0..page'.load,
           drawer'.busy = TRUE => drawer'.mode # "closed",
           \/ /\ OfThePanel(d) => OfThePanel(Call(s))
              /\ drawer'.busy = TRUE <=> drawer.busy = TRUE
           \/ OfThePanel(Call(s)) /\ ~OfThePanel(d)
           \/ drawer.busy # TRUE /\ drawer'.busy = TRUE
    PROVE  PanelInv'
<1> SUFFICES ASSUME page'.open
             PROVE  /\ \A r \in Slots : IsList(Call(r)') => Call(r)'.what.load \in 0..page'.load
                    /\ \A r \in Slots : OfThePanel(Call(r)') => drawer'.busy = TRUE
                    /\ \A r, q \in Slots : OfThePanel(Call(r)') /\ OfThePanel(Call(q)') => r = q
  BY DEF PanelInv
<1>1. \A r \in Slots \ {s} : Call(r)' = Call(r) BY DEF Only
<1>2. Call(s)' = d BY DEF Only
<1>3. \A r \in Slots : IsList(Call(r)') => Call(r)'.what.load \in 0..page'.load
  <2>1. page.load \in Nat /\ page'.load \in Nat BY DEF PanelInv, PageShape
  <2> QED BY <1>1, <1>2, <2>1 DEF PanelInv
<1>4. CASE (OfThePanel(d) => OfThePanel(Call(s))) /\ (drawer'.busy = TRUE <=> drawer.busy = TRUE)
  BY <1>1, <1>2, <1>3, <1>4 DEF PanelInv
<1>5. CASE OfThePanel(Call(s)) /\ ~OfThePanel(d)
  BY <1>1, <1>2, <1>3, <1>5 DEF PanelInv
<1>6. CASE drawer.busy # TRUE /\ drawer'.busy = TRUE
  BY <1>1, <1>2, <1>3, <1>6 DEF PanelInv
<1> QED BY <1>4, <1>5, <1>6

LEMMA TurnsKeepPanel ==
    ASSUME NEW c, NEW d, Turns(c, d)
    PROVE  /\ IsList(d) => IsList(c) /\ d.what = c.what
           /\ OfThePanel(d) => OfThePanel(c)
BY DEF Turns, Private, IsList, OfThePanel, IsStaged, Underway

\* What the server does to a request.
Served(c, d) == d = c \/ (Underway(c) /\ Underway(d) /\ d.what = c.what)

LEMMA ServerTurns ==
    ASSUME CallsOK, CatalogoProgress
    PROVE  \A s \in Slots : Served(Call(s), Call(s)')
<1> DEFINE Goes2(t, s) == \E ph \in {"back", "read"} : \E ans :
                             Goes(t, s, [calls[t][s] EXCEPT !.phase = ph, !.ans = ans])
<1>1. PICK t \in Tabs, s \in Slots : Goes2(t, s) /\ Underway(calls[t][s])
  <2>1. ASSUME NEW t \in Tabs, NEW s \in Slots
        PROVE  /\ \A ans : Answered(t, s, ans) => Goes2(t, s)
               /\ \A ans : Reads(t, s, ans) => Goes2(t, s)
    BY DEF Answered, Reads
  <2> HIDE DEF Goes2
  <2>2. ASSUME NEW t \in Tabs, NEW s \in Slots,
               ServeList(t, s) \/ CreateReads(t, s) \/ CreateCommits(t, s) \/ ReorderReads(t, s)
                 \/ ReorderCommits(t, s) \/ ServeUpload(t, s)
        PROVE  Goes2(t, s) /\ Underway(calls[t][s])
    BY <2>1, <2>2 DEF ServeList, CreateReads, CreateCommits, ReorderReads, ReorderCommits, ServeUpload, Welcome, Underway
  <2>3. ASSUME NEW t \in Tabs, NEW s \in Slots, ServeEdit(t, s) \/ ServePhotos(t, s) \/ ServeDelete(t, s)
        PROVE  Goes2(t, s) /\ Underway(calls[t][s])
    BY <2>1, <2>3 DEF ServeEdit, ServePhotos, ServeDelete, ServeOwned, Welcome, Underway
  <2> QED BY <2>2, <2>3 DEF CatalogoProgress
<1>2. CASE t = Page
  <2>1. PICK ph \in {"back", "read"} : \E ans : Goes(Page, s, [Call(s) EXCEPT !.phase = ph, !.ans = ans])
    BY <1>1, <1>2 DEF Call
  <2>2. PICK d : d.what = Call(s).what /\ Underway(d) /\ Only(s, d)
    BY <2>1, PageAnswered DEF Underway
  <2> QED BY <1>1, <1>2, <2>2 DEF Served, Only, Call
<1>3. CASE t # Page BY <1>1, <1>3, OtherGoes DEF Served
<1> QED BY <1>2, <1>3

LEMMA ServedKeepPanel ==
    ASSUME NEW c, NEW d, Served(c, d)
    PROVE  /\ IsList(d) => IsList(c) /\ d.what = c.what
           /\ OfThePanel(d) => OfThePanel(c)
BY DEF Served, IsList, OfThePanel, IsStaged, Underway

\* The load that an answer, or a choice, brings.
LEMMA LoadingIs ==
    ASSUME PanelInv
    PROVE  /\ DOMAIN Loading = {"open", "rows", "list", "load"}
           /\ Loading.open = page.open /\ Loading.rows = page.rows
           /\ Loading.list = "loading" /\ Loading.load = page.load + 1
BY DEF PanelInv, PageShape, Loading

LEMMA ReloadKeepsPanel ==
    ASSUME CallsOK, PanelInv, page.open, NEW s \in Slots, Reload1(s),
           DOMAIN drawer' = DOMAIN drawer,
           drawer'.busy = TRUE => drawer'.mode # "closed",
           (drawer'.busy = TRUE <=> drawer.busy = TRUE) \/ OfThePanel(Call(s))
    PROVE  PanelInv'
<1>1. PICK d : IsFresh(d, [op |-> "list", load |-> page.load + 1]) /\ Only(s, d)
  BY PageThen DEF Reload1
<1>2. d.what.op = "list" /\ d.what.load = page.load + 1 BY <1>1 DEF IsFresh
<1>3. ~OfThePanel(d) BY <1>2 DEF OfThePanel, IsStaged
<1>4. page' = Loading BY DEF Reload1
<1>5. page.load \in Nat /\ page'.load = page.load + 1 /\ page'.open = page.open
  BY <1>4, LoadingIs DEF PanelInv, PageShape
<1>6. PageShape'
  <2>1. DOMAIN page' = {"open", "rows", "list", "load"} BY <1>4, LoadingIs
  <2>2. DOMAIN drawer' = {"mode", "lote", "number", "saved", "busy", "step", "shows", "images", "mount"}
    BY DEF PanelInv, PageShape
  <2>3. page'.load \in Nat BY <1>5
  <2> QED BY <2>1, <2>2, <2>3 DEF PageShape
<1>7. page'.load >= page.load /\ d.what.load \in 0..page'.load BY <1>2, <1>5
<1>8. CASE drawer'.busy = TRUE <=> drawer.busy = TRUE
  BY <1>1, <1>3, <1>5, <1>6, <1>7, <1>8, PanelKeeps
<1>9. CASE OfThePanel(Call(s))
  BY <1>1, <1>3, <1>5, <1>6, <1>7, <1>9, PanelKeeps
<1> QED BY <1>8, <1>9

LEMMA ArrivalsKeepPanel ==
    ASSUME CallsOK, PanelInv, page.open, NEW s \in Slots, Arrivals(s)
    PROVE  PanelInv'
<1>1. /\ page.load \in Nat /\ DOMAIN page = {"open", "rows", "list", "load"}
      /\ DOMAIN drawer = {"mode", "lote", "number", "saved", "busy", "step", "shows", "images", "mount"}
      /\ drawer.busy = TRUE => drawer.mode # "closed"
      /\ PageShape
  BY DEF PanelInv, PageShape
<1>2. DOMAIN Closed = DOMAIN drawer /\ Closed.busy = FALSE /\ Underway(Call(s)) = (Call(s).phase # "idle")
  BY <1>1 DEF Closed, Underway
<1>3. ASSUME Ends(s), page'.open = page.open, page'.load = page.load, DOMAIN page' = DOMAIN page,
             DOMAIN drawer' = DOMAIN drawer, drawer'.busy = TRUE => drawer'.mode # "closed",
             (drawer'.busy = TRUE <=> drawer.busy = TRUE) \/ OfThePanel(Call(s))
      PROVE  PanelInv'
  <2>1. PICK d : ~Underway(d) /\ Only(s, d) BY <1>3, PageEnds
  <2>2. ~OfThePanel(d) /\ ~IsList(d) BY <2>1 DEF OfThePanel, IsStaged, IsList
  <2>3. PageShape' BY <1>1, <1>3 DEF PageShape
  <2>4. page'.load >= page.load BY <1>1, <1>3
  <2>5. CASE drawer'.busy = TRUE <=> drawer.busy = TRUE
    BY <1>3, <2>1, <2>2, <2>3, <2>4, <2>5, PanelKeeps
  <2>6. CASE OfThePanel(Call(s))
    BY <1>3, <2>1, <2>2, <2>3, <2>4, <2>6, PanelKeeps
  <2> QED BY <1>3, <2>5, <2>6
<1>4. CASE ListArrives(s)
  <2>1. Ends(s) /\ UNCHANGED drawer BY <1>4 DEF ListArrives
  <2>2. page'.open = page.open /\ page'.load = page.load /\ DOMAIN page' = DOMAIN page
    BY <1>1, <1>4 DEF ListArrives
  <2> QED BY <1>1, <1>3, <2>1, <2>2
<1>5. CASE ReorderArrives(s)
  <2>1. Ends(s) /\ UNCHANGED drawer BY <1>5 DEF ReorderArrives
  <2>2. page'.open = page.open /\ page'.load = page.load /\ DOMAIN page' = DOMAIN page
    BY <1>1, <1>5 DEF ReorderArrives
  <2> QED BY <1>1, <1>3, <2>1, <2>2
<1>6. CASE DeleteArrives(s) \/ DuplicateArrives(s)
  <2>1. (Ends(s) /\ UNCHANGED page) \/ Reload1(s) BY <1>6 DEF DeleteArrives, DuplicateArrives
  <2>2. UNCHANGED drawer BY <1>6 DEF DeleteArrives, DuplicateArrives
  <2> QED BY <1>1, <1>3, <2>1, <2>2, ReloadKeepsPanel
<1>7. ASSUME NotSaved(s), OfThePanel(Call(s)) PROVE PanelInv'
  <2>1. Ends(s) /\ UNCHANGED page /\ drawer' = [drawer EXCEPT !.busy = FALSE] BY <1>7 DEF NotSaved
  <2>2. DOMAIN drawer' = DOMAIN drawer /\ drawer'.busy = FALSE BY <1>1, <2>1
  <2> QED BY <1>1, <1>3, <1>7, <2>1, <2>2
<1>8. ASSUME NEW w, Saved(s, w), OfThePanel(Call(s)) PROVE PanelInv'
  <2>1. Reload1(s) BY <1>8 DEF Saved
  <2>2. DOMAIN drawer' = DOMAIN drawer /\ drawer'.busy = FALSE
    <3>1. CASE w.again
      <4>1. PICK saved, number : drawer' = [drawer EXCEPT !.busy = FALSE, !.step = "photos", !.saved = saved, !.number = number]
        BY <1>8, <3>1 DEF Saved
      <4> QED BY <1>1, <4>1
    <3>2. CASE ~w.again BY <1>2, <1>8, <3>2 DEF Saved
    <3> QED BY <3>1, <3>2
  <2> QED BY <1>8, <2>1, <2>2, ReloadKeepsPanel
<1>9. ASSUME Heard(Call(s)) PROVE Underway(Call(s)) BY <1>9 DEF Heard, Underway
<1>10. ASSUME NEW w, Then(s, w), UNCHANGED <<page, drawer>>, w.op # "list",
              w.op \notin {"edit", "create"}, w.op \in {"upload", "photos"} /\ w.mount = 0 => OfThePanel(Call(s))
       PROVE  PanelInv'
  <2>1. PICK d : IsFresh(d, w) /\ Only(s, d) BY <1>10, PageThen
  <2>2. d.what = w BY <2>1 DEF IsFresh
  <2>3. ~IsList(d) /\ (OfThePanel(d) => OfThePanel(Call(s))) BY <1>10, <2>2 DEF IsList, OfThePanel, IsStaged
  <2>4. PageShape' /\ page'.load >= page.load BY <1>1, <1>10 DEF PageShape
  <2> QED BY <1>1, <1>10, <2>1, <2>3, <2>4, PanelKeeps
<1>11. CASE CreateArrives(s)
  <2> DEFINE c == calls[Page][s]
             w == [op |-> "upload", lote |-> c.ans.id, mount |-> 0, images |-> <<>>,
                   files |-> c.what.files, number |-> c.what.number, again |-> c.what.again]
  <2>1. OfThePanel(Call(s)) BY <1>9, <1>11 DEF CreateArrives, Hears, OfThePanel, Call
  <2>2. NotSaved(s) \/ Saved(s, c.what) \/ (Then(s, w) /\ UNCHANGED <<page, drawer>>) BY <1>11 DEF CreateArrives
  <2>3. w.op = "upload" OBVIOUS
  <2> HIDE DEF w, c
  <2> QED BY <1>7, <1>8, <1>10, <2>1, <2>2, <2>3
<1>12. CASE StagedArrive(s)
  <2> DEFINE c == calls[Page][s]
             w(images) == [op |-> "photos", lote |-> c.what.lote, mount |-> 0, images |-> images,
                           number |-> c.what.number, again |-> c.what.again]
  <2>1. OfThePanel(Call(s)) BY <1>9, <1>12 DEF StagedArrive, Hears, OfThePanel, IsStaged, Call
  <2>2. Saved(s, c.what) \/ \E images : Then(s, w(images)) /\ UNCHANGED <<page, drawer>> BY <1>12 DEF StagedArrive
  <2>3. \A images : w(images).op = "photos" OBVIOUS
  <2> HIDE DEF w, c
  <2> QED BY <1>8, <1>10, <2>1, <2>2, <2>3
<1>13. CASE CoverArrives(s)
  <2>1. OfThePanel(Call(s)) BY <1>9, <1>13 DEF CoverArrives, Hears, OfThePanel, IsStaged, Call, What
  <2> QED BY <1>7, <1>8, <1>13, <2>1 DEF CoverArrives
<1>14. CASE EditArrives(s)
  <2>1. OfThePanel(Call(s)) BY <1>9, <1>14 DEF EditArrives, Hears, OfThePanel, Call
  <2>2. NotSaved(s) \/ (Reload1(s) /\ drawer' = Closed) BY <1>14 DEF EditArrives
  <2> QED BY <1>2, <1>7, <2>1, <2>2, ReloadKeepsPanel
<1>15. CASE UploadsArrive(s)
  <2> DEFINE w(m, lote, images) == [op |-> "photos", lote |-> lote, mount |-> m, images |-> images, kept |-> refs[m]]
  <2>1. UNCHANGED <<page, drawer>> BY <1>15 DEF UploadsArrive
  <2>2. Ends(s) \/ \E m, lote, images : m # 0 /\ Then(s, w(m, lote, images)) BY <1>15 DEF UploadsArrive, Persists
  <2>3. \A m, lote, images : w(m, lote, images).op = "photos" /\ w(m, lote, images).mount = m OBVIOUS
  <2> HIDE DEF w
  <2>4. CASE Ends(s) BY <1>1, <1>3, <2>1, <2>4
  <2>5. ASSUME NEW m, NEW lote, NEW images, m # 0, Then(s, w(m, lote, images)) PROVE PanelInv'
    BY <1>10, <2>1, <2>3, <2>5
  <2> QED BY <2>2, <2>4, <2>5
<1>16. CASE PhotosArrive(s)
  <2>1. (Ends(s) /\ UNCHANGED page) \/ Reload1(s) BY <1>16 DEF PhotosArrive
  <2>2. DOMAIN drawer' = DOMAIN drawer /\ drawer'.busy = drawer.busy /\ drawer'.mode = drawer.mode
    <3>1. UNCHANGED drawer \/ \E shows, images, mount : drawer' = [drawer EXCEPT !.shows = shows, !.images = images, !.mount = mount]
      BY <1>16 DEF PhotosArrive
    <3>2. ASSUME NEW shows, NEW images, NEW mount,
                 drawer' = [drawer EXCEPT !.shows = shows, !.images = images, !.mount = mount]
          PROVE  DOMAIN drawer' = DOMAIN drawer /\ drawer'.busy = drawer.busy /\ drawer'.mode = drawer.mode
      BY <1>1, <3>2
    <3> QED BY <3>1, <3>2
  <2>3. CASE Ends(s) /\ UNCHANGED page BY <1>1, <1>3, <2>2, <2>3
  <2>4. CASE Reload1(s) BY <1>1, <2>2, <2>4, ReloadKeepsPanel
  <2> QED BY <2>1, <2>3, <2>4
<1> QED BY <1>4, <1>5, <1>6, <1>11, <1>12, <1>13, <1>14, <1>15, <1>16 DEF Arrivals

\* The panel, or the list, asks.
LEMMA AskKeepsPanel ==
    ASSUME CallsOK, PanelInv, page.open, NEW w, Asks(w), PageShape', page'.open = page.open,
           page'.load >= page.load, w.op = "list" => w.load \in 0..page'.load,
           drawer'.busy = TRUE => drawer'.mode # "closed",
           \/ /\ w.op # "edit" /\ (w.op = "create" => w.by # "drawer")
              /\ w.op \in {"upload", "photos"} => w.mount # 0
              /\ drawer'.busy = TRUE <=> drawer.busy = TRUE
           \/ drawer.busy # TRUE /\ drawer'.busy = TRUE
    PROVE  PanelInv'
<1>1. PICK f \in Slots : \E d : ~Underway(Call(f)) /\ IsFresh(d, w) /\ Only(f, d) BY PageAsks
<1>a. PICK d : ~Underway(Call(f)) /\ IsFresh(d, w) /\ Only(f, d) BY <1>1
<1>2. d.what = w BY <1>a DEF IsFresh
<1>3. IsList(d) => d.what.load \in 0..page'.load BY <1>2 DEF IsList
<1>4. CASE /\ w.op # "edit" /\ (w.op = "create" => w.by # "drawer")
           /\ w.op \in {"upload", "photos"} => w.mount # 0
           /\ drawer'.busy = TRUE <=> drawer.busy = TRUE
  <2>1. ~OfThePanel(d) BY <1>2, <1>4 DEF OfThePanel, IsStaged
  <2> QED BY <1>a, <1>3, <1>4, <2>1, PanelKeeps
<1>5. CASE drawer.busy # TRUE /\ drawer'.busy = TRUE BY <1>a, <1>3, <1>5, PanelKeeps
<1> QED BY <1>4, <1>5

LEMMA CallsStayPanel ==
    ASSUME PanelInv, PageShape', UNCHANGED calls,
           page'.open => /\ page.open /\ page'.load = page.load
                         /\ drawer'.busy = TRUE <=> drawer.busy = TRUE
                         /\ drawer'.busy = TRUE => drawer'.mode # "closed"
    PROVE  PanelInv'
BY PanelQuiet DEF Call

LEMMA ChoicesKeepPanel ==
    ASSUME CallsOK, PanelInv, page.open, Choices
    PROVE  PanelInv'
<1>1. /\ page.load \in Nat /\ DOMAIN page = {"open", "rows", "list", "load"}
      /\ DOMAIN drawer = {"mode", "lote", "number", "saved", "busy", "step", "shows", "images", "mount"}
      /\ drawer.busy = TRUE => drawer.mode # "closed"
      /\ PageShape
  BY DEF PanelInv, PageShape
<1>0. page.load \in Nat BY <1>1
<1>2. DOMAIN Closed = DOMAIN drawer /\ Closed.busy = FALSE BY <1>1 DEF Closed
<1>3. ASSUME UNCHANGED <<calls, page>>, DOMAIN drawer' = DOMAIN drawer,
             drawer'.busy = TRUE <=> drawer.busy = TRUE,
             drawer'.busy = TRUE => drawer'.mode # "closed"
      PROVE  PanelInv'
  <2>1. PageShape' BY <1>1, <1>3 DEF PageShape
  <2> QED BY <1>3, <2>1, CallsStayPanel
<1>4. ASSUME drawer.mode = "closed" PROVE drawer.busy # TRUE BY <1>1, <1>4
<1>5. CASE OpenCreate
  <2>1. PICK number : drawer' = [Closed EXCEPT !.mode = "create", !.number = number] BY <1>5 DEF OpenCreate
  <2>2. DOMAIN drawer' = DOMAIN drawer /\ drawer'.busy = FALSE BY <1>2, <2>1 DEF Closed
  <2>3. UNCHANGED <<calls, page>> /\ drawer.mode = "closed" BY <1>5 DEF OpenCreate, ListInView
  <2> QED BY <1>3, <1>4, <2>2, <2>3
<1>6. ASSUME NEW k, OpenEdit(k) PROVE PanelInv'
  <2>1. PICK lote, number, shows, images, mount :
          drawer' = [Closed EXCEPT !.mode = "edit", !.lote = lote, !.number = number, !.shows = shows,
                                   !.images = images, !.mount = mount]
    BY <1>6 DEF OpenEdit
  <2>2. DOMAIN drawer' = DOMAIN drawer /\ drawer'.busy = FALSE BY <1>2, <2>1 DEF Closed
  <2>3. UNCHANGED <<calls, page>> /\ drawer.mode = "closed" BY <1>6 DEF OpenEdit, ListInView
  <2> QED BY <1>3, <1>4, <2>2, <2>3
<1>7. CASE CloseDrawer
  <2>1. drawer' = Closed /\ UNCHANGED <<calls, page>> /\ drawer.busy # TRUE BY <1>7 DEF CloseDrawer
  <2> QED BY <1>2, <1>3, <2>1
<1>8. CASE LeavePhotos \/ BackToPhotos
  <2>1. \E step, mount : drawer' = [drawer EXCEPT !.step = step] \/ drawer' = [drawer EXCEPT !.step = step, !.mount = mount]
    BY <1>8 DEF LeavePhotos, BackToPhotos
  <2>2. UNCHANGED <<calls, page>> BY <1>8 DEF LeavePhotos, BackToPhotos
  <2>3. DOMAIN drawer' = DOMAIN drawer /\ drawer'.busy = drawer.busy /\ drawer'.mode = drawer.mode BY <1>1, <2>1
  <2> QED BY <1>1, <1>3, <2>2, <2>3
<1>9. CASE TryAgain
  <2> DEFINE w == [op |-> "list", load |-> page.load + 1]
  <2>1. Asks(w) /\ page' = Loading /\ UNCHANGED drawer BY <1>9 DEF TryAgain
  <2>2. w.op = "list" /\ w.load = page.load + 1 OBVIOUS
  <2> HIDE DEF w
  <2>3. page'.load = page.load + 1 /\ page'.open = page.open /\ DOMAIN page' = DOMAIN page
    BY <1>1, <2>1, LoadingIs
  <2>5. PageShape' BY <1>1, <2>1, <2>3 DEF PageShape
  <2>4. page'.load >= page.load /\ w.load \in 0..page'.load BY <1>1, <2>2, <2>3
  <2> QED BY <1>1, <2>1, <2>2, <2>3, <2>4, <2>5, AskKeepsPanel
<1>10. ASSUME NEW w, Asks(w), UNCHANGED <<page, drawer>>, w.op \notin {"list", "edit"},
              w.op = "create" => w.by # "drawer", w.op \in {"upload", "photos"} => w.mount # 0
       PROVE  PanelInv'
  <2>1. PageShape' /\ page'.load >= page.load BY <1>1, <1>10 DEF PageShape
  <2> QED BY <1>1, <1>10, <2>1, AskKeepsPanel
<1>11. ASSUME NEW k, MoveLote(k) PROVE PanelInv'
  <2>1. PICK ids, kept, rows : /\ Asks([op |-> "reorder", ids |-> ids, kept |-> kept])
                               /\ page' = [page EXCEPT !.rows = rows] /\ UNCHANGED drawer
    BY <1>11 DEF MoveLote
  <2> DEFINE w == [op |-> "reorder", ids |-> ids, kept |-> kept]
  <2>2. Asks(w) /\ w.op = "reorder" BY <2>1
  <2> HIDE DEF w
  <2>3. DOMAIN page' = DOMAIN page /\ page'.open = page.open /\ page'.load = page.load BY <1>1, <2>1
  <2>5. page'.load >= page.load BY <1>0, <2>3
  <2>4. PageShape' BY <1>1, <2>1, <2>3 DEF PageShape
  <2> QED BY <1>1, <2>1, <2>2, <2>3, <2>4, <2>5, AskKeepsPanel
<1>12. ASSUME NEW k, DeleteLote(k) PROVE PanelInv'
  <2> DEFINE w == [op |-> "delete", lote |-> page.rows[k].id]
  <2>1. Asks(w) /\ UNCHANGED <<page, drawer>> /\ w.op = "delete" BY <1>12 DEF DeleteLote
  <2> HIDE DEF w
  <2> QED BY <1>10, <2>1
<1>13. ASSUME NEW k, DuplicateLote(k) PROVE PanelInv'
  <2>1. PICK number, images : Asks([op |-> "create", by |-> "list", number |-> number, images |-> images, files |-> 0])
    BY <1>13 DEF DuplicateLote
  <2> DEFINE w == [op |-> "create", by |-> "list", number |-> number, images |-> images, files |-> 0]
  <2>2. Asks(w) /\ UNCHANGED <<page, drawer>> /\ w.op = "create" /\ w.by = "list" BY <1>13, <2>1 DEF DuplicateLote
  <2> HIDE DEF w
  <2> QED BY <1>10, <2>2
<1>14. ASSUME NEW w, Asks(w), UNCHANGED page, w.op # "list", ~drawer.busy, drawer.mode # "closed",
              drawer' = [drawer EXCEPT !.busy = TRUE, !.step = "data", !.mount = 0]
       PROVE  PanelInv'
  <2>1. DOMAIN drawer' = DOMAIN drawer /\ drawer'.busy = TRUE /\ drawer'.mode = drawer.mode /\ drawer.busy # TRUE
    BY <1>1, <1>14
  <2>2. PageShape' BY <1>1, <1>14, <2>1 DEF PageShape
  <2>0. page' = page BY <1>14
  <2>3. page'.open = page.open BY <2>0
  <2>4. page'.load = page.load BY <2>0
  <2>5. page'.load >= page.load BY <1>0, <2>4
  <2> QED BY <1>14, <2>1, <2>2, <2>3, <2>5, AskKeepsPanel
<1>15. ASSUME NEW files, NEW again, SaveNew(files, again) PROVE PanelInv'
  <2> DEFINE w == [op |-> "create", by |-> "drawer", number |-> drawer.number, images |-> <<>>,
                   files |-> files, again |-> again]
  <2>1. Asks(w) /\ w.op = "create" BY <1>15 DEF SaveNew
  <2> HIDE DEF w
  <2>2. /\ UNCHANGED page /\ ~drawer.busy /\ drawer.mode # "closed"
        /\ drawer' = [drawer EXCEPT !.busy = TRUE, !.step = "data", !.mount = 0]
    BY <1>15 DEF SaveNew
  <2> QED BY <1>14, <2>1, <2>2
<1>16. ASSUME NEW n, SaveEdit(n) PROVE PanelInv'
  <2> DEFINE w == [op |-> "edit", lote |-> drawer.lote, number |-> n]
  <2>1. Asks(w) /\ w.op = "edit" BY <1>16 DEF SaveEdit
  <2> HIDE DEF w
  <2>2. /\ UNCHANGED page /\ ~drawer.busy /\ drawer.mode # "closed"
        /\ drawer' = [drawer EXCEPT !.busy = TRUE, !.step = "data", !.mount = 0]
    BY <1>16 DEF SaveEdit
  <2> QED BY <1>14, <2>1, <2>2
<1>17. ASSUME NEW images, Arrange(images) PROVE PanelInv'
  <2> DEFINE w == [op |-> "photos", lote |-> drawer.shows, mount |-> drawer.mount, images |-> images,
                   kept |-> refs[drawer.mount]]
  <2>1. FreeSlot(Page) \in Slots /\ UNCHANGED <<page, drawer>> BY <1>17 DEF Arrange, HasRoom, FreeSlot
  <2>2. Then(FreeSlot(Page), w) /\ w.op = "photos" /\ w.mount # 0 BY <1>17 DEF Arrange, Persists
  <2> HIDE DEF w
  <2>3. Asks(w) BY <2>1, <2>2, <1>17 DEF Then, Asks, Asking, Goes, Arrange
  <2> QED BY <1>10, <2>1, <2>2, <2>3
<1>18. ASSUME NEW files, Upload(files) PROVE PanelInv'
  <2> DEFINE w == [op |-> "upload", lote |-> drawer.shows, files |-> files, mount |-> drawer.mount]
  <2>1. Asks(w) /\ UNCHANGED <<page, drawer>> /\ w.op = "upload" /\ w.mount # 0 BY <1>18 DEF Upload
  <2> HIDE DEF w
  <2> QED BY <1>10, <2>1
<1>19. ASSUME NEW t \in Tabs, NEW what, Elsewhere(t, what) PROVE PanelInv'
  <2>1. UNCHANGED <<page, drawer>> /\ t \in Tabs \ {Page} /\ Asking(t, what) BY <1>19 DEF Elsewhere, pageVars
  <2>2. PageShape' BY <1>1, <2>1 DEF PageShape
  <2>3. \A r \in Slots : Call(r)' = Call(r) BY <2>1, OtherAsks
  <2> QED BY <1>1, <2>1, <2>2, <2>3, PanelQuiet
<1> QED BY <1>5, <1>6, <1>7, <1>8, <1>9, <1>11, <1>12, <1>13, <1>15, <1>16, <1>17, <1>18, <1>19
        DEF Choices, RivalCreates, RivalDeletes

LEMMA PanelClosed ==
    ASSUME PanelInv, ~page.open, [Next]_vars
    PROVE  PanelInv' /\ ~page'.open
<1>1. DOMAIN page = {"open", "rows", "list", "load"} /\ page.load \in Nat BY DEF PanelInv, PageShape
<1>2. CASE page' = page BY <1>1, <1>2 DEF PanelInv, PageShape
<1>3. CASE Guarded
  <2>1. CASE page' = page BY <1>2, <2>1
  <2>2. CASE page' = [page EXCEPT !.open = FALSE]
    <3>1. DOMAIN page' = DOMAIN page /\ page'.open = FALSE /\ page'.load = page.load BY <1>1, <2>2
    <3> QED BY <1>1, <3>1 DEF PanelInv, PageShape
  <2> QED BY <1>3, <2>1, <2>2 DEF Guarded
<1>4. \A s \in Slots : ~Arrivals(s)
  BY DEF Arrivals, ListArrives, ReorderArrives, DeleteArrives, DuplicateArrives, CreateArrives, StagedArrive,
         CoverArrives, EditArrives, UploadsArrive, PhotosArrive, Hears
<1>5. CASE Choices
  <2>1. ~TryAgain /\ \A k : ~MoveLote(k) /\ ~DeleteLote(k) /\ ~DuplicateLote(k) /\ ~OpenEdit(k)
    BY DEF TryAgain, MoveLote, DeleteLote, DuplicateLote, OpenEdit, ListInView
  <2>2. UNCHANGED page
    BY <1>5, <2>1 DEF Choices, CloseDrawer, OpenCreate, SaveNew, SaveEdit, LeavePhotos, BackToPhotos, Arrange,
                      Upload, RivalCreates, RivalDeletes, Elsewhere, pageVars
  <2> QED BY <1>2, <2>2
<1>6. CASE UNCHANGED vars \/ UNCHANGED pageVars BY <1>2, <1>6 DEF vars, pageVars
<1>7. CASE \E t \in Tabs, s \in Slots : Unheard(t, s) BY <1>2, <1>7 DEF Unheard, pageVars
<1> QED BY <1>3, <1>4, <1>5, <1>6, <1>7 DEF Next, Progress, Moves

\* What is neither a choice nor an answer that the page hears.
LEMMA NeitherChosenNorHeard ==
    ASSUME CallsOK, SessionInv, page.open, [Next]_vars, ~Choices, \A s \in Slots : ~Arrivals(s)
    PROVE  /\ \/ \A s \in Slots : Turns(Call(s), Call(s)')
              \/ CatalogoProgress /\ UNCHANGED <<sessionVars, pageVars>>
           /\ Guarded \/ UNCHANGED <<page, drawer>>
<1>1. UNCHANGED calls => \A s \in Slots : Turns(Call(s), Call(s)') BY DEF Turns, Call
<1>2. CASE UNCHANGED vars BY <1>1, <1>2 DEF vars, pageVars
<1>3. CASE Freeze /\ UNCHANGED <<sessionVars, pageVars>> BY <1>1, <1>3 DEF Freeze, pageVars
<1>4. CASE (SessionProgress \/ SessionMoves \/ \E t \in Tabs \ {Page} : Reload(t)) /\ Guarded
  BY <1>4, SessionTurns
<1>5. CASE CatalogoProgress /\ UNCHANGED <<sessionVars, pageVars>> BY <1>5 DEF pageVars
<1>6. ASSUME NEW t \in Tabs, NEW s \in Slots, Unheard(t, s)
      PROVE  (\A r \in Slots : Turns(Call(r), Call(r)')) /\ UNCHANGED <<page, drawer>>
  <2>1. t \in Tabs \ {Page} /\ Goes(t, s, NoCall) /\ UNCHANGED pageVars BY <1>6 DEF Unheard
  <2> QED BY <2>1, OtherGoes DEF Turns, pageVars
<1> QED BY <1>2, <1>3, <1>4, <1>5, <1>6 DEF Next, Progress, Moves

LEMMA PanelStep ==
    ASSUME CallsOK, SessionInv, PanelInv, [Next]_vars
    PROVE  PanelInv'
<1>1. CASE ~page.open BY <1>1, PanelClosed
<1>2. CASE page.open /\ Choices BY <1>2, ChoicesKeepPanel
<1>3. CASE page.open /\ \E s \in Slots : Arrivals(s) BY <1>3, ArrivalsKeepPanel
<1>4. CASE page.open /\ ~Choices /\ \A s \in Slots : ~Arrivals(s)
  <2>1. /\ \/ \A s \in Slots : Turns(Call(s), Call(s)')
           \/ CatalogoProgress
        /\ Guarded \/ UNCHANGED <<page, drawer>>
    BY <1>4, NeitherChosenNorHeard
  <2>2. \A s \in Slots : /\ IsList(Call(s)') => IsList(Call(s)) /\ Call(s)'.what = Call(s).what
                         /\ OfThePanel(Call(s)') => OfThePanel(Call(s))
    BY <2>1, TurnsKeepPanel, ServerTurns, ServedKeepPanel
  <2>3. DOMAIN page' = DOMAIN page /\ page'.load = page.load /\ (page'.open => UNCHANGED <<page, drawer>>)
    <3>1. DOMAIN page = {"open", "rows", "list", "load"} BY DEF PanelInv, PageShape
    <3>2. CASE page' = [page EXCEPT !.open = FALSE] BY <3>1, <3>2
    <3>3. CASE UNCHANGED <<page, drawer>> BY <3>3
    <3> QED BY <2>1, <3>2, <3>3 DEF Guarded
  <2>4. PageShape' BY <2>3 DEF PanelInv, PageShape
  <2>5. page'.open => page.open /\ page'.load = page.load /\ (drawer'.busy = TRUE <=> drawer.busy = TRUE)
                      /\ (drawer'.busy = TRUE => drawer'.mode # "closed")
    BY <1>4, <2>3 DEF PanelInv
  <2> QED BY <2>2, <2>4, <2>5, PanelQuiet
<1> QED BY <1>1, <1>2, <1>3, <1>4

------------------------------------------------------------------------------
\* What is not overtaken.
Apart ==
    /\ \A s, r \in Slots : s # r /\ IsOrder(Call(s)) /\ Underway(Call(r)) => Call(r).what.op \notin Writes \cup {"list"}
    /\ \A t \in Tabs \ {Page}, s \in Slots : calls[t][s].what.op \notin Writes
    /\ \A s \in Slots : Call(s).what.op \in Writes => Call(s).ans # Lost
    /\ \A s \in Slots : Call(s).what.op = "photos" /\ Call(s).what.mount = 0 => ~Refusal(Call(s))

LEMMA ApartNow == ASSUME ~Overtaken PROVE Apart
BY DEF Overtaken, Apart, IsOrder, Underway, InFlight, What, Call, Refusal

LEMMA ApartThen == ASSUME ~Overtaken' PROVE Apart'
BY DEF Overtaken, Apart, IsOrder, Underway, InFlight, What, Call, Refusal

LEMMA RightStays == ASSUME UNCHANGED lotes PROVE Right' = Right /\ Live' = Live
<1>1. \A i, j, older : Before(i, j, older)' <=> Before(i, j, older) BY DEF Before
<1>2. Live' = Live BY DEF Live
<1>3. Listings' = Listings BY <1>2 DEF Listings, Listing, Before
<1>4. \A i : Shown(i)' = Shown(i) BY DEF Shown
<1> QED BY <1>2, <1>3 DEF Right, Shown

\* A request goes on as d, and the list owes nothing to it.
Stays(c, d) ==
    \/ d = c
    \/ /\ WillLoad(c) => WillLoad(d)
       /\ ~IsOrder(c) /\ ~IsOrder(d) /\ (IsList(d) /\ Okay(d) => d.ans.rows \in Right)
    \/ /\ IsOrder(c) /\ IsOrder(d) /\ d.what = c.what
       /\ ~Okay(c) /\ ~Okay(d) /\ d.phase # "read"

LEMMA TurnsStay ==
    ASSUME NEW c, NEW d, Turns(c, d), d.what.op \in Writes => d.ans # Lost
    PROVE  Stays(c, d)
<1>1. CASE d = c BY <1>1 DEF Stays
<1>2. CASE Private(c) /\ Private(d)
  BY <1>2 DEF Stays, Private, WillLoad, IsStaged, IsOrder, IsList, Okay, Heard, Underway, Writes
<1>3. CASE /\ d.what = c.what /\ Underway(c) /\ Underway(d) /\ d.phase # "read"
           /\ ~Okay(d) /\ (Okay(c) => d.ans = Lost)
  <2>1. CASE IsOrder(c)
    <3>1. ~Okay(c) /\ IsOrder(d) BY <1>3, <2>1 DEF IsOrder, Writes
    <3> QED BY <1>3, <2>1, <3>1 DEF Stays
  <2>2. CASE ~IsOrder(c)
    <3>1. ~IsOrder(d) BY <1>3, <2>2 DEF IsOrder
    <3>2. WillLoad(c) => WillLoad(d) BY <1>3 DEF WillLoad, IsStaged, Writes
    <3> QED BY <1>3, <2>2, <3>1, <3>2 DEF Stays
  <2> QED BY <2>1, <2>2
<1> QED BY <1>1, <1>2, <1>3 DEF Turns, Underway

LEMMA StaysKeepList ==
    ASSUME ListNow, ~Overtaken', UNCHANGED <<lotes, page>>, \A s \in Slots : Stays(Call(s), Call(s)')
    PROVE  ListNow'
<1>1. Right' = Right /\ Live' = Live BY RightStays
<1>2. Owed => Owed' BY DEF Owed, Stays, IsOrder, WillLoad, IsStaged, Underway, Okay, Heard, Writes
<1>3. ASSUME NEW s \in Slots, IsOrder(Call(s)')
      PROVE  OrderStands(Call(s))'
  <2>0. PICK d : d = Call(s)' OBVIOUS
  <2>1. CASE Call(s)' = Call(s)
    <3>1. OrderStands(Call(s)) BY <1>3, <2>1 DEF ListNow
    <3>2. page'.rows = [k \in DOMAIN d.what.ids |-> Shown(d.what.ids[k])']
      BY <2>0, <2>1, <3>1 DEF OrderStands, Shown
    <3> QED BY <1>1, <2>0, <2>1, <3>1, <3>2 DEF OrderStands, Okay
  <2>2. CASE /\ IsOrder(Call(s)) /\ Call(s)'.what = Call(s).what
             /\ ~Okay(Call(s)) /\ ~Okay(Call(s)') /\ Call(s)'.phase # "read"
    <3>1. OrderStands(Call(s)) BY <2>2 DEF ListNow
    <3>2. /\ page'.list = "ready"
          /\ \E n \in Nat : d.what.ids = [k \in 1..n |-> d.what.ids[k]]
          /\ d.what.kept \in Right'
      BY <1>1, <2>0, <2>2, <3>1 DEF OrderStands
    <3>3. page'.rows = [k \in DOMAIN d.what.ids |-> Shown(d.what.ids[k])']
      BY <2>0, <2>2, <3>1 DEF OrderStands, Shown
    <3> QED BY <2>0, <2>2, <3>2, <3>3 DEF OrderStands, Okay
  <2> QED BY <1>3, <2>1, <2>2 DEF Stays
<1>4. page'.list = "ready" => page'.rows \in Right' \/ Owed' \/ \E s \in Slots : IsOrder(Call(s)')
  <2>1. \A s \in Slots : IsOrder(Call(s)) => IsOrder(Call(s)') BY DEF Stays
  <2> QED BY <1>1, <1>2, <2>1 DEF ListNow
<1>5. ASSUME NEW s \in Slots, IsList(Call(s)'), Okay(Call(s)'), Call(s)'.what.load = page'.load
      PROVE  Call(s)'.ans.rows \in Right' \/ Owed'
  <2>1. CASE Call(s)' = Call(s) BY <1>1, <1>2, <1>5, <2>1 DEF ListNow
  <2>2. CASE Call(s)' # Call(s) BY <1>1, <1>5, <2>2 DEF Stays
  <2> QED BY <2>1, <2>2
<1> QED BY <1>3, <1>4, <1>5 DEF ListNow, IsOrder, IsList, Okay

\* The list is loaded again: it shows nothing, and every answer on its way is stale.
LEMMA LoadingKeepsList ==
    ASSUME PanelInv, page.open, ~Overtaken', page' = Loading,
           NEW f \in Slots, NEW d, Only(f, d), IsList(d), ~Okay(d)
    PROVE  ListNow'
<1>1. page.load \in Nat /\ page'.load = page.load + 1 /\ page'.list = "loading"
  BY LoadingIs DEF PanelInv, PageShape
<1>2. Call(f)' = d /\ \A s \in Slots \ {f} : Call(s)' = Call(s) BY DEF Only
<1>3. d.what.op = "list" /\ Underway(d) BY DEF IsList
<1>4. \A s \in Slots : ~IsOrder(Call(s)')
  <2>1. ASSUME NEW s \in Slots, IsOrder(Call(s)') PROVE FALSE
    <3>1. s # f BY <1>2, <1>3, <2>1 DEF IsOrder
    <3> QED BY <1>2, <1>3, <2>1, <3>1, ApartThen DEF Apart, IsOrder, Underway
  <2> QED BY <2>1
<1>5. \A s \in Slots : IsList(Call(s)') /\ Okay(Call(s)') => Call(s)'.what.load # page'.load
  <2>1. ASSUME NEW s \in Slots, IsList(Call(s)'), Okay(Call(s)') PROVE Call(s)'.what.load # page'.load
    <3>1. Call(s)' = Call(s) /\ IsList(Call(s)) BY <1>2, <2>1
    <3>2. Call(s).what.load \in 0..page.load BY <3>1 DEF PanelInv
    <3> QED BY <1>1, <3>1, <3>2
  <2> QED BY <2>1
<1> QED BY <1>1, <1>4, <1>5 DEF ListNow, IsOrder, IsList, Okay

\* The server does what the page asked for, and the page does not know yet.
LEMMA WriteOwes ==
    ASSUME ~Overtaken', NEW f \in Slots, NEW d, Only(f, d), Okay(d), d.what.op \in Writes \ {"reorder"}
    PROVE  ListNow'
<1>1. Call(f)' = d BY DEF Only
<1>2. Underway(d) BY DEF Okay, Heard, Underway
<1>3. Owed' BY <1>1 DEF Owed, WillLoad, Okay, IsStaged, Underway
<1>4. \A s \in Slots : ~IsOrder(Call(s)')
  <2>1. ASSUME NEW s \in Slots, IsOrder(Call(s)') PROVE FALSE
    <3>1. s # f BY <1>1, <2>1 DEF IsOrder
    <3> QED BY <1>1, <1>2, <2>1, <3>1, ApartThen DEF Apart, IsOrder, Underway
  <2> QED BY <2>1
<1> QED BY <1>3, <1>4 DEF ListNow, IsOrder

LEMMA ArrivalsKeepList ==
    ASSUME CallsOK, PanelInv, ListNow, page.open, ~Overtaken', UNCHANGED lotes, NEW s \in Slots, Arrivals(s)
    PROVE  ListNow'
<1> DEFINE c == Call(s)
<1>1. Apart BY ApartNow DEF ListNow
<1>2. Heard(c) /\ Underway(c) BY DEF Arrivals, ListArrives, ReorderArrives, DeleteArrives, DuplicateArrives,
        CreateArrives, StagedArrive, CoverArrives, EditArrives, UploadsArrive, PhotosArrive, Hears, Call, Heard, Underway
<1>3. ASSUME NEW d, Only(s, d), UNCHANGED page, WillLoad(c) => WillLoad(d), ~IsOrder(c), ~IsOrder(d), ~IsList(d)
      PROVE  ListNow'
  <2>1. \A r \in Slots : Stays(Call(r), Call(r)') BY <1>3 DEF Only, Stays
  <2> QED BY <1>3, <2>1, StaysKeepList
<1>4. ASSUME Ends(s), UNCHANGED page, ~WillLoad(c), ~IsOrder(c)
      PROVE  ListNow'
  <2>1. PICK d : ~Underway(d) /\ Only(s, d) BY <1>4, PageEnds
  <2>2. ~IsOrder(d) /\ ~IsList(d) BY <2>1 DEF IsOrder, IsList
  <2> QED BY <1>3, <1>4, <2>1, <2>2
<1>5. ASSUME Reload1(s) PROVE ListNow'
  <2> DEFINE w == [op |-> "list", load |-> page.load + 1]
  <2>1. PICK d : IsFresh(d, w) /\ Only(s, d) BY <1>5, PageThen DEF Reload1
  <2>2. IsList(d) /\ ~Okay(d) BY <2>1 DEF IsFresh, IsList, Underway
  <2>3. page' = Loading BY <1>5 DEF Reload1
  <2> QED BY <2>1, <2>2, <2>3, LoadingKeepsList
<1>6. ASSUME NEW w, Then(s, w), UNCHANGED page, ~IsOrder(c), w.op \in {"upload", "photos"}, WillLoad(c) => w.mount = 0
      PROVE  ListNow'
  <2>1. PICK d : IsFresh(d, w) /\ Only(s, d) BY <1>6, PageThen
  <2>2. ~IsOrder(d) /\ ~IsList(d) /\ (w.mount = 0 => WillLoad(d))
    BY <1>6, <2>1 DEF IsFresh, IsOrder, IsList, WillLoad, IsStaged, Underway
  <2> QED BY <1>3, <1>6, <2>1, <2>2
<1>7. Right' = Right BY RightStays
<1>8. CASE ListArrives(s)
  <2>1. IsList(c) /\ Ends(s) BY <1>2, <1>8 DEF ListArrives, Hears, IsList, Call
  <2>2. ~WillLoad(c) /\ ~IsOrder(c) BY <2>1 DEF IsList, WillLoad, IsStaged, IsOrder, Writes
  <2>3. PICK d : ~Underway(d) /\ Only(s, d) BY <2>1, PageEnds
  <2>4. \A r \in Slots : ~IsOrder(Call(r)')
    <3>1. \A r \in Slots : ~IsOrder(Call(r)) BY <1>1, <1>2, <2>1 DEF Apart, IsList, IsOrder
    <3> QED BY <2>3, <3>1 DEF Only, IsOrder
  <2>5. Owed => Owed' BY <2>2, <2>3 DEF Owed, Only, WillLoad, IsStaged, Underway, Okay, Heard
  <2>6. \A r \in Slots : IsList(Call(r)') => Call(r)' = Call(r) BY <2>3 DEF Only, IsList
  <2>7. page'.load = page.load
    <3>1. DOMAIN page = {"open", "rows", "list", "load"} BY DEF PanelInv, PageShape
    <3> QED BY <1>8, <3>1 DEF ListArrives
  <2>8. \A r \in Slots : IsList(Call(r)') /\ Okay(Call(r)') /\ Call(r)'.what.load = page'.load
                           => Call(r)'.ans.rows \in Right' \/ Owed'
    BY <1>7, <2>5, <2>6, <2>7 DEF ListNow
  <2>9. page'.list = "ready" => page'.rows \in Right' \/ Owed'
    <3>0. DOMAIN page = {"open", "rows", "list", "load"} BY DEF PanelInv, PageShape
    <3>1. CASE page' = page
      <4>1. page.list = "ready" => page.rows \in Right \/ Owed
        BY <1>1, <1>2, <2>1 DEF ListNow, Apart, IsList, IsOrder
      <4> QED BY <1>7, <2>5, <3>1, <4>1
    <3>2. CASE page' = [page EXCEPT !.list = "error"] BY <3>0, <3>2
    <3>3. CASE /\ page' = [page EXCEPT !.list = "ready", !.rows = c.ans.rows]
               /\ c.what.load = page.load /\ ~Refusal(c)
      <4>1. page'.rows = c.ans.rows BY <3>0, <3>3
      <4>2. c.ans.rows \in Right \/ Owed BY <1>2, <2>1, <3>3 DEF ListNow, Okay
      <4> QED BY <1>7, <2>5, <4>1, <4>2
    <3> QED BY <1>8, <3>1, <3>2, <3>3 DEF ListArrives, What, Call
  <2> QED BY <2>4, <2>8, <2>9 DEF ListNow, IsOrder, IsList, Okay
<1>9. CASE ReorderArrives(s)
  <2>1. IsOrder(c) /\ Ends(s) BY <1>2, <1>9 DEF ReorderArrives, Hears, IsOrder, Call
  <2>2. OrderStands(c) BY <2>1 DEF ListNow
  <2>3. PICK d : ~Underway(d) /\ Only(s, d) BY <2>1, PageEnds
  <2>4. \A r \in Slots : Underway(Call(r)') => r # s /\ Call(r)' = Call(r) BY <2>3 DEF Only
  <2>5. \A r \in Slots : r # s /\ Underway(Call(r)) => ~IsOrder(Call(r)) /\ ~IsList(Call(r))
    BY <1>1, <2>1 DEF Apart, IsOrder, IsList, Writes
  <2>6. page'.rows \in Right
    <3>0. DOMAIN page = {"open", "rows", "list", "load"} BY DEF PanelInv, PageShape
    <3>1. CASE Refusal(c)
      <4>1. page' = [page EXCEPT !.rows = c.what.kept] BY <1>9, <3>1 DEF ReorderArrives, What, Call
      <4>2. c.what.kept \in Right BY <2>2, <3>1 DEF OrderStands, Okay
      <4> QED BY <3>0, <4>1, <4>2
    <3>2. CASE ~Refusal(c)
      <4>1. page' = page BY <1>9, <3>2 DEF ReorderArrives, What, Call
      <4>2. page.rows \in Right BY <1>2, <2>2, <3>2 DEF OrderStands, Okay
      <4> QED BY <4>1, <4>2
    <3> QED BY <3>1, <3>2
  <2>7. \A r \in Slots : ~IsOrder(Call(r)') /\ ~IsList(Call(r)') BY <2>4, <2>5 DEF IsOrder, IsList
  <2> QED BY <1>7, <2>6, <2>7 DEF ListNow, IsOrder, IsList
<1>10. CASE DeleteArrives(s)
  <2>1. c.what.op = "delete" BY <1>10 DEF DeleteArrives, Hears, Call
  <2>2. Refusal(c) => ~WillLoad(c) /\ ~IsOrder(c) BY <2>1 DEF WillLoad, IsStaged, Okay, IsOrder
  <2> QED BY <1>4, <1>5, <1>10, <2>1, <2>2 DEF DeleteArrives, Call
<1>11. CASE DuplicateArrives(s)
  <2>1. c.what.op = "create" BY <1>11 DEF DuplicateArrives, Hears, Call
  <2>2. Refusal(c) => ~WillLoad(c) /\ ~IsOrder(c) BY <2>1 DEF WillLoad, IsStaged, Okay, IsOrder
  <2> QED BY <1>4, <1>5, <1>11, <2>1, <2>2 DEF DuplicateArrives, Call
<1>12. CASE CreateArrives(s)
  <2> DEFINE w == [op |-> "upload", lote |-> c.ans.id, mount |-> 0, images |-> <<>>,
                   files |-> c.what.files, number |-> c.what.number, again |-> c.what.again]
  <2>1. c.what.op = "create" BY <1>12 DEF CreateArrives, Hears, Call
  <2>2. \/ Refusal(c) /\ NotSaved(s)
        \/ Saved(s, c.what)
        \/ Then(s, w) /\ UNCHANGED page
    BY <1>12 DEF CreateArrives, Call
  <2>3. ~IsOrder(c) /\ (Refusal(c) => ~WillLoad(c)) BY <2>1 DEF WillLoad, IsStaged, Okay, IsOrder
  <2>4. w.op = "upload" /\ w.mount = 0 OBVIOUS
  <2> HIDE DEF w, c
  <2>5. CASE Refusal(c) /\ NotSaved(s) BY <1>4, <2>3, <2>5 DEF NotSaved
  <2>6. CASE Saved(s, c.what) BY <1>5, <2>6 DEF Saved
  <2>7. CASE Then(s, w) /\ UNCHANGED page BY <1>6, <2>3, <2>4, <2>7
  <2> QED BY <2>2, <2>5, <2>6, <2>7
<1>13. CASE StagedArrive(s)
  <2> DEFINE w(images) == [op |-> "photos", lote |-> c.what.lote, mount |-> 0, images |-> images,
                           number |-> c.what.number, again |-> c.what.again]
  <2>1. ~IsOrder(c) BY <1>13 DEF StagedArrive, Hears, Call, IsOrder
  <2>2. Saved(s, c.what) \/ \E images : Then(s, w(images)) /\ UNCHANGED page BY <1>13 DEF StagedArrive, Call
  <2>3. \A images : w(images).op = "photos" /\ w(images).mount = 0 OBVIOUS
  <2> HIDE DEF w, c
  <2>4. CASE Saved(s, c.what) BY <1>5, <2>4 DEF Saved
  <2>5. ASSUME NEW images, Then(s, w(images)), UNCHANGED page PROVE ListNow' BY <1>6, <2>1, <2>3, <2>5
  <2> QED BY <2>2, <2>4, <2>5
<1>14. CASE CoverArrives(s)
  <2>1. ~Refusal(c) BY <1>1, <1>14 DEF CoverArrives, Hears, Call, What, Apart
  <2> QED BY <1>5, <1>14, <2>1 DEF CoverArrives, Saved, Call
<1>15. CASE EditArrives(s)
  <2>1. c.what.op = "edit" BY <1>15 DEF EditArrives, Hears, Call
  <2>2. Refusal(c) => ~WillLoad(c) /\ ~IsOrder(c) BY <2>1 DEF WillLoad, IsStaged, Okay, IsOrder
  <2>3. ~IsOrder(c) BY <2>1 DEF IsOrder
  <2> QED BY <1>4, <1>5, <1>15, <2>2, <2>3 DEF EditArrives, NotSaved, Call
<1>16. CASE UploadsArrive(s)
  <2> DEFINE w(m, lote, images) == [op |-> "photos", lote |-> lote, mount |-> m, images |-> images, kept |-> refs[m]]
  <2>1. c.what.op = "upload" /\ c.what.mount # 0 /\ UNCHANGED page BY <1>16 DEF UploadsArrive, Hears, Call
  <2>2. ~WillLoad(c) /\ ~IsOrder(c) BY <2>1 DEF WillLoad, IsStaged, Writes, IsOrder
  <2>3. Ends(s) \/ \E m, lote, images : Then(s, w(m, lote, images)) BY <1>16 DEF UploadsArrive, Persists
  <2>4. \A m, lote, images : w(m, lote, images).op = "photos" OBVIOUS
  <2> HIDE DEF w, c
  <2>5. CASE Ends(s) BY <1>4, <2>1, <2>2, <2>5
  <2>6. ASSUME NEW m, NEW lote, NEW images, Then(s, w(m, lote, images)) PROVE ListNow' BY <1>6, <2>1, <2>2, <2>4, <2>6
  <2> QED BY <2>3, <2>5, <2>6
<1>17. CASE PhotosArrive(s)
  <2>1. c.what.op = "photos" /\ c.what.mount # 0 BY <1>17 DEF PhotosArrive, Hears, Call
  <2>2. Refusal(c) => ~WillLoad(c) /\ ~IsOrder(c) BY <2>1 DEF WillLoad, IsStaged, Okay, IsOrder
  <2>3. (Refusal(c) /\ Ends(s) /\ UNCHANGED page) \/ Reload1(s) BY <1>17 DEF PhotosArrive, Call
  <2> QED BY <1>4, <1>5, <2>2, <2>3
<1> QED BY <1>8, <1>9, <1>10, <1>11, <1>12, <1>13, <1>14, <1>15, <1>16, <1>17 DEF Arrivals

LEMMA FiniteLive ==
    ASSUME RowsOK
    PROVE  IsFiniteSet(Live) /\ Cardinality(Live) \in Nat /\ Live \subseteq Int
<1>1. PICK n \in Nat : DOMAIN lotes = 1..n BY DEF RowsOK
<1>2. Live \subseteq 1..n BY <1>1 DEF Live
<1>3. IsFiniteSet(1..n) BY FS_Interval
<1>4. IsFiniteSet(Live) BY <1>2, <1>3, FS_Subset
<1> QED BY <1>2, <1>4, FS_CardinalityType

\* What is right is shown lote by lote.
LEMMA RightRows ==
    ASSUME RowsOK, NEW rows \in Right
    PROVE  \E n \in Nat : \E q : rows = [k \in 1..n |-> Shown(q[k])] /\ Len(rows) = n
<1>1. PICK q \in Listings : rows = [k \in DOMAIN q |-> Shown(q[k])] BY DEF Right
<1>2. DOMAIN q = 1..Cardinality(Live) BY <1>1 DEF Listings, Listing
<1>3. Cardinality(Live) \in Nat BY FiniteLive
<1>4. rows = [k \in 1..Cardinality(Live) |-> Shown(q[k])] BY <1>1, <1>2
<1>5. rows = [k \in 1..Cardinality(Live) |-> rows[k]] BY <1>4
<1>6. Len(rows) = Cardinality(Live) BY <1>3, <1>5, AppendRow
<1> QED BY <1>3, <1>4, <1>6

LEMMA SwappedRows ==
    ASSUME NEW n \in Nat, NEW q, NEW k \in 1..n, k < n,
           NEW rows, rows = [i \in 1..n |-> Shown(q[i])],
           NEW ids, ids = [i \in 1..n |-> Swapped(rows, k)[i].id]
    PROVE  Swapped(rows, k) = [i \in DOMAIN ids |-> Shown(ids[i])]
<1> DEFINE p == [i \in 1..n |-> IF i = k THEN k + 1 ELSE IF i = k + 1 THEN k ELSE i]
           new == Swapped(rows, k)
<1>1. new = [i \in 1..n |-> rows[p[i]]] BY DEF Swapped
<1>2. \A i \in 1..n : p[i] \in 1..n OBVIOUS
<1> HIDE DEF p
<1>3. new = [i \in 1..n |-> Shown(q[p[i]])] BY <1>1, <1>2
<1> HIDE DEF new
<1>4. \A j : Shown(q[j]).id = q[j] BY DEF Shown
<1>5. ids = [i \in 1..n |-> q[p[i]]] BY <1>3, <1>4 DEF new
<1> QED BY <1>3, <1>5 DEF new

LEMMA ChoicesKeepList ==
    ASSUME CallsOK, RowsOK, PanelInv, ListNow, page.open, ~Overtaken', UNCHANGED lotes, Choices
    PROVE  ListNow'
<1>0. \A c : Stays(c, c) BY DEF Stays
<1>1. ASSUME UNCHANGED <<calls, page>> PROVE ListNow'
  <2>1. \A r \in Slots : Stays(Call(r), Call(r)') BY <1>1, <1>0 DEF Call
  <2> QED BY <1>1, <2>1, StaysKeepList
<1>2. ASSUME NEW w, Asks(w), UNCHANGED page, w.op \notin {"list", "reorder"} PROVE ListNow'
  <2>1. PICK f \in Slots : \E d : ~Underway(Call(f)) /\ IsFresh(d, w) /\ Only(f, d) BY <1>2, PageAsks
  <2>2. PICK d : ~Underway(Call(f)) /\ IsFresh(d, w) /\ Only(f, d) BY <2>1
  <2>3. ~IsOrder(d) /\ ~IsList(d) BY <1>2, <2>2 DEF IsFresh, IsOrder, IsList
  <2>4. ~WillLoad(Call(f)) /\ ~IsOrder(Call(f))
    BY <2>2 DEF Underway, WillLoad, IsStaged, Okay, Heard, IsOrder
  <2>5. Stays(Call(f), d) BY <2>3, <2>4 DEF Stays
  <2>6. \A r \in Slots : Stays(Call(r), Call(r)') BY <1>0, <2>2, <2>5 DEF Only
  <2> QED BY <1>2, <2>6, StaysKeepList
<1>3. CASE CloseDrawer \/ OpenCreate \/ LeavePhotos \/ BackToPhotos
  BY <1>1, <1>3 DEF CloseDrawer, OpenCreate, LeavePhotos, BackToPhotos
<1>4. ASSUME NEW k, OpenEdit(k) PROVE ListNow' BY <1>1, <1>4 DEF OpenEdit
<1>5. CASE TryAgain
  <2> DEFINE w == [op |-> "list", load |-> page.load + 1]
  <2>1. Asks(w) /\ page' = Loading BY <1>5 DEF TryAgain
  <2> HIDE DEF w
  <2>2. PICK f \in Slots : \E d : ~Underway(Call(f)) /\ IsFresh(d, w) /\ Only(f, d) BY <2>1, PageAsks
  <2>3. PICK d : IsFresh(d, w) /\ Only(f, d) BY <2>2
  <2>4. IsList(d) /\ ~Okay(d) BY <2>3 DEF IsFresh, IsList, Underway, w
  <2> QED BY <2>1, <2>3, <2>4, LoadingKeepsList
<1>6. ASSUME NEW k \in DOMAIN page.rows, MoveLote(k) PROVE ListNow'
  <2> DEFINE ids == [i \in 1..Len(page.rows) |-> Swapped(page.rows, k)[i].id]
             w == [op |-> "reorder", ids |-> ids, kept |-> page.rows]
  <2>1. /\ Asks(w) /\ page' = [page EXCEPT !.rows = Swapped(page.rows, k)]
        /\ page.list = "ready" /\ drawer.mode = "closed" /\ k < Len(page.rows)
    BY <1>6 DEF MoveLote, ListInView
  <2>2. w.op = "reorder" /\ w.ids = ids /\ w.kept = page.rows OBVIOUS
  <2> HIDE DEF w
  <2>3. PICK f \in Slots : \E d : ~Underway(Call(f)) /\ IsFresh(d, w) /\ Only(f, d) BY <2>1, PageAsks
  <2>4. PICK d : ~Underway(Call(f)) /\ IsFresh(d, w) /\ Only(f, d) BY <2>3
  <2>5. IsOrder(d) BY <2>2, <2>4 DEF IsFresh, IsOrder, Underway
  <2>6. \A r \in Slots \ {f} : Underway(Call(r)) => Call(r).what.op \notin Writes \cup {"list"}
    BY <2>4, <2>5, ApartThen DEF Apart, Only, IsOrder, Underway
  <2>7. ~Owed
    <3>1. ASSUME NEW r \in Slots, WillLoad(Call(r)) PROVE FALSE
      <4>1. r # f /\ Underway(Call(r)) BY <2>4, <3>1 DEF WillLoad, IsStaged, Okay, Heard, Underway
      <4>2. IsStaged(Call(r)) BY <2>6, <3>1, <4>1 DEF WillLoad
      <4>3. OfThePanel(Call(r)) BY <4>2 DEF OfThePanel
      <4> QED BY <2>1, <4>3 DEF PanelInv
    <3> QED BY <3>1 DEF Owed
  <2>8. \A r \in Slots : ~IsOrder(Call(r)) /\ ~IsList(Call(r)) BY <2>4, <2>6 DEF IsOrder, IsList, Writes
  <2>9. page.rows \in Right BY <2>1, <2>7, <2>8 DEF ListNow
  <2>10. PICK n \in Nat : \E q : page.rows = [i \in 1..n |-> Shown(q[i])] /\ Len(page.rows) = n BY <2>9, RightRows
  <2>11. PICK q : page.rows = [i \in 1..n |-> Shown(q[i])] /\ Len(page.rows) = n BY <2>10
  <2>12. k \in 1..n /\ k < n BY <1>6, <2>1, <2>11
  <2>13. ids = [i \in 1..n |-> Swapped(page.rows, k)[i].id] BY <2>11
  <2> HIDE DEF ids
  <2>14. Swapped(page.rows, k) = [i \in DOMAIN ids |-> Shown(ids[i])] BY <2>11, <2>12, <2>13, SwappedRows
  <2>15. ids = [i \in 1..n |-> ids[i]] BY <2>13
  <2>16. page'.list = "ready" /\ page'.rows = Swapped(page.rows, k)
    <3>1. DOMAIN page = {"open", "rows", "list", "load"} BY DEF PanelInv, PageShape
    <3> QED BY <2>1, <3>1
  <2>17. \A i : Shown(i)' = Shown(i) BY DEF Shown
  <2>18. Right' = Right BY RightStays
  <2>19. d.what.ids = ids /\ d.what.kept = page.rows /\ ~Okay(d) /\ d.phase # "read" BY <2>2, <2>4 DEF IsFresh
  <2>20. Call(f)' = d /\ \A r \in Slots \ {f} : Call(r)' = Call(r) BY <2>4 DEF Only
  <2>21. OrderStands(Call(f))'
    BY <2>9, <2>14, <2>15, <2>16, <2>17, <2>18, <2>19, <2>20 DEF OrderStands, Okay
  <2>22. \A r \in Slots : IsOrder(Call(r)') => r = f BY <2>8, <2>20
  <2>23. \A r \in Slots : ~IsList(Call(r)') BY <2>5, <2>8, <2>20 DEF IsOrder, IsList
  <2> QED BY <2>5, <2>20, <2>21, <2>22, <2>23 DEF ListNow, IsOrder, IsList
<1>7. ASSUME NEW k, DeleteLote(k) PROVE ListNow'
  <2> DEFINE w == [op |-> "delete", lote |-> page.rows[k].id]
  <2>1. Asks(w) /\ UNCHANGED page /\ w.op = "delete" BY <1>7 DEF DeleteLote
  <2> HIDE DEF w
  <2> QED BY <1>2, <2>1
<1>8. ASSUME NEW k, DuplicateLote(k) PROVE ListNow'
  <2>1. PICK number, images : Asks([op |-> "create", by |-> "list", number |-> number, images |-> images, files |-> 0])
    BY <1>8 DEF DuplicateLote
  <2> DEFINE w == [op |-> "create", by |-> "list", number |-> number, images |-> images, files |-> 0]
  <2>2. Asks(w) /\ UNCHANGED page /\ w.op = "create" BY <1>8, <2>1 DEF DuplicateLote
  <2> HIDE DEF w
  <2> QED BY <1>2, <2>2
<1>9. ASSUME NEW files, NEW again, SaveNew(files, again) PROVE ListNow'
  <2> DEFINE w == [op |-> "create", by |-> "drawer", number |-> drawer.number, images |-> <<>>,
                   files |-> files, again |-> again]
  <2>1. Asks(w) /\ UNCHANGED page /\ w.op = "create" BY <1>9 DEF SaveNew
  <2> HIDE DEF w
  <2> QED BY <1>2, <2>1
<1>10. ASSUME NEW n, SaveEdit(n) PROVE ListNow'
  <2> DEFINE w == [op |-> "edit", lote |-> drawer.lote, number |-> n]
  <2>1. Asks(w) /\ UNCHANGED page /\ w.op = "edit" BY <1>10 DEF SaveEdit
  <2> HIDE DEF w
  <2> QED BY <1>2, <2>1
<1>11. ASSUME NEW images, Arrange(images) PROVE ListNow'
  <2> DEFINE w == [op |-> "photos", lote |-> drawer.shows, mount |-> drawer.mount, images |-> images,
                   kept |-> refs[drawer.mount]]
  <2>1. UNCHANGED page BY <1>11 DEF Arrange
  <2>2. Then(FreeSlot(Page), w) /\ w.op = "photos" BY <1>11 DEF Arrange, Persists
  <2> HIDE DEF w
  <2>3. Asks(w) BY <2>2, <1>11 DEF Then, Asks, Asking, Goes, Arrange
  <2> QED BY <1>2, <2>1, <2>2, <2>3
<1>12. ASSUME NEW files, Upload(files) PROVE ListNow'
  <2> DEFINE w == [op |-> "upload", lote |-> drawer.shows, files |-> files, mount |-> drawer.mount]
  <2>1. Asks(w) /\ UNCHANGED page /\ w.op = "upload" BY <1>12 DEF Upload
  <2> HIDE DEF w
  <2> QED BY <1>2, <2>1
<1>13. ASSUME NEW t \in Tabs, NEW what, Elsewhere(t, what) PROVE ListNow'
  <2>1. UNCHANGED page /\ t \in Tabs \ {Page} /\ Asking(t, what) BY <1>13 DEF Elsewhere, pageVars
  <2>2. \A r \in Slots : Call(r)' = Call(r) BY <2>1, OtherAsks
  <2>3. \A r \in Slots : Stays(Call(r), Call(r)') BY <1>0, <2>2
  <2> QED BY <2>1, <2>3, StaysKeepList
<1> QED BY <1>3, <1>4, <1>5, <1>6, <1>7, <1>8, <1>9, <1>10, <1>11, <1>12, <1>13
        DEF Choices, RivalCreates, RivalDeletes

------------------------------------------------------------------------------
\* Lotes with the places 0, 1, ... n - 1 are listed in that order.
Sorted(n, f) ==
    /\ Live \subseteq Int
    /\ \A j, k \in 1..n : f[j] = f[k] => j = k
    /\ Live = {f[k] : k \in 1..n}
    /\ \A k \in 1..n : lotes[f[k]].order = k - 1
SortedIsRight == \A n \in Nat : \A f : Sorted(n, f) => [k \in 1..n |-> Shown(f[k])] \in Right

LEMMA Counted ==
    ASSUME NEW n \in Nat, NEW f, \A j, k \in 1..n : f[j] = f[k] => j = k
    PROVE  Cardinality({f[k] : k \in 1..n}) = n
<1> DEFINE S == {f[k] : k \in 1..n}
           g == [k \in 1..n |-> f[k]]
<1>1. g \in Injection(1..n, S) /\ g \in Surjection(1..n, S) BY DEF Injection, Surjection, IsInjective
<1>2. ExistsBijection(1..n, S) BY <1>1 DEF ExistsBijection, Bijection
<1> QED BY <1>2, FS_CountingElements

LEMMA ListingOfSorted ==
    ASSUME NEW n \in Nat, NEW f, Sorted(n, f), NEW older \in BOOLEAN
    PROVE  Listing(older) = [k \in 1..n |-> f[k]]
<1>1. Cardinality(Live) = n
  <2>1. \A j, k \in 1..n : f[j] = f[k] => j = k BY DEF Sorted
  <2>2. Cardinality({f[k] : k \in 1..n}) = n BY <2>1, Counted
  <2> QED BY <2>2 DEF Sorted
<1> DEFINE B(i) == {j \in Live : Before(j, i, older)}
<1>2. ASSUME NEW k \in 1..n PROVE Cardinality(B(f[k])) = k - 1
  <2>1. B(f[k]) = {f[m] : m \in 1..(k - 1)}
    <3>1. ASSUME NEW m \in 1..n PROVE Before(f[m], f[k], older) <=> m < k
      <4>1. f[m] \in Int /\ f[k] \in Int BY DEF Sorted
      <4>2. lotes[f[m]].order = m - 1 /\ lotes[f[k]].order = k - 1 BY DEF Sorted
      <4>3. m = k => f[m] = f[k] OBVIOUS
      <4> QED BY <4>1, <4>2, <4>3 DEF Before
    <3>2. \A m \in 1..n : m < k <=> m \in 1..(k - 1) OBVIOUS
    <3>3. Live = {f[m] : m \in 1..n} BY DEF Sorted
    <3>4. 1..(k - 1) \subseteq 1..n OBVIOUS
    <3> QED BY <3>1, <3>2, <3>3, <3>4
  <2>2. k - 1 \in Nat /\ \A j, m \in 1..(k - 1) : f[j] = f[m] => j = m BY DEF Sorted
  <2> QED BY <2>1, <2>2, Counted
<1> HIDE DEF B
<1>3. ASSUME NEW k \in 1..n PROVE (CHOOSE i \in Live : Cardinality(B(i)) = k - 1) = f[k]
  <2>1. f[k] \in Live /\ Cardinality(B(f[k])) = k - 1 BY <1>2 DEF Sorted
  <2>2. \A i \in Live : Cardinality(B(i)) = k - 1 => i = f[k]
    <3>1. ASSUME NEW i \in Live, Cardinality(B(i)) = k - 1 PROVE i = f[k]
      <4>1. PICK m \in 1..n : i = f[m] BY DEF Sorted
      <4>2. m - 1 = k - 1 BY <1>2, <3>1, <4>1
      <4>3. m = k BY <4>2
      <4> QED BY <4>1, <4>3
    <3> QED BY <3>1
  <2> QED BY <2>1, <2>2
<1>4. Listing(older) = [k \in 1..n |-> CHOOSE i \in Live : Cardinality(B(i)) = k - 1]
  BY <1>1 DEF Listing, B
<1> QED BY <1>3, <1>4

LEMMA SortedNow == SortedIsRight
<1>1. ASSUME NEW n \in Nat, NEW f, Sorted(n, f)
      PROVE  [k \in 1..n |-> Shown(f[k])] \in Right
  <2> DEFINE q == [k \in 1..n |-> f[k]]
  <2>1. Listing(TRUE) = q BY <1>1, ListingOfSorted
  <2>2. q \in Listings BY <2>1 DEF Listings
  <2>3. [k \in 1..n |-> Shown(f[k])] = [k \in DOMAIN q |-> Shown(q[k])] BY DEF Shown
  <2> QED BY <2>2, <2>3 DEF Right
<1> QED BY <1>1 DEF SortedIsRight

LEMMA SortedThen == SortedIsRight'
BY SortedNow, PTL

LEMMA ListStarts == ASSUME Init PROVE ListInv
<1>1. PICK n \in Nat : /\ n = left.lotes
                       /\ lotes = [i \in 1..n |-> [number |-> <<i, 0>>, order |-> i - 1, here |-> TRUE,
                                      images |-> IF i = 1 THEN [k \in 1..left.photos |-> k] ELSE <<>>]]
  BY PlansAssumption DEF Init, SessionInit, CatalogoInit
<1> DEFINE f == [i \in 1..n |-> i]
<1>2. DOMAIN lotes = 1..n BY <1>1
<1>3. \A i \in 1..n : lotes[i].order = i - 1 /\ lotes[i].here = TRUE
  <2> TAKE i \in 1..n
  <2>1. PICK images : lotes[i] = [number |-> <<i, 0>>, order |-> i - 1, here |-> TRUE, images |-> images]
    BY <1>1
  <2> QED BY <2>1
<1>4. Live = 1..n BY <1>2, <1>3 DEF Live
<1>5. Sorted(n, f) BY <1>3, <1>4 DEF Sorted
<1>6. [k \in 1..n |-> Shown(f[k])] \in Right BY <1>5, SortedNow DEF SortedIsRight
<1>7. page.rows = [k \in 1..n |-> Shown(f[k])] BY <1>2 DEF Init, PageInit, Shown
<1>8. \A t \in Tabs, s \in Slots : calls[t][s] = NoCall BY DEF Init, SessionInit
<1>9. \A s \in Slots : Call(s) = NoCall BY <1>8, PageAssumption DEF Call
<1>10. ~Overtaken
  BY <1>8, PageAssumption DEF Overtaken, InFlight, What, NoCall, Nothing, Writes, Lost
<1> QED BY <1>6, <1>7, <1>9, <1>10, NoCallIsGood DEF ListInv, ListNow, IsOrder, IsList, Underway

\* The server writes the new order, which the page shows already.
LEMMA ReorderCommitsKeepList ==
    ASSUME CallsOK, RowsOK, ListNow, ~Overtaken', UNCHANGED page, NEW s \in Slots, ReorderCommits(Page, s)
    PROVE  ListNow'
<1> DEFINE c == Call(s)
           ids == c.what.ids
           Place(i) == (CHOOSE k \in DOMAIN ids : ids[k] = i) - 1
<1>1. /\ c.phase = "read" /\ c.what.op = "reorder" /\ Answered(Page, s, Done)
      /\ lotes' = [i \in DOMAIN lotes |->
                     IF i \in {j \in DOMAIN c.ans.orders : Place(j) # c.ans.orders[j]}
                     THEN [lotes[i] EXCEPT !.order = Place(i)] ELSE lotes[i]]
  BY DEF ReorderCommits, Call
<1>2. IsOrder(c) BY <1>1 DEF IsOrder, Underway
<1>3. OrderStands(c) BY <1>2 DEF ListNow
<1>4. PICK n \in Nat : ids = [k \in 1..n |-> ids[k]] BY <1>3 DEF OrderStands
<1>5. Len(ids) = n /\ DOMAIN ids = 1..n BY <1>4, AppendRow
<1>6. Range(ids) = Live /\ n = Cardinality(Live) /\ c.ans.orders = [i \in Live |-> lotes[i].order]
  BY <1>1, <1>3, <1>5 DEF OrderStands
<1>7. page.list = "ready" /\ page.rows = [k \in 1..n |-> Shown(ids[k])] BY <1>3, <1>5 DEF OrderStands
<1>8. PICK d : d.what = c.what /\ d.phase = "back" /\ d.ans = Done /\ Only(s, d)
  <2>1. Goes(Page, s, [Call(s) EXCEPT !.phase = "back", !.ans = Done]) BY <1>1 DEF Answered, Call
  <2> QED BY <2>1, PageAnswered
<1>9. Live = {ids[k] : k \in 1..n} BY <1>5, <1>6 DEF Range
<1>10. \A j, k \in 1..n : ids[j] = ids[k] => j = k
  <2>1. ids \in Surjection(1..n, Live) BY <1>4, <1>9 DEF Surjection
  <2>2. IsFiniteSet(1..n) /\ Cardinality(1..n) = n BY FS_Interval
  <2>3. ids \in Injection(1..n, Live) BY <1>6, <2>1, <2>2, FS_SurjSameCardinalityImpliesInj
  <2> QED BY <2>3 DEF Injection, IsInjective
<1>11. \A k \in 1..n : Place(ids[k]) = k - 1
  <2> TAKE k \in 1..n
  <2>1. (CHOOSE m \in DOMAIN ids : ids[m] = ids[k]) = k BY <1>5, <1>10
  <2> QED BY <2>1
<1> HIDE DEF Place
<1>12. \A i \in DOMAIN lotes : /\ lotes'[i].here = lotes[i].here /\ lotes'[i].number = lotes[i].number
                               /\ lotes'[i].images = lotes[i].images
                               /\ i \in Live => lotes'[i].order = Place(i)
  <2> TAKE i \in DOMAIN lotes
  <2> DEFINE r == lotes[i]
  <2>1. GoodRow(r) BY DEF RowsOK
  <2>2. CASE i \in Live /\ Place(i) # r.order
    <3>1. lotes'[i] = [lotes[i] EXCEPT !.order = Place(i)] BY <1>1, <1>6, <2>2
    <3>2. lotes'[i] = [number |-> r.number, order |-> Place(i), here |-> r.here, images |-> r.images]
      BY <2>1, <3>1 DEF GoodRow
    <3> QED BY <3>2
  <2>3. CASE ~(i \in Live /\ Place(i) # r.order)
    <3>1. lotes'[i] = lotes[i] BY <1>1, <1>6, <2>3
    <3> QED BY <2>3, <3>1
  <2> QED BY <2>2, <2>3
<1>13. DOMAIN lotes' = DOMAIN lotes BY <1>1
<1>14. Live' = Live BY <1>12, <1>13 DEF Live
<1>15. \A k \in 1..n : lotes'[ids[k]].order = k - 1 BY <1>9, <1>11, <1>12 DEF Live
<1>16. Live \subseteq Int BY FiniteLive
<1>17. PICK g : g = ids OBVIOUS
<1>18. Sorted(n, g)' BY <1>9, <1>10, <1>14, <1>15, <1>16, <1>17 DEF Sorted
<1>19. [k \in 1..n |-> Shown(g[k])]' \in Right' BY <1>18, SortedThen DEF SortedIsRight
<1>20. \A k \in 1..n : Shown(g[k])' = Shown(g[k]) BY <1>9, <1>12, <1>17 DEF Shown, Live
<1>21. page'.rows = [k \in 1..n |-> Shown(g[k])]' BY <1>7, <1>17, <1>20
<1>22. Call(s)' = d /\ \A r \in Slots \ {s} : Call(r)' = Call(r) BY <1>8 DEF Only
<1>23. Okay(d) /\ IsOrder(d) /\ d.what.ids = g /\ d.phase # "read"
  BY <1>1, <1>8, <1>17, Answers DEF Okay, Heard, Refusal, IsOrder, Underway
<1>24. OrderStands(Call(s))'
  BY <1>4, <1>5, <1>7, <1>17, <1>19, <1>21, <1>22, <1>23 DEF OrderStands, Okay, Heard, Refusal
<1>25. \A r \in Slots \ {s} : Underway(Call(r)') => Call(r)'.what.op \notin Writes \cup {"list"}
  BY <1>22, <1>23, ApartThen DEF Apart, IsOrder, Underway
<1>26. \A r \in Slots : (IsOrder(Call(r)') => r = s) /\ ~IsList(Call(r)')
  BY <1>22, <1>23, <1>25 DEF IsOrder, IsList, Writes
<1>27. IsOrder(Call(s)') BY <1>22, <1>23
<1> QED BY <1>24, <1>26, <1>27 DEF ListNow, IsOrder, IsList

LEMMA ServedStays ==
    ASSUME NEW c, NEW d, d.what = c.what, Underway(c), Underway(d), ~Okay(c),
           \/ IsOrder(c) /\ ~Okay(d) /\ d.phase # "read"
           \/ ~IsOrder(c) /\ (IsList(c) /\ Okay(d) => d.ans.rows \in Right)
    PROVE  Stays(c, d)
<1>1. CASE IsOrder(c) /\ ~Okay(d) /\ d.phase # "read" BY <1>1 DEF Stays, IsOrder
<1>2. CASE ~IsOrder(c) /\ (IsList(c) /\ Okay(d) => d.ans.rows \in Right)
  BY <1>2 DEF Stays, IsOrder, IsList, WillLoad, IsStaged
<1> QED BY <1>1, <1>2

\* What the server tells the page of the list, or that it has done it.
LEMMA Tells ==
    /\ \A id, images : LET ans == [op |-> "lote", id |-> id, images |-> images] IN
                       ans # Denied /\ ans # Failed /\ ans # Lost
    /\ Done # Denied /\ Done # Failed /\ Done # Lost
<1>1. ASSUME NEW id, NEW images
      PROVE  LET ans == [op |-> "lote", id |-> id, images |-> images] IN ans # Denied /\ ans # Failed /\ ans # Lost
  <2> DEFINE ans == [op |-> "lote", id |-> id, images |-> images]
  <2>1. ans.op = "lote" OBVIOUS
  <2> HIDE DEF ans
  <2>2. ans # Denied /\ ans # Failed /\ ans # Lost BY <2>1 DEF Denied, Failed, Lost
  <2> QED BY <2>2 DEF ans
<1> QED BY <1>1, Answers

LEMMA ServedKeepList ==
    ASSUME CallsOK, RowsOK, ListNow, ~Overtaken', UNCHANGED page, CatalogoProgress
    PROVE  ListNow'
<1>0. \A c : Stays(c, c) BY DEF Stays
<1>1. PICK t \in Tabs, s \in Slots :
        \/ ServeList(t, s) \/ CreateReads(t, s) \/ CreateCommits(t, s)
        \/ ReorderReads(t, s) \/ ReorderCommits(t, s)
        \/ ServeEdit(t, s) \/ ServePhotos(t, s) \/ ServeDelete(t, s) \/ ServeUpload(t, s)
  BY DEF CatalogoProgress
<1>2. Apart BY ApartNow DEF ListNow
<1>3. CASE t # Page
  <2>1. calls[t][s].what.op \notin Writes BY <1>2, <1>3 DEF Apart
  <2>2. ServeList(t, s) \/ ServeUpload(t, s)
    BY <1>1, <2>1 DEF Writes, CreateReads, CreateCommits, ReorderReads, ReorderCommits, ServeEdit, ServePhotos,
                      ServeDelete, ServeOwned
  <2>3. UNCHANGED lotes /\ \E ans : Answered(t, s, ans) BY <2>2 DEF ServeList, ServeUpload, serverVars
  <2>4. \A r \in Slots : Call(r)' = Call(r) BY <1>3, <2>3, OtherGoes DEF Answered
  <2>5. \A r \in Slots : Stays(Call(r), Call(r)') BY <1>0, <2>4
  <2> QED BY <2>3, <2>5, StaysKeepList
<1>4. CASE t = Page
  <2> DEFINE c == Call(s)
  <2>1. /\ Underway(c) /\ ~Okay(c)
    <3>1. c.phase \in {"sent", "read"}
      BY <1>1, <1>4 DEF ServeList, CreateReads, CreateCommits, ReorderReads, ReorderCommits, ServeEdit, ServePhotos,
                        ServeDelete, ServeOwned, ServeUpload, Welcome, Call
    <3> QED BY <3>1 DEF Underway, Okay, Heard
  <2>2. ASSUME NEW ans, Answered(Page, s, ans)
        PROVE  \E d : d.what = c.what /\ d.phase = "back" /\ d.ans = ans /\ Only(s, d)
    BY <2>2, PageAnswered DEF Answered, Call
  <2>3. ASSUME NEW d, Only(s, d), Stays(c, d), UNCHANGED lotes PROVE ListNow'
    <3>1. \A r \in Slots : Stays(Call(r), Call(r)') BY <1>0, <2>3 DEF Only
    <3> QED BY <2>3, <3>1, StaysKeepList
  <2>4. ASSUME Answered(Page, s, Failed), UNCHANGED lotes PROVE ListNow'
    <3>1. PICK d : d.what = c.what /\ d.phase = "back" /\ d.ans = Failed /\ Only(s, d) BY <2>2, <2>4
    <3>2. Underway(d) /\ ~Okay(d) /\ d.phase # "read" BY <3>1 DEF Underway, Okay, Refusal
    <3>3. Stays(c, d) BY <2>1, <3>1, <3>2, ServedStays
    <3> QED BY <2>3, <2>4, <3>1, <3>3
  <2>5. ASSUME NEW ans, Answered(Page, s, ans), UNCHANGED lotes, ~IsOrder(c), ~IsList(c) PROVE ListNow'
    <3>1. PICK d : d.what = c.what /\ d.phase = "back" /\ d.ans = ans /\ Only(s, d) BY <2>2, <2>5
    <3>2. Underway(d) BY <3>1 DEF Underway
    <3>3. Stays(c, d) BY <2>1, <2>5, <3>1, <3>2, ServedStays
    <3> QED BY <2>3, <2>5, <3>1, <3>3
  <2>6. ASSUME NEW ans, Answered(Page, s, ans), ans # Denied, ans # Failed, ans # Lost,
               c.what.op \in Writes \ {"reorder"}
        PROVE  ListNow'
    <3>1. PICK d : d.what = c.what /\ d.phase = "back" /\ d.ans = ans /\ Only(s, d) BY <2>2, <2>6
    <3>2. Okay(d) BY <2>6, <3>1 DEF Okay, Heard, Refusal
    <3> QED BY <2>6, <3>1, <3>2, WriteOwes
  <2>7. CASE ServeList(t, s)
    <3>1. PICK q \in Listings : Answered(Page, s, [op |-> "list", rows |-> [i \in DOMAIN q |-> Shown(q[i])]])
      BY <1>4, <2>7 DEF ServeList
    <3> DEFINE ans == [op |-> "list", rows |-> [i \in DOMAIN q |-> Shown(q[i])]]
    <3>2. PICK d : d.what = c.what /\ d.phase = "back" /\ d.ans = ans /\ Only(s, d) BY <2>2, <3>1
    <3>3. ans.rows \in Right BY <3>1 DEF Right
    <3>4. Underway(d) /\ ~IsOrder(c)
      BY <1>4, <2>7, <3>2 DEF Underway, ServeList, IsOrder, Call
    <3>5. UNCHANGED lotes BY <2>7 DEF ServeList, serverVars
    <3> HIDE DEF ans
    <3>6. Stays(c, d) BY <2>1, <3>2, <3>3, <3>4, ServedStays
    <3> QED BY <2>3, <3>2, <3>5, <3>6
  <2>8. CASE CreateReads(t, s)
    <3>1. UNCHANGED lotes BY <2>8 DEF CreateReads, serverVars
    <3>2. CASE Answered(t, s, Failed) BY <1>4, <2>4, <3>1, <3>2
    <3>3. CASE \E ans : Reads(t, s, ans)
      <4>1. PICK ans : Reads(t, s, ans) BY <3>3
      <4>2. Goes(Page, s, [Call(s) EXCEPT !.phase = "read", !.ans = ans]) BY <1>4, <4>1 DEF Reads, Call
      <4>3. PICK d : d.what = c.what /\ d.phase = "read" /\ d.ans = ans /\ Only(s, d) BY <4>2, PageAnswered
      <4>4. Underway(d) /\ ~IsOrder(c) /\ ~IsList(c)
        BY <1>4, <2>8, <4>3 DEF Underway, CreateReads, IsOrder, IsList, Call
      <4>5. Stays(c, d) BY <2>1, <4>3, <4>4, ServedStays
      <4> QED BY <2>3, <3>1, <4>3, <4>5
    <3> QED BY <2>8, <3>2, <3>3 DEF CreateReads
  <2>9. CASE CreateCommits(t, s)
    <3>1. CASE Answered(t, s, Failed) /\ UNCHANGED lotes BY <1>4, <2>4, <3>1
    <3>2. CASE \E id, images : Answered(t, s, [op |-> "lote", id |-> id, images |-> images])
      <4>1. PICK id, images : Answered(t, s, [op |-> "lote", id |-> id, images |-> images]) BY <3>2
      <4>2. c.what.op = "create" BY <1>4, <2>9 DEF CreateCommits, Call
      <4> QED BY <1>4, <2>6, <4>1, <4>2, Tells DEF Writes
    <3> QED BY <2>9, <3>1, <3>2 DEF CreateCommits
  <2>10. CASE ReorderCommits(t, s) BY <1>4, <2>10, ReorderCommitsKeepList
  <2>11. CASE ReorderReads(t, s)
    <3>1. UNCHANGED lotes BY <2>11 DEF ReorderReads, serverVars
    <3>2. CASE Answered(t, s, Failed) BY <1>4, <2>4, <3>1, <3>2
    <3>3. CASE /\ Range(c.what.ids) = Live /\ Len(c.what.ids) = Cardinality(Live)
               /\ Reads(t, s, [op |-> "orders", orders |-> [i \in Live |-> lotes[i].order]])
      <4> DEFINE ans == [op |-> "orders", orders |-> [i \in Live |-> lotes[i].order]]
      <4>1. Goes(Page, s, [Call(s) EXCEPT !.phase = "read", !.ans = ans]) BY <1>4, <3>3 DEF Reads, Call
      <4>2. PICK d : d.what = c.what /\ d.phase = "read" /\ d.ans = ans /\ Only(s, d) BY <4>1, PageAnswered
      <4>3. IsOrder(c) /\ IsOrder(d) /\ ~Okay(d)
        BY <1>4, <2>1, <2>11, <4>2 DEF Underway, ReorderReads, IsOrder, Call, Okay, Heard
      <4>4. OrderStands(c) BY <4>3 DEF ListNow
      <4>5. Call(s)' = d /\ \A r \in Slots \ {s} : Call(r)' = Call(r) BY <4>2 DEF Only
      <4>6. Right' = Right /\ Live' = Live BY <3>1, RightStays
      <4>7. OrderStands(Call(s))'
        <5>1. d.ans.orders = [i \in Live' |-> lotes'[i].order] BY <3>1, <4>2, <4>6
        <5>2. Range(d.what.ids) = Live' /\ Len(d.what.ids) = Cardinality(Live') BY <3>3, <4>2, <4>6
        <5> HIDE DEF ans
        <5>3. /\ page'.list = "ready"
              /\ \E n \in Nat : d.what.ids = [k \in 1..n |-> d.what.ids[k]]
              /\ d.what.kept \in Right'
          BY <2>1, <4>2, <4>4, <4>6 DEF OrderStands
        <5>4. page'.rows = [k \in DOMAIN d.what.ids |-> Shown(d.what.ids[k])'] BY <3>1, <4>2, <4>4 DEF OrderStands, Shown
        <5> QED BY <4>3, <4>5, <5>1, <5>2, <5>3, <5>4 DEF OrderStands, Okay
      <4>8. \A r \in Slots \ {s} : Underway(Call(r)') => Call(r)'.what.op \notin Writes \cup {"list"}
        BY <4>3, <4>5, ApartThen DEF Apart, IsOrder, Underway
      <4>9. \A r \in Slots : (IsOrder(Call(r)') => r = s) /\ ~IsList(Call(r)')
        BY <4>3, <4>5, <4>8 DEF IsOrder, IsList, Writes
      <4>10. IsOrder(Call(s)') BY <4>3, <4>5
      <4> QED BY <4>7, <4>9, <4>10 DEF ListNow, IsOrder, IsList
    <3> QED BY <1>4, <2>11, <3>2, <3>3 DEF ReorderReads, Call
  <2>12. ASSUME NEW op, NEW fits, NEW ans, NEW row, ServeOwned(t, s, op, fits, ans, row), op \in Writes \ {"reorder"},
                ans # Denied, ans # Failed, ans # Lost
         PROVE  ListNow'
    <3>1. c.what.op = op BY <1>4, <2>12 DEF ServeOwned, Call
    <3>2. (Answered(Page, s, Failed) /\ UNCHANGED lotes) \/ Answered(Page, s, ans) BY <1>4, <2>12 DEF ServeOwned
    <3> QED BY <2>4, <2>6, <2>12, <3>1, <3>2
  <2>13. CASE ServeEdit(t, s)
    <3>1. \E fits, row : ServeOwned(t, s, "edit", fits, Done, row) BY <2>13 DEF ServeEdit
    <3> QED BY <2>12, <3>1, Tells DEF Writes
  <2>14. CASE ServePhotos(t, s)
    <3>1. \E id, images, row : ServeOwned(t, s, "photos", TRUE, [op |-> "lote", id |-> id, images |-> images], row)
      BY <2>14 DEF ServePhotos
    <3> QED BY <2>12, <3>1, Tells DEF Writes
  <2>15. CASE ServeDelete(t, s)
    <3>1. \E row : ServeOwned(t, s, "delete", TRUE, Done, row) BY <2>15 DEF ServeDelete
    <3> QED BY <2>12, <3>1, Tells DEF Writes
  <2>16. CASE ServeUpload(t, s)
    <3>1. UNCHANGED lotes /\ \E ans : Answered(Page, s, ans) BY <1>4, <2>16 DEF ServeUpload
    <3>2. ~IsOrder(c) /\ ~IsList(c) BY <1>4, <2>16 DEF ServeUpload, IsOrder, IsList, Call
    <3> QED BY <2>5, <3>1, <3>2
  <2> QED BY <1>1, <2>7, <2>8, <2>9, <2>10, <2>11, <2>13, <2>14, <2>15, <2>16
<1> QED BY <1>3, <1>4

LEMMA ListStep ==
    ASSUME CatalogoInv, SessionInv, PanelInv, ListInv, [Next]_vars
    PROVE  ListInv'
<1>1. CASE UNCHANGED vars
  <2>1. UNCHANGED <<page, crossed, drawer, calls, lotes>> BY <1>1 DEF vars, pageVars, serverVars
  <2>2. ListNow => ListNow'
    <3>1. Overtaken' <=> Overtaken BY <2>1 DEF Overtaken, InFlight, What, Refusal
    <3>2. \A r \in Slots : Stays(Call(r), Call(r)') BY <2>1 DEF Stays, Call
    <3> QED BY <2>1, <3>1, <3>2, StaysKeepList DEF ListNow
  <2> QED BY <2>1, <2>2 DEF ListInv
<1>2. CASE Next
  <2> SUFFICES ASSUME page'.open, ~crossed' PROVE ListNow'
    BY DEF ListInv
  <2>1. page.open BY PanelClosed
  <2>2. ~crossed /\ ~Overtaken' BY <1>2 DEF Next, Progress, Moves, Remembers
  <2>3. ListNow BY <2>1, <2>2 DEF ListInv
  <2>4. CallsOK /\ RowsOK BY DEF CatalogoInv
  <2>5. CASE Choices /\ UNCHANGED serverVars BY <2>1, <2>2, <2>3, <2>4, <2>5, ChoicesKeepList DEF serverVars
  <2>6. CASE (\E s \in Slots : Arrivals(s)) /\ UNCHANGED serverVars
    BY <2>1, <2>2, <2>3, <2>4, <2>6, ArrivalsKeepList DEF serverVars
  <2>7. CASE CatalogoProgress /\ UNCHANGED pageVars BY <2>2, <2>3, <2>4, <2>7, ServedKeepList DEF pageVars
  <2>8. CASE ~(Choices /\ UNCHANGED serverVars) /\ ~((\E s \in Slots : Arrivals(s)) /\ UNCHANGED serverVars)
             /\ ~(CatalogoProgress /\ UNCHANGED pageVars)
    <3>1. UNCHANGED <<lotes, page>> /\ \A s \in Slots : Turns(Call(s), Call(s)')
      <4>1. ASSUME Guarded PROVE page' = page
        <5>1. CASE page' = [page EXCEPT !.open = FALSE]
          <6>1. page'.open = FALSE BY <5>1 DEF PanelInv, PageShape
          <6> QED BY <6>1
        <5> QED BY <4>1, <5>1 DEF Guarded
      <4>2. CASE (SessionProgress \/ SessionMoves \/ \E t \in Tabs \ {Page} : Reload(t)) /\ Guarded /\ UNCHANGED serverVars
        BY <2>4, <4>1, <4>2, SessionTurns DEF serverVars
      <4>3. CASE Freeze /\ UNCHANGED pageVars BY <4>3 DEF Freeze, pageVars, Turns, Call
      <4>4. ASSUME NEW t \in Tabs, NEW s \in Slots, Unheard(t, s), UNCHANGED serverVars
            PROVE  UNCHANGED <<lotes, page>> /\ \A r \in Slots : Turns(Call(r), Call(r)')
        <5>1. t \in Tabs \ {Page} /\ Goes(t, s, NoCall) /\ UNCHANGED pageVars BY <2>1, <4>4 DEF Unheard
        <5>2. \A r \in Slots : Call(r)' = Call(r) BY <2>4, <5>1, OtherGoes
        <5> QED BY <4>4, <5>1, <5>2 DEF Turns, pageVars, serverVars
      <4> QED BY <1>2, <2>8, <4>2, <4>3, <4>4 DEF Next, Progress, Moves
    <3>2. \A s \in Slots : Call(s)'.what.op \in Writes => Call(s)'.ans # Lost BY <2>2, ApartThen DEF Apart
    <3>3. \A s \in Slots : Stays(Call(s), Call(s)') BY <3>1, <3>2, TurnsStay
    <3> QED BY <2>2, <2>3, <3>1, <3>3, StaysKeepList
  <2> QED BY <2>5, <2>6, <2>7, <2>8
<1> QED BY <1>1, <1>2

\* What the page shows at rest is a listing of the catalogue, whatever was answered, refused
\* or lost, in whatever order, unless the list was overtaken.
THEOREM ListAlwaysShows == Spec => []ListShowsTheCatalogue
<1>1. ListInv => ListShowsTheCatalogue
  <2> SUFFICES ASSUME ListNow, PageAtRest PROVE \E q \in Listings : page.rows = [k \in DOMAIN q |-> Shown(q[k])]
    BY DEF ListInv, ListShowsTheCatalogue, PageAtRest
  <2>1. \A s \in Slots : ~Underway(Call(s)) BY DEF PageAtRest, InFlight, Underway, Call
  <2>2. ~Owed /\ \A s \in Slots : ~IsOrder(Call(s))
    BY <2>1 DEF Owed, WillLoad, IsStaged, Okay, Heard, Underway, IsOrder
  <2>3. page.rows \in Right BY <2>2 DEF ListNow, PageAtRest
  <2> QED BY <2>3 DEF Right
<1>2. CatalogoInv /\ SessionInv /\ PanelInv /\ ListInv /\ [Next]_vars => PanelInv' /\ ListInv'
  BY PanelStep, ListStep DEF CatalogoInv
<1> QED
  BY <1>1, <1>2, CatalogoStarts, SessionStarts, PanelStarts, ListStarts, CatalogoStep, SessionStep, PTL DEF Spec
------------------------------------------------------------------------------
(***************************************************************************)
(* The photos of a lote.  What the page holds of them is a whole list:     *)
(* rows, answers, the gallery of the panel, saves on their way.  The       *)
(* photos of lote i that nobody removed are in each list that may be saved *)
(* or shown again.                                                         *)
(***************************************************************************)
IsSeq(q) == \E n \in Nat : q = [k \in 1..n |-> q[k]]

OfPhotos(c) == Underway(c) /\ c.what.op \in {"photos", "upload"}
IsSave(c)   == Underway(c) /\ c.what.op = "photos"
Of(c, i)    == OfPhotos(c) /\ c.what.lote = i
IsNew(c)    == Underway(c) /\ c.what.op = "create"

\* A request of the panel that creates lote i, from its creation to its photos.
Births(c, i) == \/ IsStaged(c) /\ c.what.lote = i
                \/ IsNew(c) /\ Okay(c) /\ c.what.by = "drawer" /\ c.ans.id = i

\* The requests and the page speak of lotes that exist (ids) and of galleries that were
\* mounted (1..n).
RowsFit(rows, ids) == IsSeq(rows) /\ \A k \in DOMAIN rows : rows[k].id \in ids /\ IsSeq(rows[k].images)
AsksNew(c) == IsNew(c) => IsSeq(c.what.images) /\ (c.what.by = "drawer" => c.what.images = <<>>)
CallFits(c, ids, n) ==
    /\ IsList(c) /\ Okay(c) => RowsFit(c.ans.rows, ids)
    /\ IsOrder(c) => RowsFit(c.what.kept, ids)
    /\ AsksNew(c) /\ (IsNew(c) /\ Okay(c) => c.ans.id \in ids)
    /\ OfPhotos(c) => c.what.lote \in ids /\ c.what.mount \in 0..n
    /\ OfPhotos(c) /\ ~IsSave(c) /\ Okay(c) => IsSeq(c.ans.urls)
    /\ IsSave(c) => /\ IsSeq(c.what.images) /\ (c.what.mount # 0 => IsSeq(c.what.kept))
                    /\ Okay(c) => c.ans.id = c.what.lote /\ c.ans.images = c.what.images
OtherFits(c) == Underway(c) => c.what.op # "photos" /\ (c.what.op = "create" => c.what.images = <<>>)
DrawerFits ==
    /\ drawer.mount \in 0..Len(refs) /\ IsSeq(drawer.images)
    /\ drawer.shows \in {0} \cup DOMAIN lotes
    /\ drawer.mount # 0 => drawer.shows # 0 /\ drawer.step # "data"
    /\ drawer.shows # 0 => drawer.mode # "closed"
    /\ ~page.open => drawer.mode = "closed"
RefsFit == IsSeq(refs) /\ \A k \in DOMAIN refs : IsSeq(refs[k])
CallsFit == /\ \A s \in Slots : CallFits(Call(s), DOMAIN lotes, Len(refs))
            /\ \A t \in Tabs \ {Page}, s \in Slots : OtherFits(calls[t][s])
PageFits ==
    /\ \A i \in DOMAIN lotes : IsSeq(lotes[i].images)
    /\ RefsFit /\ RowsFit(page.rows, DOMAIN lotes) /\ DrawerFits /\ CallsFit

\* What a request owes to the photos of lote i that are to be kept.
Kept(i)           == {p \in Range(lotes[i].images) : <<i, p>> \notin binned}
RowsKeep(rows, i, keep) == \A k \in DOMAIN rows : rows[k].id = i => keep \subseteq Range(rows[k].images)
Stored(c, i) == IsSave(c) /\ Of(c, i) /\ Okay(c)
None(i) == \A s \in Slots : ~Stored(Call(s), i)
SaveKeeps(c, i, images, keep) == IsSave(c) /\ Of(c, i) =>
    IF Okay(c) THEN c.what.images = images
    ELSE keep \subseteq Range(c.what.images) /\ (c.what.mount # 0 => keep \subseteq Range(c.what.kept))
OrderKeeps(c, i, keep) == IsOrder(c) => RowsKeep(c.what.kept, i, keep)
LoadKeeps(c, i, load, keep) == IsList(c) /\ Okay(c) /\ c.what.load = load => RowsKeep(c.ans.rows, i, keep)

\* The saves of lote i are made one at a time, by the gallery of the panel.
Alone(i) == \A s \in Slots : Of(Call(s), i) =>
    /\ Call(s).ans # Lost
    /\ Call(s).what.mount # 0 => Call(s).what.mount = drawer.mount /\ drawer.shows = i
    /\ \A r \in Slots : ~IsOrder(Call(r))
    /\ \A r \in Slots : IsSave(Call(s)) /\ IsSave(Call(r)) /\ Of(Call(r), i) => r = s
CallsKeep(i) == \A s \in Slots :
    SaveKeeps(Call(s), i, lotes[i].images, Kept(i)) /\ OrderKeeps(Call(s), i, Kept(i))
ListKeeps(i) == page.open /\ None(i) =>
    /\ page.list = "ready" => RowsKeep(page.rows, i, Kept(i))
    /\ \A s \in Slots : LoadKeeps(Call(s), i, page.load, Kept(i))
GalleryKeeps(i) == drawer.shows = i =>
    /\ None(i) => Kept(i) \subseteq Range(drawer.images)
    /\ drawer.mount # 0 =>
         /\ Kept(i) \subseteq Range(refs[drawer.mount])
         /\ \A s \in Slots : IsSave(Call(s)) /\ Of(Call(s), i) => Call(s).what.images = refs[drawer.mount]
         /\ \A s \in Slots : OfPhotos(Call(s)) /\ Call(s).what.mount = drawer.mount => Call(s).what.lote = i
\* A lote that is being created has no photos yet, and nobody else saves them.
BirthKeeps(i) == \A s \in Slots : Births(Call(s), i) =>
    /\ drawer.shows # i
    /\ None(i) => lotes[i].images = <<>>
    /\ \A r \in Slots : Of(Call(r), i) \/ Births(Call(r), i) => r = s
PhotosKept(i) == Alone(i) /\ CallsKeep(i) /\ ListKeeps(i) /\ GalleryKeeps(i) /\ BirthKeeps(i)
PhotosInv == PageFits /\ \A i \in DOMAIN lotes \ clashed : PhotosKept(i)

LEMMA AloneNow == ASSUME NEW i, ~Clashing(i) PROVE Alone(i)
BY DEF Clashing, Alone, What, Call, Of, OfPhotos, IsSave, IsOrder, Underway

LEMMA AloneThen == ASSUME NEW i, ~Clashing(i)' PROVE Alone(i)'
BY DEF Clashing, Alone, What, Call, Of, OfPhotos, IsSave, IsOrder, Underway

LEMMA SeqLen ==
    ASSUME NEW q, IsSeq(q)
    PROVE  Len(q) \in Nat /\ DOMAIN q = 1..Len(q) /\ q = [k \in 1..Len(q) |-> q[k]]
<1>1. PICK n \in Nat : q = [k \in 1..n |-> q[k]] BY DEF IsSeq
<1>2. Len(q) = n BY <1>1, AppendRow
<1> QED BY <1>1, <1>2

LEMMA SeqAppend ==
    ASSUME NEW q, IsSeq(q), NEW e
    PROVE  /\ IsSeq(Append(q, e)) /\ Len(Append(q, e)) = Len(q) + 1
           /\ Append(q, e)[Len(q) + 1] = e /\ \A k \in 1..Len(q) : Append(q, e)[k] = q[k]
<1>1. PICK n \in Nat : q = [k \in 1..n |-> q[k]] BY DEF IsSeq
<1>2. Append(q, e) = [i \in 1..(n + 1) |-> IF i = n + 1 THEN e ELSE q[i]] /\ Len(q) = n BY <1>1, AppendRow
<1>3. PICK r : r = Append(q, e) OBVIOUS
<1>4. r = [i \in 1..(n + 1) |-> r[i]] BY <1>2, <1>3
<1>5. IsSeq(r) BY <1>4 DEF IsSeq
<1>6. Len(r) = n + 1 BY <1>4, AppendRow
<1> QED BY <1>2, <1>3, <1>5, <1>6

LEMMA SeqConcat ==
    ASSUME NEW p, NEW q, IsSeq(p), IsSeq(q)
    PROVE  IsSeq(p \o q) /\ Range(p) \subseteq Range(p \o q)
<1> DEFINE S == Range(p) \cup Range(q)
<1>1. p \in Seq(S) /\ q \in Seq(S)
  <2>1. p \in [1..Len(p) -> S] /\ q \in [1..Len(q) -> S] BY SeqLen DEF Range
  <2> HIDE DEF S
  <2> QED BY <2>1, SeqLen
<1> HIDE DEF S
<1>2. p \o q \in Seq(S) /\ Len(p \o q) = Len(p) + Len(q) BY <1>1
<1>3. \A k \in 1..Len(p) : (p \o q)[k] = p[k] BY <1>1
<1>4. PICK r : r = p \o q OBVIOUS
<1>5. Len(r) \in Nat /\ DOMAIN r = 1..Len(r) /\ r = [k \in 1..Len(r) |-> r[k]]
  <2>1. r \in Seq(S) BY <1>2, <1>4
  <2>2. Len(r) \in Nat /\ r \in [1..Len(r) -> S] BY <2>1, LenProperties
  <2> QED BY <2>2
<1>6. IsSeq(r) BY <1>5 DEF IsSeq
<1>7. DOMAIN p = 1..Len(p) /\ Len(p) \in Nat /\ Len(q) \in Nat BY SeqLen
<1>8. DOMAIN p \subseteq DOMAIN r BY <1>2, <1>4, <1>5, <1>7
<1> QED BY <1>3, <1>4, <1>6, <1>7, <1>8 DEF Range

Put(q, m, e) == [q EXCEPT ![m] = e]
LEMMA SeqPut ==
    ASSUME NEW q, IsSeq(q), NEW m, NEW e
    PROVE  /\ IsSeq(Put(q, m, e)) /\ Len(Put(q, m, e)) = Len(q)
           /\ \A k \in 1..Len(q) : Put(q, m, e)[k] = IF k = m THEN e ELSE q[k]
<1>1. PICK n \in Nat : q = [k \in 1..n |-> q[k]] BY DEF IsSeq
<1>2. PICK r : r = Put(q, m, e) OBVIOUS
<1>3. DOMAIN q = 1..n /\ DOMAIN r = 1..n /\ \A k \in 1..n : r[k] = IF k = m THEN e ELSE q[k] BY <1>1, <1>2 DEF Put
<1>4. r = [k \in 1..n |-> r[k]] BY <1>1, <1>2 DEF Put
<1>5. Len(r) = n /\ Len(q) = n BY <1>1, <1>4, AppendRow
<1> QED BY <1>2, <1>3, <1>4, <1>5 DEF IsSeq

LEMMA SeqSwapped ==
    ASSUME NEW q, IsSeq(q), NEW k \in 1..Len(q), k < Len(q)
    PROVE  /\ IsSeq(Swapped(q, k)) /\ DOMAIN Swapped(q, k) = DOMAIN q
           /\ \A i \in DOMAIN q : \E j \in DOMAIN q : Swapped(q, k)[i] = q[j]
<1>1. PICK n \in Nat : q = [i \in 1..n |-> q[i]] BY DEF IsSeq
<1>2. Len(q) = n BY <1>1, AppendRow
<1>3. k + 1 \in 1..n /\ k \in 1..n BY <1>2
<1>4. PICK r : r = Swapped(q, k) OBVIOUS
<1>5. r = [i \in 1..n |-> IF i = k + 1 THEN q[k] ELSE IF i = k THEN q[k + 1] ELSE q[i]]
  <2>1. [q EXCEPT ![k] = q[k + 1]] = [i \in 1..n |-> IF i = k THEN q[k + 1] ELSE q[i]] BY <1>1, <1>3
  <2> QED BY <1>3, <1>4, <2>1 DEF Swapped
<1>6. r = [i \in 1..n |-> r[i]] BY <1>5
<1>7. DOMAIN q = 1..n BY <1>1
<1> QED BY <1>3, <1>4, <1>5, <1>6, <1>7 DEF IsSeq

------------------------------------------------------------------------------
\* A request goes on as d, and nothing new is owed to it.
Concerns(c, i) == Of(c, i) \/ Births(c, i)
Minds(d) == OfPhotos(d) \/ IsOrder(d) \/ (Okay(d) /\ (IsNew(d) \/ IsList(d)))
Quietly(c, d) ==
    \/ d = c
    \/ /\ Underway(c) /\ Underway(d) /\ d.what = c.what /\ (Okay(c) => d.ans = Lost)
       /\ \/ ~Okay(d) \/ c.what.op = "reorder"
          \/ c.what.op = "upload" /\ IsSeq(d.ans.urls)
    \/ ~Minds(d) /\ AsksNew(d)

LEMMA QuietFits ==
    ASSUME NEW c, NEW d, NEW ids, NEW ids2, NEW n \in Nat, NEW m \in Nat,
           ids \subseteq ids2, n <= m, Quietly(c, d), CallFits(c, ids, n)
    PROVE  CallFits(d, ids2, m)
<1>1. CASE d = c
  <2>1. \A rows : RowsFit(rows, ids) => RowsFit(rows, ids2) BY DEF RowsFit
  <2>2. 0..n \subseteq 0..m OBVIOUS
  <2> QED BY <1>1, <2>1, <2>2 DEF CallFits
<1>2. CASE /\ Underway(c) /\ Underway(d) /\ d.what = c.what
           /\ \/ ~Okay(d) \/ c.what.op = "reorder"
              \/ c.what.op = "upload" /\ IsSeq(d.ans.urls)
  <2>1. \A rows : RowsFit(rows, ids) => RowsFit(rows, ids2) BY DEF RowsFit
  <2>2. 0..n \subseteq 0..m OBVIOUS
  <2>3. OfPhotos(d) = OfPhotos(c) /\ IsSave(d) = IsSave(c) /\ IsOrder(d) = IsOrder(c) /\ IsNew(d) = IsNew(c)
        /\ IsList(d) = IsList(c)
    BY <1>2 DEF OfPhotos, IsSave, IsOrder, IsNew, IsList
  <2>4. CASE ~Okay(d) BY <1>2, <2>1, <2>2, <2>3, <2>4 DEF CallFits, AsksNew
  <2>5. CASE c.what.op \in {"reorder", "upload"}
    <3>1. ~IsList(d) /\ ~IsNew(d) /\ ~IsSave(d) BY <1>2, <2>5 DEF IsList, IsNew, IsSave
    <3>2. OfPhotos(d) => ~Okay(d) \/ IsSeq(d.ans.urls) BY <1>2 DEF OfPhotos
    <3> QED BY <1>2, <2>1, <2>2, <2>3, <3>1, <3>2 DEF CallFits, AsksNew
  <2> QED BY <1>2, <2>4, <2>5
<1>3. CASE ~Minds(d) /\ AsksNew(d) BY <1>3 DEF Minds, CallFits, OfPhotos, IsSave
<1> QED BY <1>1, <1>2, <1>3 DEF Quietly

LEMMA QuietPasses ==
    ASSUME NEW c, NEW d, NEW i, Quietly(c, d), Of(d, i) => d.ans # Lost
    PROVE  /\ Concerns(d, i) => Concerns(c, i)
           /\ Births(d, i) => Births(c, i) /\ (Stored(c, i) => Stored(d, i))
           /\ IsSave(d) /\ Of(d, i) => IsSave(c) /\ Of(c, i) /\ d.what = c.what /\ (Okay(d) <=> Okay(c))
           /\ IsOrder(d) => IsOrder(c) /\ d.what = c.what
           /\ IsList(d) /\ Okay(d) => d = c
           /\ OfPhotos(d) => OfPhotos(c) /\ d.what = c.what
<1> USE DEF Concerns, Births, Stored, Of
<1>1. CASE d = c BY <1>1
<1>2. CASE /\ Underway(c) /\ Underway(d) /\ d.what = c.what /\ (Okay(c) => d.ans = Lost)
           /\ \/ ~Okay(d) \/ c.what.op \in {"reorder", "upload"}
  <2>1. OfPhotos(d) = OfPhotos(c) /\ IsSave(d) = IsSave(c) /\ IsOrder(d) = IsOrder(c) /\ IsNew(d) = IsNew(c)
        /\ IsList(d) = IsList(c) /\ IsStaged(d) = IsStaged(c)
    BY <1>2 DEF OfPhotos, IsSave, IsOrder, IsNew, IsList, IsStaged
  <2>2. IsStaged(d) => OfPhotos(d) BY DEF IsStaged, OfPhotos
  <2>3. IsSave(d) \/ IsList(d) \/ IsNew(d) => ~Okay(d) BY <1>2 DEF IsSave, IsList, IsNew
  <2> QED BY <1>2, <2>1, <2>2, <2>3
<1>3. CASE ~Minds(d) BY <1>3 DEF Minds, IsSave, OfPhotos, IsStaged
<1> QED BY <1>1, <1>2, <1>3 DEF Quietly

\* Each part of PhotosKept, when the slots pass quietly or keep it themselves.
LEMMA PassCalls ==
    ASSUME NEW i, CallsKeep(i), Alone(i)', lotes'[i].images = lotes[i].images, Kept(i)' \subseteq Kept(i),
           \A s \in Slots : \/ Quietly(Call(s), Call(s)')
                            \/ /\ SaveKeeps(Call(s)', i, lotes'[i].images, Kept(i)')
                               /\ OrderKeeps(Call(s)', i, Kept(i)')
    PROVE  CallsKeep(i)'
<1> SUFFICES ASSUME NEW s \in Slots, Quietly(Call(s), Call(s)')
             PROVE  SaveKeeps(Call(s)', i, lotes'[i].images, Kept(i)') /\ OrderKeeps(Call(s)', i, Kept(i)')
  BY DEF CallsKeep
<1>1. PICK c, d : c = Call(s) /\ d = Call(s)' OBVIOUS
<1>2. Of(d, i) => d.ans # Lost BY <1>1 DEF Alone
<1>3. SaveKeeps(c, i, lotes[i].images, Kept(i)) /\ OrderKeeps(c, i, Kept(i)) BY <1>1 DEF CallsKeep
<1>4. Quietly(c, d) BY <1>1
<1>5. SaveKeeps(d, i, lotes'[i].images, Kept(i)') BY <1>2, <1>3, <1>4, QuietPasses DEF SaveKeeps
<1>6. OrderKeeps(d, i, Kept(i)') BY <1>2, <1>3, <1>4, QuietPasses DEF OrderKeeps, RowsKeep
<1> QED BY <1>1, <1>5, <1>6

LEMMA PassBirths ==
    ASSUME NEW i, BirthKeeps(i), Alone(i)', lotes'[i].images = lotes[i].images,
           drawer'.shows = i => drawer.shows = i \/ \A s \in Slots : ~Births(Call(s), i),
           \A s \in Slots : \/ Quietly(Call(s), Call(s)')
                            \/ /\ Concerns(Call(s)', i) => Concerns(Call(s), i) \/ drawer.shows = i
                               /\ Births(Call(s)', i) => /\ Births(Call(s), i)
                                                         /\ Stored(Call(s), i) => Stored(Call(s)', i)
    PROVE  BirthKeeps(i)'
<1>1. \A s \in Slots : /\ Concerns(Call(s)', i) => Concerns(Call(s), i) \/ drawer.shows = i
                       /\ Births(Call(s)', i) => /\ Births(Call(s), i)
                                                 /\ Stored(Call(s), i) => Stored(Call(s)', i)
  <2> TAKE s \in Slots
  <2>1. PICK c, d : c = Call(s) /\ d = Call(s)' OBVIOUS
  <2>2. Of(d, i) => d.ans # Lost BY <2>1 DEF Alone
  <2> QED BY <2>1, <2>2, QuietPasses
<1> SUFFICES ASSUME NEW s \in Slots, Births(Call(s)', i)
             PROVE  /\ drawer'.shows # i
                    /\ None(i)' => lotes'[i].images = <<>>
                    /\ \A r \in Slots : Concerns(Call(r)', i) => r = s
  BY DEF BirthKeeps, Concerns
<1>2. Births(Call(s), i) BY <1>1
<1>3. drawer.shows # i /\ \A r \in Slots : Concerns(Call(r), i) => r = s BY <1>2 DEF BirthKeeps, Concerns
<1>4. \A r \in Slots : Concerns(Call(r)', i) => r = s BY <1>1, <1>3
<1>5. None(i)' => None(i)
  <2> SUFFICES ASSUME NEW r \in Slots, Stored(Call(r), i) PROVE \E q \in Slots : Stored(Call(q)', i)
    BY DEF None
  <2>1. r = s BY <1>3 DEF Stored, Concerns
  <2> QED BY <1>1, <2>1
<1>6. None(i)' => lotes'[i].images = <<>> BY <1>2, <1>5 DEF BirthKeeps
<1> QED BY <1>2, <1>3, <1>4, <1>6

PageGoesOn ==
    /\ page'.open => page.open
    /\ \/ page'.load = page.load /\ page'.rows = page.rows /\ (page'.list = "ready" => page.list = "ready")
       \/ page'.load = page.load + 1 /\ page'.list # "ready"

LEMMA PassList ==
    ASSUME NEW i, ListKeeps(i), Alone(i)', Kept(i)' \subseteq Kept(i), PanelInv, PageGoesOn,
           \A s \in Slots : Quietly(Call(s), Call(s)') \/ ~(IsList(Call(s)') /\ Okay(Call(s)')),
           page'.open /\ page'.load = page.load => (None(i)' => None(i))
    PROVE  ListKeeps(i)'
<1> SUFFICES ASSUME page'.open, None(i)'
             PROVE  /\ page'.list = "ready" => RowsKeep(page'.rows, i, Kept(i)')
                    /\ \A s \in Slots : LoadKeeps(Call(s)', i, page'.load, Kept(i)')
  BY DEF ListKeeps
<1>0. page.open /\ page.load \in Nat BY DEF PageGoesOn, PanelInv, PageShape
<1>1. ASSUME NEW s \in Slots, IsList(Call(s)'), Okay(Call(s)')
      PROVE  Call(s)' = Call(s) /\ Call(s).what.load \in 0..page.load
  <2>1. PICK c, d : c = Call(s) /\ d = Call(s)' OBVIOUS
  <2>2. Of(d, i) => d.ans # Lost BY <2>1 DEF Alone
  <2>3. d = c BY <1>1, <2>1, <2>2, QuietPasses
  <2> QED BY <1>0, <1>1, <2>1, <2>3 DEF PanelInv
<1>2. CASE page'.load = page.load /\ page'.rows = page.rows /\ (page'.list = "ready" => page.list = "ready")
  <2>1. None(i) BY <1>2
  <2>2. \A rows : RowsKeep(rows, i, Kept(i)) => RowsKeep(rows, i, Kept(i)') BY DEF RowsKeep
  <2>3. page'.list = "ready" => RowsKeep(page'.rows, i, Kept(i)') BY <1>0, <1>2, <2>1, <2>2 DEF ListKeeps
  <2>4. ASSUME NEW s \in Slots, IsList(Call(s)'), Okay(Call(s)'), Call(s)'.what.load = page'.load
        PROVE  RowsKeep(Call(s)'.ans.rows, i, Kept(i)')
    <3>1. Call(s)' = Call(s) BY <1>1, <2>4
    <3> QED BY <1>0, <1>2, <2>1, <2>2, <2>4, <3>1 DEF ListKeeps, LoadKeeps
  <2> QED BY <2>3, <2>4 DEF LoadKeeps
<1>3. CASE page'.load = page.load + 1 /\ page'.list # "ready"
  <2>1. \A s \in Slots : IsList(Call(s)') /\ Okay(Call(s)') => Call(s)'.what.load # page'.load
    BY <1>0, <1>1, <1>3
  <2> QED BY <1>3, <2>1 DEF LoadKeeps
<1> QED BY <1>2, <1>3 DEF PageGoesOn

DrawerGoesOn ==
    \/ drawer'.shows = 0
    \/ drawer'.shows = drawer.shows /\ drawer'.images = drawer.images /\ drawer'.mount \in {0, drawer.mount}

LEMMA PassGallery ==
    ASSUME NEW i, i # 0, GalleryKeeps(i), Alone(i)', Kept(i)' \subseteq Kept(i), DrawerGoesOn, UNCHANGED refs,
           drawer.shows = i /\ None(i)' => None(i),
           \A s \in Slots :
              \/ Quietly(Call(s), Call(s)')
              \/ drawer.shows = i /\ drawer.mount # 0 =>
                   /\ IsSave(Call(s)') /\ Of(Call(s)', i) => Call(s)'.what.images = refs[drawer.mount]
                   /\ OfPhotos(Call(s)') /\ Call(s)'.what.mount = drawer.mount => Call(s)'.what.lote = i
    PROVE  GalleryKeeps(i)'
<1> SUFFICES ASSUME drawer'.shows = i
             PROVE  /\ None(i)' => Kept(i)' \subseteq Range(drawer'.images)
                    /\ drawer'.mount # 0 =>
                         /\ Kept(i)' \subseteq Range(refs'[drawer'.mount])
                         /\ \A s \in Slots : IsSave(Call(s)') /\ Of(Call(s)', i)
                                                => Call(s)'.what.images = refs'[drawer'.mount]
                         /\ \A s \in Slots : OfPhotos(Call(s)') /\ Call(s)'.what.mount = drawer'.mount
                                                => Call(s)'.what.lote = i
  BY DEF GalleryKeeps
<1>1. drawer.shows = i /\ drawer'.images = drawer.images /\ drawer'.mount \in {0, drawer.mount} BY DEF DrawerGoesOn
<1>2. None(i)' => Kept(i)' \subseteq Range(drawer'.images) BY <1>1 DEF GalleryKeeps
<1>3. ASSUME drawer'.mount # 0, NEW s \in Slots
      PROVE  /\ IsSave(Call(s)') /\ Of(Call(s)', i) => Call(s)'.what.images = refs[drawer.mount]
             /\ OfPhotos(Call(s)') /\ Call(s)'.what.mount = drawer.mount => Call(s)'.what.lote = i
  <2>1. PICK c, d : c = Call(s) /\ d = Call(s)' OBVIOUS
  <2>2. Of(d, i) => d.ans # Lost BY <2>1 DEF Alone
  <2>3. drawer.mount # 0 BY <1>1, <1>3
  <2>4. /\ IsSave(c) /\ Of(c, i) => c.what.images = refs[drawer.mount]
        /\ OfPhotos(c) /\ c.what.mount = drawer.mount => c.what.lote = i
    BY <1>1, <2>1, <2>3 DEF GalleryKeeps
  <2>5. CASE Quietly(c, d) BY <2>1, <2>2, <2>4, <2>5, QuietPasses
  <2> QED BY <1>1, <2>1, <2>3, <2>5
<1>4. drawer'.mount # 0 => Kept(i)' \subseteq Range(refs'[drawer'.mount]) BY <1>1 DEF GalleryKeeps
<1> QED BY <1>1, <1>2, <1>3, <1>4

\* The types, when the slots pass quietly or fit.
LEMMA PassFits ==
    ASSUME PageFits, DOMAIN lotes \subseteq DOMAIN lotes', \A i \in DOMAIN lotes' : IsSeq(lotes'[i].images),
           Len(refs) <= Len(refs'), RefsFit', RowsFit(page'.rows, DOMAIN lotes'), DrawerFits',
           \A s \in Slots : Quietly(Call(s), Call(s)') \/ CallFits(Call(s)', DOMAIN lotes', Len(refs')),
           \A t \in Tabs \ {Page}, s \in Slots : OtherFits(calls'[t][s])
    PROVE  PageFits'
<1>1. Len(refs) \in Nat /\ Len(refs') \in Nat BY SeqLen DEF PageFits, RefsFit
<1>2. ASSUME NEW s \in Slots, Quietly(Call(s), Call(s)') PROVE CallFits(Call(s)', DOMAIN lotes', Len(refs'))
  <2>1. CallFits(Call(s), DOMAIN lotes, Len(refs)) BY DEF PageFits, CallsFit
  <2>2. PICK c, d : c = Call(s) /\ d = Call(s)' OBVIOUS
  <2>3. PICK ids, ids2, n, m : ids = DOMAIN lotes /\ ids2 = DOMAIN lotes' /\ n = Len(refs) /\ m = Len(refs') OBVIOUS
  <2>4. CallFits(d, ids2, m) BY <1>1, <1>2, <2>1, <2>2, <2>3, QuietFits
  <2> QED BY <2>2, <2>3, <2>4
<1> QED BY <1>2 DEF PageFits, CallsFit

LotesStay == DOMAIN lotes' = DOMAIN lotes /\ \A i \in DOMAIN lotes : lotes'[i].images = lotes[i].images
OthersFit == \A t \in Tabs \ {Page}, s \in Slots : OtherFits(calls'[t][s])
\* A lote that is not clashed after the step was not clashed before.
Recalled == \A i \in DOMAIN lotes' \ clashed' : i \notin clashed /\ Alone(i)'

LEMMA RecalledIs == ASSUME Remembers PROVE Recalled
BY AloneThen DEF Remembers, Recalled

LEMMA NotClashed ==
    ASSUME Recalled, PhotosInv, NEW i \in DOMAIN lotes', i \notin clashed'
    PROVE  Alone(i)' /\ (i \in DOMAIN lotes => PhotosKept(i))
BY DEF Recalled, PhotosInv

LEMMA LoteIsNot0 == ASSUME RowsOK PROVE 0 \notin DOMAIN lotes
BY DEF RowsOK

\* A save that the page hears of is no more.
Forgotten(s) == IsSave(Call(s)) /\ Okay(Call(s)) /\ ~IsSave(Call(s)')

LEMMA QuietStep ==
    ASSUME PhotosInv, RowsOK, PanelInv, Recalled, LotesStay, UNCHANGED <<refs, binned>>, OthersFit,
           \A s \in Slots : Quietly(Call(s), Call(s)'),
           PageGoesOn, page'.rows = page.rows, DrawerGoesOn, DrawerFits',
           \A s \in Slots : Forgotten(s) => \/ ~page'.open
                                            \/ Call(s).what.mount = 0 /\ page'.load = page.load + 1
    PROVE  PhotosInv'
<1>1. PageFits'
  <2>1. PageFits BY DEF PhotosInv
  <2>2. Len(refs) <= Len(refs') /\ RefsFit'
    <3>1. Len(refs) \in Nat BY <2>1, SeqLen DEF PageFits, RefsFit
    <3> QED BY <2>1, <3>1 DEF PageFits, RefsFit
  <2>3. RowsFit(page'.rows, DOMAIN lotes') /\ \A i \in DOMAIN lotes' : IsSeq(lotes'[i].images)
    BY <2>1 DEF PageFits, LotesStay
  <2> QED BY <2>1, <2>2, <2>3, PassFits DEF LotesStay, OthersFit
<1>2. ASSUME NEW i \in DOMAIN lotes' \ clashed' PROVE PhotosKept(i)'
  <2>1. i \in DOMAIN lotes /\ lotes'[i].images = lotes[i].images /\ Kept(i)' \subseteq Kept(i) /\ i # 0
    BY LoteIsNot0 DEF LotesStay, Kept
  <2>2. Alone(i)' /\ PhotosKept(i) BY <1>2, <2>1, NotClashed
  <2>3. CallsKeep(i)' BY <2>1, <2>2, PassCalls DEF PhotosKept
  <2>4. BirthKeeps(i)'
    <3>1. drawer'.shows = i => drawer.shows = i BY <2>1 DEF DrawerGoesOn
    <3> QED BY <2>1, <2>2, <3>1, PassBirths DEF PhotosKept
  <2>5. ASSUME None(i)', ~None(i) PROVE ~page'.open \/ (page'.load = page.load + 1 /\ drawer.shows # i)
    <3>1. PICK s \in Slots : Stored(Call(s), i) BY <2>5 DEF None
    <3>2. ~Stored(Call(s)', i) BY <2>5 DEF None
    <3>3. PICK c, d : c = Call(s) /\ d = Call(s)' OBVIOUS
    <3>4. ~IsSave(d)
      <4>1. Quietly(c, d) /\ (Of(d, i) => d.ans # Lost) BY <2>2, <3>3 DEF Alone
      <4>2. CASE d = c BY <3>1, <3>2, <3>3, <4>2
      <4>3. CASE Underway(d) /\ d.what = c.what /\ (Okay(c) => d.ans = Lost)
        <5>1. Of(c, i) /\ Okay(c) BY <3>1, <3>3 DEF Stored
        <5>2. Of(d, i) BY <4>3, <5>1 DEF Of, OfPhotos
        <5> QED BY <4>1, <4>3, <5>1, <5>2
      <4>4. CASE ~Minds(d) BY <4>4 DEF Minds, OfPhotos, IsSave
      <4> QED BY <4>1, <4>2, <4>3, <4>4 DEF Quietly
    <3>5. Forgotten(s) BY <3>1, <3>3, <3>4 DEF Forgotten, Stored
    <3>6. CASE Call(s).what.mount = 0 /\ page'.load = page.load + 1
      <4>1. Births(Call(s), i) BY <3>1, <3>6 DEF Births, Stored, Of, OfPhotos, IsSave, IsStaged
      <4> QED BY <2>2, <3>6, <4>1 DEF PhotosKept, BirthKeeps
    <3> QED BY <3>5, <3>6
  <2>6. ListKeeps(i)'
    <3>1. page.load \in Nat BY DEF PanelInv, PageShape
    <3>2. page'.open /\ page'.load = page.load => (None(i)' => None(i)) BY <2>5, <3>1
    <3> QED BY <2>1, <2>2, <3>2, PassList DEF PhotosKept
  <2>7. GalleryKeeps(i)'
    <3>1. CASE page'.open
      <4>1. drawer.shows = i /\ None(i)' => None(i) BY <2>5, <3>1
      <4> QED BY <2>1, <2>2, <4>1, PassGallery DEF PhotosKept
    <3>2. CASE ~page'.open
      <4>1. drawer'.shows # i BY <2>1, <3>2 DEF DrawerFits
      <4> QED BY <4>1 DEF GalleryKeeps
    <3> QED BY <3>1, <3>2
  <2> QED BY <2>2, <2>3, <2>4, <2>6, <2>7 DEF PhotosKept
<1> QED BY <1>1, <1>2 DEF PhotosInv

------------------------------------------------------------------------------
LEMMA EmptyIsSeq == IsSeq(<<>>) /\ Range(<<>>) = {}
<1>1. <<>> = [k \in 1..0 |-> <<>>[k]] OBVIOUS
<1> QED BY <1>1 DEF IsSeq, Range

LEMMA TurnsPass ==
    ASSUME NEW c, NEW d, Turns(c, d)
    PROVE  /\ Quietly(c, d) /\ (OtherFits(c) => OtherFits(d))
           /\ IsSave(c) => IsSave(d)
<1>1. CASE d = c BY <1>1 DEF Quietly
<1>2. CASE /\ d.what = c.what /\ c.phase # "idle" /\ d.phase # "idle"
           /\ ~Okay(d) /\ (Okay(c) => d.ans = Lost)
  BY <1>2 DEF Quietly, Underway, OtherFits, IsSave
<1>3. CASE Private(c) /\ Private(d)
  BY <1>3 DEF Private, Quietly, Minds, AsksNew, IsNew, OfPhotos, IsOrder, IsList, Underway, OtherFits, IsSave
<1> QED BY <1>1, <1>2, <1>3 DEF Turns

LEMMA ClosedFits ==
    ASSUME PageFits, drawer' = Closed, Len(refs) <= Len(refs'), RefsFit'
    PROVE  DrawerFits' /\ DrawerGoesOn
<1>1. drawer'.mount = 0 /\ drawer'.images = <<>> /\ drawer'.shows = 0 /\ drawer'.mode = "closed" BY DEF Closed
<1>2. 0 \in 0..Len(refs') BY SeqLen DEF PageFits, RefsFit
<1> QED BY <1>1, <1>2, EmptyIsSeq DEF DrawerFits, DrawerGoesOn

\* Neither the page nor the server does anything: at most the tab shows the login.
LEMMA IdleStep ==
    ASSUME PhotosInv, RowsOK, PanelInv, Recalled, LotesStay, UNCHANGED <<refs, binned>>, OthersFit,
           \A s \in Slots : Quietly(Call(s), Call(s)'),
           Guarded \/ UNCHANGED <<page, drawer>>,
           \A s \in Slots : Forgotten(s) => ~page'.open
    PROVE  PhotosInv'
<1>1. LotesStay OBVIOUS
<1>2. PageFits BY DEF PhotosInv
<1>3. DOMAIN page = {"open", "rows", "list", "load"} BY DEF PanelInv, PageShape
<1>4. CASE UNCHANGED <<page, drawer>>
  <2>1. PageGoesOn /\ DrawerGoesOn /\ page'.rows = page.rows BY <1>4 DEF PageGoesOn, DrawerGoesOn
  <2>2. DrawerFits' BY <1>1, <1>2, <1>4 DEF PageFits, DrawerFits, LotesStay
  <2> QED BY <1>1, <2>1, <2>2, QuietStep
<1>5. CASE page' \in {page, [page EXCEPT !.open = FALSE]} /\ drawer' = Closed
  <2>1. PageGoesOn /\ page'.rows = page.rows BY <1>3, <1>5 DEF PageGoesOn
  <2>2. Len(refs) <= Len(refs') /\ RefsFit'
    <3>1. Len(refs) \in Nat BY <1>2, SeqLen DEF PageFits, RefsFit
    <3> QED BY <1>2, <3>1 DEF PageFits, RefsFit
  <2>3. DrawerFits' /\ DrawerGoesOn BY <1>2, <1>5, <2>2, ClosedFits
  <2> QED BY <1>1, <2>1, <2>3, QuietStep
<1> QED BY <1>4, <1>5 DEF Guarded

LEMMA SessionKeepsPhotos ==
    ASSUME CatalogoInv, SessionInv, PanelInv, PhotosInv, Recalled, UNCHANGED <<lotes, refs, binned>>, Guarded,
           SessionProgress \/ SessionMoves \/ \E t \in Tabs \ {Page} : Reload(t)
    PROVE  PhotosInv'
<1>1. \A s \in Slots : Turns(Call(s), Call(s)') BY SessionTurns DEF CatalogoInv
<1>2. \A s \in Slots : Quietly(Call(s), Call(s)') /\ ~Forgotten(s)
  <2> TAKE s \in Slots
  <2>1. PICK c, d : c = Call(s) /\ d = Call(s)' OBVIOUS
  <2>2. Quietly(c, d) /\ (IsSave(c) => IsSave(d)) BY <1>1, <2>1, TurnsPass
  <2> QED BY <2>1, <2>2 DEF Forgotten
<1>3. OthersFit
  <2>1. \A t \in Tabs \ {Page}, s \in Slots : OtherFits(calls[t][s]) BY DEF PhotosInv, PageFits, CallsFit
  <2>2. CASE SessionProgress \/ SessionMoves
    <3> SUFFICES ASSUME NEW t \in Tabs \ {Page}, NEW s \in Slots PROVE OtherFits(calls'[t][s])
      BY DEF OthersFit
    <3>1. Turns(calls[t][s], calls'[t][s]) BY <2>2, SessionTurnsAll DEF CatalogoInv
    <3>2. PICK c, d : c = calls[t][s] /\ d = calls'[t][s] OBVIOUS
    <3> QED BY <2>1, <3>1, <3>2, TurnsPass
  <2>3. ASSUME NEW t \in Tabs \ {Page}, Reload(t) PROVE OthersFit
    <3>1. \A u \in Tabs, s \in Slots : calls'[u][s] = IF u = t THEN NoCall ELSE calls[u][s]
      BY <2>3 DEF Reload, CatalogoInv, CallsOK
    <3>2. OtherFits(NoCall) BY NoCallIsGood DEF OtherFits, Underway
    <3> QED BY <2>1, <3>1, <3>2 DEF OthersFit
  <2> QED BY <2>2, <2>3
<1>4. LotesStay BY DEF LotesStay
<1> QED BY <1>2, <1>3, <1>4, IdleStep DEF CatalogoInv

LEMMA NobodyHears ==
    ASSUME CatalogoInv, PanelInv, PhotosInv, Recalled, UNCHANGED lotes, NEW t \in Tabs, NEW s \in Slots, Unheard(t, s)
    PROVE  PhotosInv'
<1>1. \A u \in Tabs, r \in Slots : calls'[u][r] = IF u = t /\ r = s THEN NoCall ELSE calls[u][r]
  BY SlotGoes DEF Unheard, CatalogoInv
<1>2. ~Underway(NoCall) BY NoCallIsGood DEF Underway
<1>3. ~Minds(NoCall) /\ AsksNew(NoCall) /\ OtherFits(NoCall) BY <1>2 DEF Minds, AsksNew, OfPhotos, IsOrder, IsNew, IsList, OtherFits
<1>4. \A r \in Slots : Quietly(Call(r), Call(r)') BY <1>1, <1>3, PageAssumption DEF Quietly, Call
<1>5. OthersFit BY <1>1, <1>3 DEF OthersFit, PhotosInv, PageFits, CallsFit
<1>6. UNCHANGED <<page, drawer, refs, binned>> BY DEF Unheard, pageVars
<1>7. \A r \in Slots : Forgotten(r) => ~page'.open
  <2>1. CASE t = Page BY <1>6, <2>1 DEF Unheard
  <2>2. CASE t # Page BY <1>1, <2>2, PageAssumption DEF Forgotten, Call
  <2> QED BY <2>1, <2>2
<1>8. LotesStay BY DEF LotesStay
<1> QED BY <1>4, <1>5, <1>6, <1>7, <1>8, IdleStep DEF CatalogoInv

LEMMA SameCallsIdle ==
    ASSUME CatalogoInv, PanelInv, PhotosInv, Recalled, UNCHANGED <<calls, lotes, page, drawer, refs, binned>>
    PROVE  PhotosInv'
<1>1. \A s \in Slots : Quietly(Call(s), Call(s)') /\ ~Forgotten(s) BY DEF Quietly, Call, Forgotten
<1>2. OthersFit BY DEF OthersFit, PhotosInv, PageFits, CallsFit
<1>3. LotesStay BY DEF LotesStay
<1> QED BY <1>1, <1>2, <1>3, IdleStep DEF CatalogoInv

------------------------------------------------------------------------------
\* What is listed is live: the places of the live rows are different and as many as the rows.
LEMMA ListedAreLive ==
    ASSUME RowsOK, NEW q \in Listings
    PROVE  DOMAIN q = 1..Cardinality(Live) /\ \A k \in DOMAIN q : q[k] \in Live
<1>1. PICK older \in BOOLEAN : q = Listing(older) BY DEF Listings
<1> DEFINE n == Cardinality(Live)
           B(i) == {j \in Live : Before(j, i, older)}
           place == [i \in Live |-> Cardinality(B(i)) + 1]
<1>2. IsFiniteSet(Live) /\ n \in Nat /\ Live \subseteq Int BY FiniteLive
<1>3. \A i \in Live : lotes[i].order \in Int BY DEF RowsOK, GoodRow, Live
<1>4. \A i \in Live : IsFiniteSet(B(i)) /\ Cardinality(B(i)) \in Nat BY <1>2, FS_Subset, FS_CardinalityType
<1>5. ASSUME NEW i \in Live, NEW j \in Live, Before(i, j, older) PROVE Cardinality(B(i)) < Cardinality(B(j))
  <2>1. ~Before(i, i, older) BY <1>2, <1>3 DEF Before
  <2>4. \A k \in Live : Before(k, i, older) => Before(k, j, older) BY <1>2, <1>3, <1>5 DEF Before
  <2>5. i \notin B(i) /\ B(i) \cup {i} \subseteq B(j) BY <1>5, <2>1, <2>4
  <2> HIDE DEF B
  <2>2. Cardinality(B(i) \cup {i}) = Cardinality(B(i)) + 1 BY <1>4, <2>5, FS_AddElement
  <2>3. Cardinality(B(i) \cup {i}) <= Cardinality(B(j)) BY <1>4, <2>5, FS_Subset
  <2> QED BY <1>4, <2>2, <2>3
<1>6. ASSUME NEW i \in Live PROVE Cardinality(B(i)) < n
  <2>1. B(i) \subseteq Live \ {i} BY <1>2, <1>3 DEF Before
  <2> HIDE DEF B
  <2>2. IsFiniteSet(Live \ {i}) /\ Cardinality(Live \ {i}) = n - 1 BY <1>2, FS_RemoveElement
  <2>3. Cardinality(B(i)) <= Cardinality(Live \ {i}) BY <2>1, <2>2, FS_Subset
  <2> QED BY <1>2, <1>4, <2>2, <2>3
<1>7. \A i, j \in Live : i # j => Before(i, j, older) \/ Before(j, i, older) BY <1>2, <1>3 DEF Before
<1>8. q = [k \in 1..n |-> CHOOSE i \in Live : Cardinality(B(i)) = k - 1] BY <1>1 DEF Listing
<1> HIDE DEF B
<1>9. place \in Injection(Live, 1..n)
  <2>1. place \in [Live -> 1..n] BY <1>2, <1>4, <1>6
  <2>2. \A i, j \in Live : place[i] = place[j] => i = j BY <1>4, <1>5, <1>7
  <2> HIDE DEF place
  <2> QED BY <2>1, <2>2 DEF Injection, IsInjective
<1>10. place \in Surjection(Live, 1..n)
  <2>1. IsFiniteSet(1..n) /\ Cardinality(1..n) = n BY <1>2, FS_Interval
  <2> QED BY <1>9, <2>1, FS_Injection
<1>11. ASSUME NEW k \in 1..n PROVE \E i \in Live : Cardinality(B(i)) = k - 1
  <2>1. PICK i \in Live : place[i] = k BY <1>10 DEF Surjection
  <2>2. Cardinality(B(i)) + 1 = k BY <2>1
  <2> QED BY <1>4, <2>2
<1> QED BY <1>8, <1>11

\* A request is answered, or read for.
GoesWith(t, s, ph, ans) == Goes(t, s, Turned(calls[t][s], ph, ans))

LEMMA AnsweredWith ==
    /\ \A t, s, ans : Answered(t, s, ans) => GoesWith(t, s, "back", ans)
    /\ \A t, s, ans : Reads(t, s, ans) => GoesWith(t, s, "read", ans)
BY DEF Answered, Reads, GoesWith, Turned

LEMMA AnswerGoes ==
    ASSUME CallsOK, NEW t \in Tabs, NEW s \in Slots, NEW ans, NEW ph \in {"back", "read"},
           GoesWith(t, s, ph, ans)
    PROVE  \E d : /\ d.what = calls[t][s].what /\ d.phase = ph /\ d.ans = ans
                  /\ \A u \in Tabs, r \in Slots : calls'[u][r] = IF u = t /\ r = s THEN d ELSE calls[u][r]
<1>1. GoodCall(calls[t][s]) /\ ph \in Phases BY DEF CallsOK, Phases
<1>2. PICK d : d = Turned(calls[t][s], ph, ans) OBVIOUS
<1>3. d.what = calls[t][s].what /\ d.phase = ph /\ d.ans = ans BY <1>1, <1>2, TurnedCall
<1>4. Goes(t, s, d) BY <1>2 DEF GoesWith
<1> QED BY <1>3, <1>4, SlotGoes

\* The other tabs go on asking what they asked.
LEMMA AnswerOthers ==
    ASSUME CallsOK, PhotosInv, NEW t \in Tabs, NEW s \in Slots, NEW ans, NEW ph \in {"back", "read"},
           Underway(calls[t][s]), GoesWith(t, s, ph, ans)
    PROVE  OthersFit
<1>1. PICK d : /\ d.what = calls[t][s].what /\ d.phase = ph /\ d.ans = ans
               /\ \A u \in Tabs, r \in Slots : calls'[u][r] = IF u = t /\ r = s THEN d ELSE calls[u][r]
  BY AnswerGoes
<1>2. \A u \in Tabs \ {Page}, r \in Slots : OtherFits(calls[u][r]) BY DEF PhotosInv, PageFits, CallsFit
<1>3. OtherFits(calls[t][s]) => OtherFits(d) BY <1>1 DEF OtherFits
<1> QED BY <1>1, <1>2, <1>3 DEF OthersFit

\* A request is answered, or read for, and no photos change with it.
LEMMA AnswerKeepsPhotos ==
    ASSUME CatalogoInv, PanelInv, PhotosInv, Recalled, LotesStay, UNCHANGED pageVars,
           NEW t \in Tabs, NEW s \in Slots, NEW ans, NEW ph \in {"back", "read"},
           Underway(calls[t][s]), ~Okay(calls[t][s]), GoesWith(t, s, ph, ans),
           \/ ph = "read" \/ ans = Failed
           \/ calls[t][s].what.op \in {"reorder", "edit", "delete"}
           \/ calls[t][s].what.op = "upload" /\ IsSeq(ans.urls)
           \/ t # Page
    PROVE  PhotosInv'
<1>0. CallsOK /\ RowsOK BY DEF CatalogoInv
<1>1. PICK d : /\ d.what = calls[t][s].what /\ d.phase = ph /\ d.ans = ans
               /\ \A u \in Tabs, r \in Slots : calls'[u][r] = IF u = t /\ r = s THEN d ELSE calls[u][r]
  BY <1>0, AnswerGoes
<1>2. t = Page => Quietly(calls[t][s], d) /\ (IsSave(calls[t][s]) => IsSave(d))
  <2> SUFFICES ASSUME t = Page PROVE Quietly(calls[t][s], d) /\ (IsSave(calls[t][s]) => IsSave(d))
    OBVIOUS
  <2>1. Underway(d) BY <1>1 DEF Underway
  <2>2. CASE ph = "read" \/ ans = Failed
    <3>1. ~Okay(d) BY <1>1, <2>2 DEF Okay, Heard, Refusal
    <3> QED BY <1>1, <2>1, <3>1 DEF Quietly, IsSave
  <2>3. CASE calls[t][s].what.op \in {"edit", "delete"}
    <3>1. ~Minds(d) /\ AsksNew(d) /\ ~IsSave(calls[t][s])
      BY <1>1, <2>3 DEF Minds, AsksNew, OfPhotos, IsOrder, IsNew, IsList, IsSave
    <3> QED BY <3>1 DEF Quietly
  <2>4. CASE calls[t][s].what.op = "reorder" \/ (calls[t][s].what.op = "upload" /\ IsSeq(ans.urls))
    BY <1>1, <2>1, <2>4 DEF Quietly, IsSave
  <2> QED BY <2>2, <2>3, <2>4
<1>3. \A r \in Slots : Quietly(Call(r), Call(r)') /\ ~Forgotten(r)
  BY <1>1, <1>2, PageAssumption DEF Quietly, Call, Forgotten
<1>4. OthersFit BY <1>0, AnswerOthers
<1> QED BY <1>0, <1>3, <1>4, IdleStep DEF pageVars

LEMMA OwnedStays ==
    ASSUME RowsOK, NEW t \in Tabs, NEW s \in Slots, NEW op, NEW fits, NEW ans, NEW row,
           ServeOwned(t, s, op, fits, ans, row),
           calls[t][s].what.lote \in Live => row.images = lotes[calls[t][s].what.lote].images
    PROVE  LotesStay
<1>1. PICK l : l = calls[t][s].what.lote OBVIOUS
<1>2. lotes' = lotes \/ (l \in Live /\ lotes' = [lotes EXCEPT ![l] = row]) BY <1>1 DEF ServeOwned, Owned
<1>3. CASE l \in Live /\ lotes' = [lotes EXCEPT ![l] = row]
  <2>1. l \in DOMAIN lotes BY <1>3 DEF Live
  <2>2. DOMAIN lotes' = DOMAIN lotes /\ \A i \in DOMAIN lotes : lotes'[i] = IF i = l THEN row ELSE lotes[i]
    BY <1>3, <2>1
  <2> QED BY <1>1, <1>3, <2>2 DEF LotesStay
<1> QED BY <1>2, <1>3 DEF LotesStay

\* But for a save of photos, what is served leaves the photos of the lotes alone.
LEMMA ReorderStays == ASSUME RowsOK, NEW t \in Tabs, NEW s \in Slots, ReorderCommits(t, s) PROVE LotesStay
<1> DEFINE c == calls[t][s]
<1>1. PICK moved, place : lotes' = [i \in DOMAIN lotes |-> IF i \in moved THEN [lotes[i] EXCEPT !.order = place[i]]
                                                           ELSE lotes[i]]
  <2> DEFINE P(i) == (CHOOSE k \in DOMAIN c.what.ids : c.what.ids[k] = i) - 1
             m == {i \in DOMAIN c.ans.orders : P(i) # c.ans.orders[i]}
             p == [i \in DOMAIN lotes |-> P(i)]
  <2>1. lotes' = [i \in DOMAIN lotes |-> IF i \in m THEN [lotes[i] EXCEPT !.order = P(i)] ELSE lotes[i]]
    BY DEF ReorderCommits
  <2>2. \A i \in DOMAIN lotes : p[i] = P(i) OBVIOUS
  <2> HIDE DEF P, m, p
  <2>3. lotes' = [i \in DOMAIN lotes |-> IF i \in m THEN [lotes[i] EXCEPT !.order = p[i]] ELSE lotes[i]]
    BY <2>1, <2>2
  <2> QED BY <2>3
<1>2. \A i \in DOMAIN lotes : lotes'[i].images = lotes[i].images BY <1>1 DEF RowsOK, GoodRow
<1> QED BY <1>1, <1>2 DEF LotesStay

LEMMA EditStays == ASSUME RowsOK, NEW t \in Tabs, NEW s \in Slots, ServeEdit(t, s) PROVE LotesStay
<1> DEFINE c == calls[t][s]
           old == lotes[c.what.lote]
           row == [old EXCEPT !.number = c.what.number]
<1>1. PICK fits : ServeOwned(t, s, "edit", fits, Done, row) BY DEF ServeEdit
<1>2. c.what.lote \in Live => row.images = lotes[c.what.lote].images BY DEF RowsOK, GoodRow, Live
<1> HIDE DEF row
<1> QED BY <1>1, <1>2, OwnedStays

LEMMA DeleteStays == ASSUME RowsOK, NEW t \in Tabs, NEW s \in Slots, ServeDelete(t, s) PROVE LotesStay
<1> DEFINE c == calls[t][s]
           old == lotes[c.what.lote]
           row == [old EXCEPT !.here = FALSE]
<1>1. ServeOwned(t, s, "delete", TRUE, Done, row) BY DEF ServeDelete
<1>2. c.what.lote \in Live => row.images = lotes[c.what.lote].images BY DEF RowsOK, GoodRow, Live
<1> HIDE DEF row
<1> QED BY <1>1, <1>2, OwnedStays

LEMMA QuietServed ==
    ASSUME CatalogoInv, PanelInv, PhotosInv, Recalled, UNCHANGED pageVars, NEW t \in Tabs, NEW s \in Slots,
           \/ CreateReads(t, s) \/ ReorderReads(t, s) \/ ReorderCommits(t, s)
           \/ ServeEdit(t, s) \/ ServeDelete(t, s) \/ ServeUpload(t, s)
    PROVE  PhotosInv'
<1> DEFINE c == calls[t][s]
<1>0. RowsOK BY DEF CatalogoInv
<1>1. UNCHANGED lotes => LotesStay BY DEF LotesStay
<1>2. /\ \A ans : Answered(t, s, ans) => GoesWith(t, s, "back", ans)
      /\ \A ans : Reads(t, s, ans) => GoesWith(t, s, "read", ans)
  BY AnsweredWith
<1>3. Underway(c) /\ ~Okay(c)
  <2>1. c.phase \in {"sent", "read"}
    BY DEF CreateReads, ReorderReads, ReorderCommits, ServeEdit, ServeDelete, ServeOwned, ServeUpload, Welcome
  <2> QED BY <2>1 DEF Underway, Okay, Heard
<1>4. CASE CreateReads(t, s) \/ ReorderReads(t, s)
  <2>1. UNCHANGED lotes /\ (Answered(t, s, Failed) \/ \E ans : Reads(t, s, ans))
    BY <1>4 DEF CreateReads, ReorderReads, serverVars
  <2> QED BY <1>1, <1>2, <1>3, <2>1, AnswerKeepsPhotos
<1>5. CASE ReorderCommits(t, s)
  <2>1. Answered(t, s, Done) /\ c.what.op = "reorder" BY <1>5 DEF ReorderCommits
  <2>2. LotesStay BY <1>0, <1>5, ReorderStays
  <2> QED BY <1>2, <1>3, <2>1, <2>2, AnswerKeepsPhotos
<1>6. CASE ServeEdit(t, s)
  <2>1. c.what.op = "edit" /\ \E ans : Answered(t, s, ans) BY <1>6 DEF ServeEdit, ServeOwned
  <2>2. LotesStay BY <1>0, <1>6, EditStays
  <2> QED BY <1>2, <1>3, <2>1, <2>2, AnswerKeepsPhotos
<1>7. CASE ServeDelete(t, s)
  <2>1. c.what.op = "delete" /\ \E ans : Answered(t, s, ans) BY <1>7 DEF ServeDelete, ServeOwned
  <2>2. LotesStay BY <1>0, <1>7, DeleteStays
  <2> QED BY <1>2, <1>3, <2>1, <2>2, AnswerKeepsPhotos
<1>8. CASE ServeUpload(t, s)
  <2> DEFINE stored(k) == [op |-> "urls", urls |-> [i \in 1..k |-> photos + i]]
  <2>1. UNCHANGED lotes /\ c.what.op = "upload" /\ \E k \in {0} \cup 0..c.what.files : Answered(t, s, stored(k))
    BY <1>8 DEF ServeUpload
  <2>2. \A k \in {0} \cup 0..c.what.files : IsSeq(stored(k).urls)
    <3> TAKE k \in {0} \cup 0..c.what.files
    <3>1. k \in Nat OBVIOUS
    <3>2. PICK u : u = stored(k).urls OBVIOUS
    <3>3. u = [i \in 1..k |-> photos + i] BY <3>2
    <3>4. u = [i \in 1..k |-> u[i]] BY <3>3
    <3> QED BY <3>1, <3>2, <3>4 DEF IsSeq
  <2> HIDE DEF stored
  <2> QED BY <1>1, <1>2, <1>3, <2>1, <2>2, AnswerKeepsPhotos
<1> QED BY <1>4, <1>5, <1>6, <1>7, <1>8

\* What the list answers is what the lotes have.
LEMMA ServeListKeepsPhotos ==
    ASSUME CatalogoInv, PanelInv, PhotosInv, Recalled, UNCHANGED pageVars, NEW t \in Tabs, NEW s \in Slots,
           ServeList(t, s)
    PROVE  PhotosInv'
<1>0. CallsOK /\ RowsOK /\ PageFits /\ UNCHANGED <<lotes, page, drawer, refs, binned>>
  BY DEF CatalogoInv, PhotosInv, ServeList, serverVars, pageVars
<1>1. PICK q \in Listings : Answered(t, s, [op |-> "list", rows |-> [k \in DOMAIN q |-> Shown(q[k])]])
  BY DEF ServeList
<1> DEFINE ans == [op |-> "list", rows |-> [k \in DOMAIN q |-> Shown(q[k])]]
<1>2. GoesWith(t, s, "back", ans) BY <1>1, AnsweredWith
<1>3. PICK rows : rows = ans.rows OBVIOUS
<1>4. /\ DOMAIN rows = 1..Cardinality(Live) /\ IsSeq(rows)
      /\ \A k \in DOMAIN rows : rows[k].id \in DOMAIN lotes /\ rows[k].images = lotes[rows[k].id].images
  <2>1. DOMAIN q = 1..Cardinality(Live) /\ \A k \in DOMAIN q : q[k] \in Live BY <1>0, ListedAreLive
  <2>2. Cardinality(Live) \in Nat BY <1>0, FiniteLive
  <2>3. DOMAIN rows = 1..Cardinality(Live) /\ \A k \in DOMAIN rows : rows[k] = Shown(q[k]) BY <1>3, <2>1
  <2>4. rows = [k \in 1..Cardinality(Live) |-> rows[k]] BY <1>3, <2>1
  <2>5. IsSeq(rows) BY <2>2, <2>4 DEF IsSeq
  <2>6. ASSUME NEW k \in DOMAIN rows
        PROVE  rows[k].id \in DOMAIN lotes /\ rows[k].images = lotes[rows[k].id].images
    <3>1. q[k] \in DOMAIN lotes BY <2>1, <2>3 DEF Live
    <3>2. rows[k].id = q[k] /\ rows[k].images = lotes[q[k]].images BY <2>3 DEF Shown
    <3> QED BY <3>1, <3>2
  <2> QED BY <2>3, <2>5, <2>6
<1>5. Underway(calls[t][s]) /\ ~Okay(calls[t][s]) /\ calls[t][s].what.op = "list"
  BY DEF ServeList, Welcome, Underway, Okay, Heard
<1> HIDE DEF ans
<1>6. CASE t # Page
  <2>1. LotesStay BY <1>0 DEF LotesStay
  <2> QED BY <1>2, <1>5, <1>6, <2>1, AnswerKeepsPhotos
<1>7. CASE t = Page
  <2>1. PICK d : /\ d.what = calls[t][s].what /\ d.phase = "back" /\ d.ans = ans
                 /\ \A u \in Tabs, r \in Slots : calls'[u][r] = IF u = t /\ r = s THEN d ELSE calls[u][r]
    BY <1>0, <1>2, AnswerGoes
  <2>2. Call(s)' = d /\ \A r \in Slots \ {s} : Call(r)' = Call(r) BY <1>7, <2>1, PageAssumption DEF Call
  <2>3. Underway(d) /\ d.what.op = "list" /\ d.ans.rows = rows BY <1>3, <1>5, <2>1 DEF Underway
  <2>4. IsList(d) /\ ~OfPhotos(d) /\ ~IsSave(d) /\ ~IsOrder(d) /\ ~IsNew(d) /\ ~IsStaged(d)
    BY <2>3 DEF IsList, OfPhotos, IsSave, IsOrder, IsNew, IsStaged
  <2>5. \A r \in Slots : Quietly(Call(r), Call(r)') \/ (r = s /\ Call(r)' = d) BY <2>2 DEF Quietly
  <2>6. PageFits'
    <3>1. RowsFit(rows, DOMAIN lotes') BY <1>0, <1>4 DEF RowsFit, PageFits
    <3>2. CallFits(d, DOMAIN lotes', Len(refs')) BY <2>3, <2>4, <3>1 DEF CallFits, AsksNew
    <3>3. Len(refs) <= Len(refs') /\ RefsFit' /\ RowsFit(page'.rows, DOMAIN lotes') /\ DrawerFits'
      <4>1. Len(refs) \in Nat BY <1>0, SeqLen DEF PageFits, RefsFit
      <4> QED BY <1>0, <4>1 DEF PageFits, RefsFit, DrawerFits
    <3>4. \A u \in Tabs \ {Page}, r \in Slots : OtherFits(calls'[u][r])
      BY <1>0, <1>2, <1>5, AnswerOthers DEF OthersFit
    <3>5. DOMAIN lotes \subseteq DOMAIN lotes' /\ \A i \in DOMAIN lotes' : IsSeq(lotes'[i].images)
      BY <1>0 DEF PageFits
    <3> QED BY <1>0, <2>5, <3>2, <3>3, <3>4, <3>5, PassFits
  <2>7. ASSUME NEW i \in DOMAIN lotes' \ clashed' PROVE PhotosKept(i)'
    <3>1. i \in DOMAIN lotes /\ lotes'[i].images = lotes[i].images /\ Kept(i)' = Kept(i) /\ i # 0
      BY <1>0, <2>7, LoteIsNot0 DEF Kept
    <3>2. Alone(i)' /\ PhotosKept(i) BY <2>7, <3>1, NotClashed
    <3>3. CallsKeep(i)' BY <2>4, <2>5, <3>1, <3>2, PassCalls DEF PhotosKept, SaveKeeps, OrderKeeps
    <3>4. BirthKeeps(i)'
      BY <1>0, <2>4, <2>5, <3>1, <3>2, PassBirths DEF PhotosKept, Births, Concerns, Of
    <3>5. None(i)' => None(i)
      <4>1. \A r \in Slots : Stored(Call(r), i) => r # s BY <1>5, <1>7 DEF Stored, IsSave, Call
      <4> QED BY <2>2, <4>1 DEF None
    <3>6. ListKeeps(i)'
      <4> SUFFICES ASSUME page'.open, None(i)'
                   PROVE  /\ page'.list = "ready" => RowsKeep(page'.rows, i, Kept(i)')
                          /\ \A r \in Slots : LoadKeeps(Call(r)', i, page'.load, Kept(i)')
        BY DEF ListKeeps
      <4>1. /\ page.list = "ready" => RowsKeep(page.rows, i, Kept(i))
            /\ \A r \in Slots : LoadKeeps(Call(r), i, page.load, Kept(i))
        BY <1>0, <3>2, <3>5 DEF PhotosKept, ListKeeps
      <4>2. RowsKeep(rows, i, Kept(i)) BY <1>4 DEF RowsKeep, Kept
      <4>3. LoadKeeps(d, i, page.load, Kept(i)) BY <2>3, <4>2 DEF LoadKeeps
      <4> QED BY <1>0, <2>2, <3>1, <4>1, <4>3
    <3>7. GalleryKeeps(i)'
      <4>1. DrawerGoesOn BY <1>0 DEF DrawerGoesOn
      <4> QED BY <1>0, <2>4, <2>5, <3>1, <3>2, <3>5, <4>1, PassGallery DEF PhotosKept
    <3> QED BY <3>2, <3>3, <3>4, <3>6, <3>7 DEF PhotosKept
  <2> QED BY <2>6, <2>7 DEF PhotosInv
<1> QED BY <1>6, <1>7

\* Nobody has heard of a lote that does not exist yet.
LEMMA Unborn ==
    ASSUME NEW c, NEW ids, NEW n, CallFits(c, ids, n), NEW i, i \notin ids
    PROVE  /\ ~Of(c, i) /\ ~Births(c, i)
           /\ \A keep : OrderKeeps(c, i, keep)
           /\ \A load, keep : LoadKeeps(c, i, load, keep)
<1>1. IsStaged(c) => OfPhotos(c) BY DEF IsStaged, OfPhotos
<1>2. \A rows, keep : RowsFit(rows, ids) => RowsKeep(rows, i, keep) BY DEF RowsFit, RowsKeep
<1> QED BY <1>1, <1>2 DEF CallFits, Of, Births, OrderKeeps, LoadKeeps

LEMMA CreateCommitsKeepsPhotos ==
    ASSUME CatalogoInv, PanelInv, PhotosInv, Recalled, UNCHANGED pageVars, NEW t \in Tabs, NEW s \in Slots,
           CreateCommits(t, s)
    PROVE  PhotosInv'
<1>a. PICK id : id = Len(lotes) + 1 OBVIOUS
<1> DEFINE c == calls[t][s]
           ans == [op |-> "lote", id |-> id, images |-> c.what.images]
           row == [number |-> c.what.number, order |-> c.ans.order, here |-> TRUE, images |-> c.what.images]
<1>0. CallsOK /\ RowsOK /\ PageFits /\ UNCHANGED <<page, drawer, refs, binned>>
  BY DEF CatalogoInv, PhotosInv, pageVars
<1>1. Underway(c) /\ ~Okay(c) /\ c.what.op = "create" BY DEF CreateCommits, Underway, Okay, Heard
<1>2. CASE Answered(t, s, Failed) /\ UNCHANGED lotes
  <2>1. LotesStay BY <1>2 DEF LotesStay
  <2>2. GoesWith(t, s, "back", Failed) BY <1>2, AnsweredWith
  <2> QED BY <1>1, <2>1, <2>2, AnswerKeepsPhotos
<1>3. CASE Answered(t, s, ans) /\ lotes' = Append(lotes, row)
  <2>1. GoesWith(t, s, "back", ans) BY <1>3, AnsweredWith
  <2>2. PICK n \in Nat : lotes = [i \in 1..n |-> lotes[i]] BY <1>0 DEF RowsOK
  <2>3. ans.id = id /\ row.images = c.what.images OBVIOUS
  <2>4. ans \notin {Failed, Lost, Denied}
    <3>1. ans.op = "lote" OBVIOUS
    <3> HIDE DEF ans
    <3> QED BY <3>1 DEF Failed, Lost, Denied
  <2> HIDE DEF row, ans
  <2>5. lotes' = [i \in 1..(n + 1) |-> IF i = n + 1 THEN row ELSE lotes[i]] /\ Len(lotes) = n
    BY <1>3, <2>2, AppendRow
  <2>6. /\ DOMAIN lotes = 1..n /\ DOMAIN lotes' = 1..(n + 1) /\ id = n + 1
        /\ \A i \in 1..(n + 1) : lotes'[i] = IF i = n + 1 THEN row ELSE lotes[i]
    BY <1>a, <2>2, <2>5
  <2>7. DOMAIN lotes \subseteq DOMAIN lotes' /\ id \in DOMAIN lotes' /\ id \notin DOMAIN lotes
        /\ \A i \in DOMAIN lotes' : i = id \/ i \in DOMAIN lotes
    BY <2>6
  <2>8. lotes'[id].images = c.what.images /\ \A i \in DOMAIN lotes : lotes'[i] = lotes[i] BY <2>3, <2>6
  <2>9. PICK d : /\ d.what = c.what /\ d.phase = "back" /\ d.ans = ans
                 /\ \A u \in Tabs, r \in Slots : calls'[u][r] = IF u = t /\ r = s THEN d ELSE calls[u][r]
    BY <1>0, <2>1, AnswerGoes
  <2>10. /\ Underway(d) /\ Okay(d) /\ d.what.op = "create" /\ d.ans.id = id
         /\ \A r \in Slots : Call(r)' = IF Page = t /\ r = s THEN d ELSE Call(r)
         /\ t = Page => Call(s) = c /\ Call(s)' = d
    BY <1>1, <2>3, <2>4, <2>9, PageAssumption DEF Call, Underway, Okay, Heard, Refusal
  <2>11. IsNew(d) /\ ~OfPhotos(d) /\ ~IsSave(d) /\ ~IsOrder(d) /\ ~IsList(d) /\ ~IsStaged(d)
    BY <2>10 DEF IsList, OfPhotos, IsSave, IsOrder, IsNew, IsStaged
  <2>12. \A r \in Slots : CallFits(Call(r), DOMAIN lotes, Len(refs)) BY <1>0 DEF PageFits, CallsFit
  <2>13. t = Page => AsksNew(c) /\ AsksNew(d)
    <3>1. t = Page => AsksNew(c) BY <2>10, <2>12 DEF CallFits
    <3> QED BY <1>1, <2>9, <2>11, <3>1 DEF AsksNew, IsNew
  <2>14. IsSeq(c.what.images) /\ (t = Page /\ c.what.by = "drawer" => c.what.images = <<>>)
    <3>1. CASE t = Page BY <1>1, <2>13, <3>1 DEF AsksNew, IsNew
    <3>2. CASE t # Page BY <1>0, <1>1, <3>2, EmptyIsSeq DEF PageFits, CallsFit, OtherFits
    <3> QED BY <3>1, <3>2
  <2>15. \A r \in Slots : Quietly(Call(r), Call(r)') \/ (t = Page /\ r = s /\ Call(r)' = d) BY <2>10 DEF Quietly
  <2>16. PageFits'
    <3>1. CallFits(d, DOMAIN lotes', Len(refs')) \/ t # Page
      BY <2>7, <2>10, <2>11, <2>13 DEF CallFits
    <3>2. Len(refs) <= Len(refs') /\ RefsFit' /\ RowsFit(page'.rows, DOMAIN lotes') /\ DrawerFits'
      <4>1. Len(refs) \in Nat BY <1>0, SeqLen DEF PageFits, RefsFit
      <4>2. RowsFit(page.rows, DOMAIN lotes') BY <1>0, <2>7 DEF PageFits, RowsFit
      <4>3. DrawerFits' BY <1>0, <2>7 DEF PageFits, DrawerFits
      <4> QED BY <1>0, <4>1, <4>2, <4>3 DEF PageFits, RefsFit
    <3>3. OthersFit BY <1>0, <1>1, <2>1, AnswerOthers
    <3>4. \A i \in DOMAIN lotes' : IsSeq(lotes'[i].images) BY <1>0, <2>7, <2>8, <2>14 DEF PageFits
    <3> QED BY <1>0, <2>7, <2>15, <3>1, <3>2, <3>3, <3>4, PassFits DEF OthersFit
  <2>17. ASSUME NEW i \in DOMAIN lotes, i \notin clashed' PROVE PhotosKept(i)'
    <3>1. i \in DOMAIN lotes' /\ lotes'[i].images = lotes[i].images /\ Kept(i)' = Kept(i) /\ i # 0 /\ i # id
      BY <1>0, <2>7, <2>8, LoteIsNot0 DEF Kept
    <3>2. Alone(i)' /\ PhotosKept(i) BY <2>17, <3>1, NotClashed
    <3>3. ~Of(d, i) /\ ~Births(d, i) BY <2>10, <2>11, <3>1 DEF Of, Births
    <3>4. CallsKeep(i)' BY <2>11, <2>15, <3>1, <3>2, PassCalls DEF PhotosKept, SaveKeeps, OrderKeeps
    <3>5. BirthKeeps(i)' BY <1>0, <2>15, <3>1, <3>2, <3>3, PassBirths DEF PhotosKept, Concerns
    <3>6. None(i)' => None(i)
      <4>1. \A r \in Slots : Stored(Call(r), i) => Call(r)' = Call(r)
        BY <1>1, <2>10 DEF Stored, IsSave
      <4> QED BY <4>1 DEF None
    <3>7. ListKeeps(i)'
      <4>1. PageGoesOn BY <1>0 DEF PageGoesOn
      <4> QED BY <2>11, <2>15, <3>1, <3>2, <3>6, <4>1, PassList DEF PhotosKept
    <3>8. GalleryKeeps(i)'
      <4>1. DrawerGoesOn BY <1>0 DEF DrawerGoesOn
      <4> QED BY <1>0, <2>11, <2>15, <3>1, <3>2, <3>6, <4>1, PassGallery DEF PhotosKept
    <3> QED BY <3>2, <3>4, <3>5, <3>7, <3>8 DEF PhotosKept
  <2>18. ASSUME id \notin clashed' PROVE PhotosKept(id)'
    <3>1. Alone(id)' BY <2>7, <2>18, NotClashed
    <3>2. ASSUME NEW r \in Slots, ~(t = Page /\ r = s)
          PROVE  /\ ~Of(Call(r)', id) /\ ~Births(Call(r)', id)
                 /\ OrderKeeps(Call(r)', id, Kept(id)') /\ LoadKeeps(Call(r)', id, page'.load, Kept(id)')
      <4>1. PICK e, f : e = Call(r) /\ f = Call(r)' OBVIOUS
      <4>2. f = e BY <2>10, <3>2, <4>1
      <4>3. CallFits(e, DOMAIN lotes, Len(refs)) BY <2>12, <4>1
      <4>4. PICK j, keep, load : j = id /\ keep = Kept(id)' /\ load = page'.load OBVIOUS
      <4> QED BY <2>7, <4>1, <4>2, <4>3, <4>4, Unborn
    <3>3. ASSUME NEW r \in Slots, t = Page, r = s
          PROVE  /\ Call(r)' = d /\ ~Of(Call(r)', id) /\ ~IsStaged(d)
                 /\ OrderKeeps(Call(r)', id, Kept(id)') /\ LoadKeeps(Call(r)', id, page'.load, Kept(id)')
      <4>1. Call(r)' = d BY <2>10, <3>3
      <4> QED BY <2>11, <4>1 DEF Of, OrderKeeps, LoadKeeps
    <3>4. CallsKeep(id)'
      <4>1. \A r \in Slots : SaveKeeps(Call(r)', id, lotes'[id].images, Kept(id)') /\ OrderKeeps(Call(r)', id, Kept(id)')
        BY <3>2, <3>3 DEF SaveKeeps
      <4> QED BY <4>1 DEF CallsKeep
    <3>5. ListKeeps(id)'
      <4>1. \A r \in Slots : LoadKeeps(Call(r)', id, page'.load, Kept(id)') BY <3>2, <3>3
      <4>2. RowsKeep(page'.rows, id, Kept(id)') BY <1>0, <2>7 DEF PageFits, RowsFit, RowsKeep
      <4> QED BY <4>1, <4>2 DEF ListKeeps
    <3>6. drawer'.shows # id
      <4>1. id # 0 BY <2>6, <2>7
      <4> QED BY <1>0, <2>7, <4>1 DEF PageFits, DrawerFits
    <3>7. GalleryKeeps(id)' BY <3>6 DEF GalleryKeeps
    <3>8. BirthKeeps(id)'
      <4> SUFFICES ASSUME NEW r \in Slots, Births(Call(r)', id)
                   PROVE  /\ drawer'.shows # id
                          /\ None(id)' => lotes'[id].images = <<>>
                          /\ \A q \in Slots : Of(Call(q)', id) \/ Births(Call(q)', id) => q = r
        BY DEF BirthKeeps
      <4>1. t = Page /\ r = s BY <3>2
      <4>2. Births(d, id) BY <3>3, <4>1
      <4>3. c.what.by = "drawer" BY <2>9, <2>11, <4>2 DEF Births
      <4>4. lotes'[id].images = <<>> BY <2>8, <2>14, <4>1, <4>3
      <4> QED BY <3>2, <3>3, <3>6, <4>1, <4>4
    <3> QED BY <3>1, <3>4, <3>5, <3>7, <3>8 DEF PhotosKept
  <2> QED BY <2>7, <2>16, <2>17, <2>18 DEF PhotosInv
<1> QED BY <1>a, <1>2, <1>3 DEF CreateCommits

\* The photos of a lote are replaced by those of the save, which has all that are kept.
LEMMA ServePhotosKeepsPhotos ==
    ASSUME CatalogoInv, PanelInv, PhotosInv, Recalled, UNCHANGED pageVars, NEW t \in Tabs, NEW s \in Slots,
           ServePhotos(t, s)
    PROVE  PhotosInv'
<1>a. PICK j, images : j = calls[t][s].what.lote /\ images = calls[t][s].what.images OBVIOUS
<1> DEFINE c == calls[t][s]
           ans == [op |-> "lote", id |-> j, images |-> images]
           row == [lotes[j] EXCEPT !.images = images]
<1>0. CallsOK /\ RowsOK /\ PageFits /\ UNCHANGED <<page, drawer, refs, binned>>
  BY DEF CatalogoInv, PhotosInv, pageVars
<1>1. ServeOwned(t, s, "photos", TRUE, ans, row) BY <1>a DEF ServePhotos
<1>2. Underway(c) /\ ~Okay(c) /\ c.what.op = "photos" BY <1>1 DEF ServeOwned, Welcome, Underway, Okay, Heard
<1>3. t = Page BY <1>0, <1>2 DEF PageFits, CallsFit, OtherFits
<1>4. /\ ans.id = j /\ ans.images = images /\ ans \notin {Failed, Lost, Denied}
      /\ j \in Live => row.images = images
  <2>1. ans.op = "lote" OBVIOUS
  <2>2. j \in Live => row.images = images BY <1>0 DEF RowsOK, GoodRow, Live
  <2>3. ans.id = j /\ ans.images = images OBVIOUS
  <2> HIDE DEF ans, row
  <2> QED BY <2>1, <2>2, <2>3 DEF Failed, Lost, Denied
<1> HIDE DEF ans, row
<1>5. CASE Answered(t, s, Failed) /\ UNCHANGED lotes
  <2>1. LotesStay BY <1>5 DEF LotesStay
  <2>2. GoesWith(t, s, "back", Failed) BY <1>5, AnsweredWith
  <2> QED BY <1>2, <2>1, <2>2, AnswerKeepsPhotos
<1>6. CASE Answered(t, s, ans) /\ j \in Live /\ lotes' = [lotes EXCEPT ![j] = row]
  <2>1. GoesWith(t, s, "back", ans) BY <1>6, AnsweredWith
  <2>2. PICK d : /\ d.what = c.what /\ d.phase = "back" /\ d.ans = ans
                 /\ \A u \in Tabs, r \in Slots : calls'[u][r] = IF u = t /\ r = s THEN d ELSE calls[u][r]
    BY <1>0, <2>1, AnswerGoes
  <2>3. /\ Call(s) = c /\ Call(s)' = d /\ \A r \in Slots \ {s} : Call(r)' = Call(r)
        /\ Underway(d) /\ Okay(d) /\ d.what = Call(s).what
    BY <1>3, <1>4, <2>2, PageAssumption DEF Call, Underway, Okay, Heard, Refusal
  <2>4. /\ j \in DOMAIN lotes /\ DOMAIN lotes' = DOMAIN lotes /\ lotes'[j].images = images
        /\ \A i \in DOMAIN lotes : i # j => lotes'[i] = lotes[i]
    BY <1>4, <1>6 DEF Live
  <2>5. \A r \in Slots : /\ Call(r)'.what = Call(r).what /\ Underway(Call(r)') = Underway(Call(r))
                         /\ OfPhotos(Call(r)') = OfPhotos(Call(r)) /\ IsSave(Call(r)') = IsSave(Call(r))
                         /\ IsOrder(Call(r)') = IsOrder(Call(r)) /\ IsStaged(Call(r)') = IsStaged(Call(r))
                         /\ \A i : Of(Call(r)', i) = Of(Call(r), i) /\ Births(Call(r)', i) = Births(Call(r), i)
    <3> TAKE r \in Slots
    <3>1. PICK e, f : e = Call(r) /\ f = Call(r)' OBVIOUS
    <3>2. CASE r = s
      <4>1. f.what = e.what /\ Underway(e) /\ Underway(f) /\ e.what.op = "photos" BY <1>2, <2>3, <3>1, <3>2
      <4> QED BY <3>1, <4>1 DEF OfPhotos, IsSave, IsOrder, IsStaged, Of, Births, IsNew
    <3>3. CASE r # s BY <2>3, <3>3
    <3> QED BY <3>2, <3>3
  <2>6. IsSave(d) /\ Of(d, j) /\ OfPhotos(d) /\ ~IsList(d) /\ ~IsOrder(d) /\ ~IsNew(d)
    BY <1>2, <1>a, <2>3 DEF IsSave, Of, OfPhotos, IsList, IsOrder, IsNew
  <2>7. \A r \in Slots : Quietly(Call(r), Call(r)') \/ (r = s /\ Call(r)' = d) BY <2>3 DEF Quietly
  <2>8. CallFits(c, DOMAIN lotes, Len(refs)) /\ IsSave(c) /\ OfPhotos(c)
    BY <1>0, <1>2, <2>3 DEF PageFits, CallsFit, IsSave, OfPhotos
  <2>9. IsSeq(images) BY <1>a, <2>8 DEF CallFits
  <2>10. PageFits'
    <3>1. CallFits(d, DOMAIN lotes', Len(refs'))
      <4>1. d.ans.id = d.what.lote /\ d.ans.images = d.what.images BY <1>a, <1>4, <2>2
      <4>2. UNCHANGED <<DOMAIN lotes, Len(refs)>> BY <1>0, <2>4
      <4> QED BY <2>3, <2>6, <2>8, <4>1, <4>2 DEF CallFits, AsksNew
    <3>2. Len(refs) <= Len(refs') /\ RefsFit' /\ RowsFit(page'.rows, DOMAIN lotes') /\ DrawerFits'
      <4>1. Len(refs) \in Nat BY <1>0, SeqLen DEF PageFits, RefsFit
      <4> QED BY <1>0, <2>4, <4>1 DEF PageFits, RefsFit, DrawerFits
    <3>3. OthersFit BY <1>0, <1>2, <2>1, AnswerOthers
    <3>4. \A i \in DOMAIN lotes' : IsSeq(lotes'[i].images) BY <1>0, <2>4, <2>9 DEF PageFits
    <3> QED BY <1>0, <2>4, <2>7, <3>1, <3>2, <3>3, <3>4, PassFits DEF OthersFit
  <2>11. ASSUME NEW i \in DOMAIN lotes, i # j, i \notin clashed' PROVE PhotosKept(i)'
    <3>1. i \in DOMAIN lotes' /\ lotes'[i].images = lotes[i].images /\ Kept(i)' = Kept(i)
      BY <1>0, <2>4, <2>11 DEF Kept
    <3>2. Alone(i)' /\ PhotosKept(i) BY <2>11, <3>1, NotClashed
    <3>3. ~Of(d, i) /\ ~Births(d, i) BY <1>a, <2>3, <2>6, <2>11 DEF Of, Births, IsStaged
    <3>4. CallsKeep(i)' BY <2>6, <2>7, <3>1, <3>2, <3>3, PassCalls DEF PhotosKept, SaveKeeps, OrderKeeps
    <3>5. BirthKeeps(i)' BY <1>0, <2>7, <3>1, <3>2, <3>3, PassBirths DEF PhotosKept, Concerns
    <3>6. None(i)' => None(i)
      <4>1. \A r \in Slots : Stored(Call(r), i) => r # s BY <1>a, <2>3, <2>11 DEF Stored, Of
      <4> QED BY <2>3, <4>1 DEF None
    <3>7. ListKeeps(i)'
      <4>1. PageGoesOn BY <1>0 DEF PageGoesOn
      <4> QED BY <2>6, <2>7, <3>1, <3>2, <3>6, <4>1, PassList DEF PhotosKept
    <3>8. GalleryKeeps(i)' BY <1>0, <2>5, <3>1, <3>2, <3>6 DEF PhotosKept, GalleryKeeps
    <3> QED BY <3>2, <3>4, <3>5, <3>7, <3>8 DEF PhotosKept
  <2>12. ASSUME j \notin clashed' PROVE PhotosKept(j)'
    <3>1. Alone(j)' /\ PhotosKept(j) BY <2>4, <2>12, NotClashed
    <3>2. ~None(j)' BY <2>3, <2>6 DEF None, Stored
    <3>3. Kept(j)' \subseteq Range(images) BY <2>4 DEF Kept
    <3>4. CallsKeep(j)'
      <4> SUFFICES ASSUME NEW r \in Slots
                   PROVE  SaveKeeps(Call(r)', j, lotes'[j].images, Kept(j)') /\ OrderKeeps(Call(r)', j, Kept(j)')
        BY DEF CallsKeep
      <4>1. ~IsOrder(Call(r)') BY <2>3, <2>6, <3>1 DEF Alone
      <4>2. IsSave(Call(r)') /\ Of(Call(r)', j) => r = s BY <2>3, <2>6, <3>1 DEF Alone
      <4> QED BY <1>a, <2>2, <2>3, <2>4, <4>1, <4>2 DEF SaveKeeps, OrderKeeps
    <3>5. ListKeeps(j)' BY <3>2 DEF ListKeeps
    <3>6. GalleryKeeps(j)'
      <4>1. drawer.shows = j /\ drawer.mount # 0 => refs[drawer.mount] = images
        BY <1>a, <2>3, <2>5, <2>6, <3>1 DEF PhotosKept, GalleryKeeps
      <4> QED BY <1>0, <2>5, <3>1, <3>2, <3>3, <4>1 DEF PhotosKept, GalleryKeeps
    <3>7. BirthKeeps(j)' BY <1>0, <2>5, <3>1, <3>2 DEF PhotosKept, BirthKeeps
    <3> QED BY <3>1, <3>4, <3>5, <3>6, <3>7 DEF PhotosKept
  <2> QED BY <2>4, <2>10, <2>11, <2>12 DEF PhotosInv
<1> QED BY <1>a, <1>1, <1>5, <1>6 DEF ServeOwned, Owned

LEMMA ServedKeepPhotos ==
    ASSUME CatalogoInv, PanelInv, PhotosInv, Recalled, UNCHANGED pageVars, CatalogoProgress
    PROVE  PhotosInv'
BY QuietServed, ServeListKeepsPhotos, CreateCommitsKeepsPhotos, ServePhotosKeepsPhotos DEF CatalogoProgress

------------------------------------------------------------------------------
\* A slot of the page goes on, and the other tabs stay as they are.
LEMMA PageMoves ==
    ASSUME CallsOK, PhotosInv, NEW s \in Slots, NEW c, Goes(Page, s, c)
    PROVE  Only(s, c) /\ OthersFit
<1>1. Only(s, c) BY PageGoes
<1>2. \A t \in Tabs \ {Page}, r \in Slots : calls'[t][r] = calls[t][r] BY SlotGoes, PageAssumption
<1> QED BY <1>1, <1>2 DEF OthersFit, PhotosInv, PageFits, CallsFit

LEMMA ThenMoves ==
    ASSUME CallsOK, PhotosInv, NEW s \in Slots, NEW w, Then(s, w)
    PROVE  \E d : IsFresh(d, w) /\ Only(s, d) /\ OthersFit
BY PageMoves, FreshIs DEF Then

LEMMA EndsMoves ==
    ASSUME CallsOK, PhotosInv, NEW s \in Slots, Ends(s)
    PROVE  \E d : ~Underway(d) /\ Only(s, d) /\ OthersFit
BY PageMoves, NoCallIsGood DEF Ends, Underway

LEMMA AsksMoves ==
    ASSUME CallsOK, PhotosInv, NEW w, Asks(w)
    PROVE  \E f \in Slots : \E d : ~Underway(Call(f)) /\ IsFresh(d, w) /\ Only(f, d) /\ OthersFit
<1>1. FreeSlot(Page) \in Slots /\ calls[Page][FreeSlot(Page)].phase = "idle"
  BY DEF FreeSlot, Asks, Asking, HasRoom
<1>2. Goes(Page, FreeSlot(Page), Fresh(w, store[Page])) BY DEF Asks, Asking, Goes
<1> QED BY <1>1, <1>2, PageMoves, FreshIs DEF Call, Underway

\* What minds no photos.
LEMMA Unminding ==
    ASSUME NEW d
    PROVE  /\ ~Underway(d) => ~Minds(d) /\ AsksNew(d)
           /\ ~Okay(d) /\ d.what.op \notin {"photos", "upload", "reorder"}
                 /\ (d.what.op = "create" => IsSeq(d.what.images) /\ (d.what.by = "drawer" => d.what.images = <<>>))
              => ~Minds(d) /\ AsksNew(d)
BY DEF Minds, AsksNew, OfPhotos, IsOrder, IsNew, IsList

\* One slot goes on and minds no photos.
LEMMA OneQuiet ==
    ASSUME PhotosInv, RowsOK, PanelInv, Recalled, UNCHANGED <<lotes, refs, binned>>, OthersFit,
           NEW s \in Slots, NEW d, Only(s, d), ~Minds(d), AsksNew(d),
           PageGoesOn, page'.rows = page.rows, DrawerGoesOn, DrawerFits',
           IsSave(Call(s)) /\ Okay(Call(s)) => Call(s).what.mount = 0 /\ page'.load = page.load + 1
    PROVE  PhotosInv'
<1>1. \A r \in Slots : Quietly(Call(r), Call(r)') /\ (Forgotten(r) => r = s) BY DEF Only, Quietly, Forgotten
<1>2. LotesStay BY DEF LotesStay
<1> QED BY <1>1, <1>2, QuietStep DEF Forgotten

\* What the page and the drawer may turn to.
LEMMA PageTurns ==
    ASSUME PanelInv
    PROVE  /\ UNCHANGED page => PageGoesOn /\ page'.rows = page.rows
           /\ page' = [page EXCEPT !.list = "error"] => PageGoesOn /\ page'.rows = page.rows /\ page'.open = page.open
           /\ page' = Loading => PageGoesOn /\ page'.rows = page.rows /\ page'.open = page.open
                                 /\ page'.load = page.load + 1
<1>1. DOMAIN page = {"open", "rows", "list", "load"} BY DEF PanelInv, PageShape
<1>2. page' = Loading => PageGoesOn /\ page'.rows = page.rows /\ page'.open = page.open /\ page'.load = page.load + 1
  BY LoadingIs DEF PageGoesOn
<1>3. page' = [page EXCEPT !.list = "error"] => PageGoesOn /\ page'.rows = page.rows /\ page'.open = page.open
  BY <1>1 DEF PageGoesOn
<1> QED BY <1>2, <1>3 DEF PageGoesOn

LEMMA SameDrawer ==
    ASSUME PageFits, UNCHANGED <<lotes, drawer, refs>>, page'.open = page.open
    PROVE  DrawerGoesOn /\ DrawerFits'
BY DEF PageFits, DrawerGoesOn, DrawerFits

LEMMA ClosedDrawer ==
    ASSUME PageFits, drawer' = Closed, UNCHANGED refs
    PROVE  DrawerGoesOn /\ DrawerFits'
<1>1. Len(refs) \in Nat /\ RefsFit' BY SeqLen DEF PageFits, RefsFit
<1>2. Len(refs) <= Len(refs') BY <1>1
<1> QED BY <1>1, <1>2, ClosedFits

\* The panel goes on with the same lote, and perhaps without its gallery.
LEMMA SteppedDrawer ==
    ASSUME PageFits, UNCHANGED <<lotes, refs>>, page'.open = page.open,
           drawer'.shows = drawer.shows, drawer'.images = drawer.images, drawer'.mode = drawer.mode,
           \/ drawer'.mount = 0
           \/ drawer'.mount = drawer.mount /\ (drawer'.step = "photos" \/ drawer'.step = drawer.step)
    PROVE  DrawerGoesOn /\ DrawerFits'
<1>1. Len(refs) \in Nat BY SeqLen DEF PageFits, RefsFit
<1>2. 0 \in 0..Len(refs) BY <1>1
<1>3. DrawerGoesOn BY DEF DrawerGoesOn
<1>4. DrawerFits BY DEF PageFits
<1>5. drawer'.mount \in 0..Len(refs) /\ (drawer'.mount # 0 => drawer'.shows # 0 /\ drawer'.step # "data")
  BY <1>2, <1>4 DEF DrawerFits
<1> QED BY <1>3, <1>4, <1>5 DEF DrawerFits

------------------------------------------------------------------------------
\* The answers that bring no photos.
LEMMA ReloadKeepsPhotos ==
    ASSUME CallsOK, RowsOK, PanelInv, PhotosInv, Recalled, UNCHANGED <<lotes, refs, binned>>,
           NEW s \in Slots, Reload1(s), DrawerGoesOn, DrawerFits',
           IsSave(Call(s)) => Call(s).what.mount = 0
    PROVE  PhotosInv'
<1> DEFINE w == [op |-> "list", load |-> page.load + 1]
<1>1. Then(s, w) /\ page' = Loading /\ w.op = "list" BY DEF Reload1
<1> HIDE DEF w
<1>2. PICK d : IsFresh(d, w) /\ Only(s, d) /\ OthersFit BY <1>1, ThenMoves
<1>3. ~Okay(d) /\ d.what.op = "list" BY <1>1, <1>2 DEF IsFresh
<1>4. ~Minds(d) /\ AsksNew(d) BY <1>3, Unminding
<1>5. PageGoesOn /\ page'.rows = page.rows /\ page'.load = page.load + 1 BY <1>1, PageTurns
<1> QED BY <1>2, <1>4, <1>5, OneQuiet

LEMMA EndKeepsPhotos ==
    ASSUME CallsOK, RowsOK, PanelInv, PhotosInv, Recalled, UNCHANGED <<lotes, refs, binned>>,
           NEW s \in Slots, Ends(s), PageGoesOn, page'.rows = page.rows, DrawerGoesOn, DrawerFits',
           ~(IsSave(Call(s)) /\ Okay(Call(s)))
    PROVE  PhotosInv'
<1>1. PICK d : ~Underway(d) /\ Only(s, d) /\ OthersFit BY EndsMoves
<1>2. ~Minds(d) /\ AsksNew(d) BY <1>1, Unminding
<1> QED BY <1>1, <1>2, OneQuiet

LEMMA NotSavedKeepsPhotos ==
    ASSUME CallsOK, RowsOK, PanelInv, PhotosInv, Recalled, UNCHANGED <<lotes, refs, binned>>, page.open,
           NEW s \in Slots, NotSaved(s), Refusal(Call(s))
    PROVE  PhotosInv'
<1>1. Ends(s) /\ UNCHANGED page /\ drawer' = [drawer EXCEPT !.busy = FALSE] BY DEF NotSaved
<1>2. PageGoesOn /\ page'.rows = page.rows BY <1>1, PageTurns
<1>3. DOMAIN drawer = {"mode", "lote", "number", "saved", "busy", "step", "shows", "images", "mount"}
  BY DEF PanelInv, PageShape
<1>4. /\ drawer'.shows = drawer.shows /\ drawer'.images = drawer.images /\ drawer'.mode = drawer.mode
      /\ drawer'.mount = drawer.mount /\ drawer'.step = drawer.step
  BY <1>1, <1>3
<1>5. DrawerGoesOn /\ DrawerFits' BY <1>1, <1>4, SteppedDrawer DEF PhotosInv
<1> QED BY <1>1, <1>2, <1>5, EndKeepsPhotos DEF Okay

LEMMA SavedKeepsPhotos ==
    ASSUME CallsOK, RowsOK, PanelInv, PhotosInv, Recalled, UNCHANGED <<lotes, refs, binned>>, page.open,
           NEW s \in Slots, NEW w, Saved(s, w), IsSave(Call(s)) => Call(s).what.mount = 0
    PROVE  PhotosInv'
<1>1. Reload1(s) /\ page' = Loading BY DEF Saved, Reload1
<1>2. page'.open = page.open BY <1>1, PageTurns
<1>3. DOMAIN drawer = {"mode", "lote", "number", "saved", "busy", "step", "shows", "images", "mount"}
  BY DEF PanelInv, PageShape
<1>4. CASE drawer' = Closed
  <2>1. DrawerGoesOn /\ DrawerFits' BY <1>4, ClosedDrawer DEF PhotosInv
  <2> QED BY <1>1, <2>1, ReloadKeepsPhotos
<1>5. CASE w.again
  <2>1. PICK saved, number :
          drawer' = [drawer EXCEPT !.busy = FALSE, !.step = "photos", !.saved = saved, !.number = number]
    BY <1>5 DEF Saved
  <2>2. /\ drawer'.shows = drawer.shows /\ drawer'.images = drawer.images /\ drawer'.mode = drawer.mode
        /\ drawer'.mount = drawer.mount /\ drawer'.step = "photos"
    BY <1>3, <2>1
  <2>3. DrawerGoesOn /\ DrawerFits' BY <1>2, <2>2, SteppedDrawer DEF PhotosInv
  <2> QED BY <1>1, <2>3, ReloadKeepsPhotos
<1> QED BY <1>4, <1>5 DEF Saved

LEMMA PlainAnswersKeepPhotos ==
    ASSUME CallsOK, RowsOK, PanelInv, PhotosInv, Recalled, UNCHANGED lotes, page.open, NEW s \in Slots,
           \/ DeleteArrives(s) \/ DuplicateArrives(s) \/ CoverArrives(s) \/ EditArrives(s)
    PROVE  PhotosInv'
<1>1. CASE DeleteArrives(s) \/ DuplicateArrives(s)
  <2>1. UNCHANGED <<drawer, refs, binned>> /\ ~IsSave(Call(s))
    BY <1>1 DEF DeleteArrives, DuplicateArrives, Hears, IsSave, Call
  <2>2. CASE Ends(s) /\ UNCHANGED page
    <3>1. PageGoesOn /\ page'.rows = page.rows /\ page'.open = page.open BY <2>2, PageTurns
    <3>2. DrawerGoesOn /\ DrawerFits' BY <2>1, <3>1, SameDrawer DEF PhotosInv
    <3> QED BY <2>1, <2>2, <3>1, <3>2, EndKeepsPhotos
  <2>3. CASE Reload1(s)
    <3>1. page' = Loading BY <2>3 DEF Reload1
    <3>2. page'.open = page.open BY <3>1, PageTurns
    <3>3. DrawerGoesOn /\ DrawerFits' BY <2>1, <3>2, SameDrawer DEF PhotosInv
    <3> QED BY <2>1, <2>3, <3>3, ReloadKeepsPhotos
  <2> QED BY <1>1, <2>2, <2>3 DEF DeleteArrives, DuplicateArrives
<1>2. CASE CoverArrives(s)
  <2>1. UNCHANGED <<refs, binned>> /\ (IsSave(Call(s)) => Call(s).what.mount = 0)
    BY <1>2 DEF CoverArrives, What, Call
  <2>2. (NotSaved(s) /\ Refusal(Call(s))) \/ Saved(s, What(s)) BY <1>2 DEF CoverArrives, Call
  <2> QED BY <2>1, <2>2, NotSavedKeepsPhotos, SavedKeepsPhotos
<1>3. CASE EditArrives(s)
  <2>1. UNCHANGED <<refs, binned>> /\ ~IsSave(Call(s)) BY <1>3 DEF EditArrives, Hears, IsSave, Call
  <2>2. CASE NotSaved(s) /\ Refusal(Call(s)) BY <2>1, <2>2, NotSavedKeepsPhotos
  <2>3. CASE Reload1(s) /\ drawer' = Closed
    <3>1. DrawerGoesOn /\ DrawerFits' BY <2>1, <2>3, ClosedDrawer DEF PhotosInv
    <3> QED BY <2>1, <2>3, <3>1, ReloadKeepsPhotos
  <2> QED BY <1>3, <2>2, <2>3 DEF EditArrives, Call
<1> QED BY <1>1, <1>2, <1>3

\* The panel goes on with the photos of the lote it created: nobody else saves them.
LEMMA StagingKeepsPhotos ==
    ASSUME CallsOK, RowsOK, PanelInv, PhotosInv, Recalled, UNCHANGED <<lotes, page, drawer, refs, binned>>,
           NEW s \in Slots, NEW d, Only(s, d), OthersFit, IsStaged(d), ~Okay(d),
           Births(Call(s), d.what.lote), ~IsSave(Call(s)), d.what.lote \in DOMAIN lotes, IsSeq(d.what.images)
    PROVE  PhotosInv'
<1>1. PICK j : j = d.what.lote OBVIOUS
<1>2. Call(s)' = d /\ \A r \in Slots \ {s} : Call(r)' = Call(r) BY DEF Only
<1>3. d.what.mount = 0 /\ OfPhotos(d) /\ Of(d, j) /\ ~IsOrder(d) /\ ~IsList(d) /\ ~IsNew(d)
  BY <1>1 DEF IsStaged, OfPhotos, Of, IsOrder, IsList, IsNew
<1>4. PageFits BY DEF PhotosInv
<1>5. Len(refs) \in Nat /\ Len(refs) <= Len(refs)
  <2>1. Len(refs) \in Nat BY <1>4, SeqLen DEF PageFits, RefsFit
  <2> QED BY <2>1
<1>6. \A r \in Slots : Quietly(Call(r), Call(r)') \/ (r = s /\ Call(r)' = d) BY <1>2 DEF Quietly
<1>7. PageFits'
  <2>1. CallFits(d, DOMAIN lotes, Len(refs)) BY <1>3, <1>5 DEF CallFits, AsksNew
  <2> QED BY <1>4, <1>5, <1>6, <2>1, PassFits DEF PageFits, RefsFit, DrawerFits, OthersFit
<1>8. ASSUME NEW i \in DOMAIN lotes' \ clashed' PROVE PhotosKept(i)'
  <2>1. i \in DOMAIN lotes /\ lotes'[i].images = lotes[i].images /\ Kept(i)' = Kept(i) /\ i # 0
    BY <1>8, LoteIsNot0 DEF Kept
  <2>2. Alone(i)' /\ PhotosKept(i) BY <1>8, <2>1, NotClashed
  <2>3. Of(d, i) \/ Births(d, i) => i = j BY <1>1, <1>3 DEF Of, Births
  <2>4. Births(Call(s), j) BY <1>1
  <2>5. None(i)' => None(i)
    <3>1. \A r \in Slots : Stored(Call(r), i) => r # s BY DEF Stored
    <3> QED BY <1>2, <3>1 DEF None
  <2>6. i = j => drawer.shows # i /\ Kept(i) = {}
    <3> SUFFICES ASSUME i = j PROVE drawer.shows # i /\ Kept(i) = {}
      OBVIOUS
    <3>1. drawer.shows # i /\ (None(i) => lotes[i].images = <<>>)
          /\ \A r \in Slots : Of(Call(r), i) \/ Births(Call(r), i) => r = s
      BY <2>2, <2>4 DEF PhotosKept, BirthKeeps
    <3>2. None(i) BY <3>1 DEF None, Stored
    <3> QED BY <3>1, <3>2, EmptyIsSeq DEF Kept
  <2>7. CallsKeep(i)'
    <3>1. SaveKeeps(d, i, lotes'[i].images, Kept(i)') BY <1>3, <2>1, <2>3, <2>6 DEF SaveKeeps
    <3>2. OrderKeeps(d, i, Kept(i)') BY <1>3 DEF OrderKeeps
    <3> QED BY <1>6, <2>1, <2>2, <3>1, <3>2, PassCalls DEF PhotosKept
  <2>8. BirthKeeps(i)'
    <3>1. Births(d, i) => Births(Call(s), i) BY <2>3, <2>4
    <3>2. Concerns(d, i) => Concerns(Call(s), i) BY <2>3, <2>4 DEF Concerns
    <3>3. ~Stored(Call(s), i) BY DEF Stored
    <3> QED BY <1>6, <2>1, <2>2, <3>1, <3>2, <3>3, PassBirths DEF PhotosKept
  <2>9. ListKeeps(i)'
    <3>1. PageGoesOn BY DEF PageGoesOn
    <3> QED BY <1>3, <1>6, <2>1, <2>2, <2>5, <3>1, PassList DEF PhotosKept
  <2>10. GalleryKeeps(i)'
    <3>1. DrawerGoesOn BY DEF DrawerGoesOn
    <3> QED BY <1>3, <1>6, <2>1, <2>2, <2>3, <2>5, <2>6, <3>1, PassGallery DEF PhotosKept
  <2> QED BY <2>2, <2>7, <2>8, <2>9, <2>10 DEF PhotosKept
<1> QED BY <1>7, <1>8 DEF PhotosInv

LEMMA CreateArrivesKeepsPhotos ==
    ASSUME CallsOK, RowsOK, PanelInv, PhotosInv, Recalled, UNCHANGED lotes, page.open, NEW s \in Slots,
           CreateArrives(s)
    PROVE  PhotosInv'
<1> DEFINE c == calls[Page][s]
           w == [op |-> "upload", lote |-> c.ans.id, mount |-> 0, images |-> <<>>,
                 files |-> c.what.files, number |-> c.what.number, again |-> c.what.again]
<1>1. /\ UNCHANGED <<refs, binned>> /\ Heard(c) /\ c.what.op = "create" /\ c.what.by = "drawer" /\ Call(s) = c
      /\ \/ Refusal(c) /\ NotSaved(s)
         \/ Saved(s, c.what)
         \/ ~Refusal(c) /\ Then(s, w) /\ UNCHANGED <<page, drawer>>
  BY DEF CreateArrives, Hears, Call
<1>2. w.op = "upload" /\ w.lote = c.ans.id /\ w.mount = 0 /\ w.images = <<>> OBVIOUS
<1> HIDE DEF w, c
<1>3. ~IsSave(Call(s)) BY <1>1 DEF IsSave
<1>4. CASE Refusal(c) /\ NotSaved(s) BY <1>1, <1>4, NotSavedKeepsPhotos
<1>5. CASE Saved(s, c.what) BY <1>1, <1>3, <1>5, SavedKeepsPhotos
<1>6. CASE ~Refusal(c) /\ Then(s, w) /\ UNCHANGED <<page, drawer>>
  <2>1. PICK d : IsFresh(d, w) /\ Only(s, d) /\ OthersFit BY <1>6, ThenMoves
  <2>2. d.what = w /\ ~Okay(d) /\ Underway(d) BY <2>1 DEF IsFresh, Underway
  <2>3. IsStaged(d) /\ IsSeq(d.what.images) /\ d.what.lote = c.ans.id BY <1>2, <2>2, EmptyIsSeq DEF IsStaged
  <2>4. IsNew(c) /\ Okay(c) BY <1>1, <1>6 DEF IsNew, Okay, Underway, Heard
  <2>5. Births(Call(s), d.what.lote) BY <1>1, <2>3, <2>4 DEF Births
  <2>6. d.what.lote \in DOMAIN lotes BY <1>1, <2>3, <2>4 DEF PhotosInv, PageFits, CallsFit, CallFits
  <2> QED BY <1>1, <1>3, <1>6, <2>1, <2>2, <2>3, <2>5, <2>6, StagingKeepsPhotos
<1> QED BY <1>1, <1>4, <1>5, <1>6

LEMMA StagedArriveKeepsPhotos ==
    ASSUME CallsOK, RowsOK, PanelInv, PhotosInv, Recalled, UNCHANGED lotes, page.open, NEW s \in Slots,
           StagedArrive(s)
    PROVE  PhotosInv'
<1> DEFINE c == calls[Page][s]
           w == [op |-> "photos", lote |-> c.what.lote, mount |-> 0, images |-> c.ans.urls,
                 number |-> c.what.number, again |-> c.what.again]
<1>1. /\ UNCHANGED <<refs, binned>> /\ Heard(c) /\ c.what.op = "upload" /\ c.what.mount = 0 /\ Call(s) = c
      /\ \/ Saved(s, c.what)
         \/ ~Refusal(c) /\ Then(s, w) /\ UNCHANGED <<page, drawer>>
  BY DEF StagedArrive, Hears, Call
<1>2. w.op = "photos" /\ w.lote = c.what.lote /\ w.mount = 0 /\ w.images = c.ans.urls OBVIOUS
<1> HIDE DEF w, c
<1>3. ~IsSave(Call(s)) BY <1>1 DEF IsSave
<1>4. CASE Saved(s, c.what) BY <1>1, <1>3, <1>4, SavedKeepsPhotos
<1>5. CASE ~Refusal(c) /\ Then(s, w) /\ UNCHANGED <<page, drawer>>
  <2>1. PICK d : IsFresh(d, w) /\ Only(s, d) /\ OthersFit BY <1>5, ThenMoves
  <2>2. d.what = w /\ ~Okay(d) /\ Underway(d) BY <2>1 DEF IsFresh, Underway
  <2>3. Underway(c) /\ Okay(c) /\ OfPhotos(c) /\ IsStaged(c) /\ ~IsSave(c)
    BY <1>1, <1>5 DEF Okay, Underway, Heard, OfPhotos, IsStaged, IsSave
  <2>4. c.what.lote \in DOMAIN lotes /\ IsSeq(c.ans.urls)
    BY <1>1, <2>3 DEF PhotosInv, PageFits, CallsFit, CallFits
  <2>5. IsStaged(d) /\ IsSeq(d.what.images) /\ d.what.lote = c.what.lote BY <1>2, <2>2, <2>4 DEF IsStaged
  <2>6. Births(Call(s), d.what.lote) BY <1>1, <2>3, <2>5 DEF Births
  <2> QED BY <1>1, <1>3, <1>5, <2>1, <2>2, <2>4, <2>5, <2>6, StagingKeepsPhotos
<1> QED BY <1>1, <1>4, <1>5

------------------------------------------------------------------------------
\* The list shows other rows.
LEMMA RowsKeepPhotos ==
    ASSUME RowsOK, PhotosInv, Recalled, UNCHANGED <<lotes, drawer, refs, binned>>,
           page'.open = page.open, page'.load = page.load, RowsFit(page'.rows, DOMAIN lotes),
           NEW s \in Slots, NEW d, Only(s, d), OthersFit, CallFits(d, DOMAIN lotes, Len(refs)),
           ~OfPhotos(d), ~IsNew(d), ~IsList(d), ~IsSave(Call(s)),
           \A i \in DOMAIN lotes \ clashed' :
              /\ OrderKeeps(d, i, Kept(i))
              /\ page.open /\ page'.list = "ready" /\ None(i) => RowsKeep(page'.rows, i, Kept(i))
    PROVE  PhotosInv'
<1>1. Call(s)' = d /\ \A r \in Slots \ {s} : Call(r)' = Call(r) BY DEF Only
<1>2. PageFits BY DEF PhotosInv
<1>3. Len(refs) <= Len(refs)
  <2>1. Len(refs) \in Nat BY <1>2, SeqLen DEF PageFits, RefsFit
  <2> QED BY <2>1
<1>4. \A r \in Slots : Quietly(Call(r), Call(r)') \/ (r = s /\ Call(r)' = d) BY <1>1 DEF Quietly
<1>5. ~IsSave(d) /\ ~IsStaged(d) BY DEF IsSave, IsStaged, OfPhotos
<1>6. PageFits' BY <1>2, <1>3, <1>4, PassFits DEF PageFits, RefsFit, DrawerFits, OthersFit
<1>7. ASSUME NEW i \in DOMAIN lotes' \ clashed' PROVE PhotosKept(i)'
  <2>1. i \in DOMAIN lotes /\ lotes'[i].images = lotes[i].images /\ Kept(i)' = Kept(i) /\ i # 0
    BY <1>7, LoteIsNot0 DEF Kept
  <2>2. Alone(i)' /\ PhotosKept(i) BY <1>7, <2>1, NotClashed
  <2>3. ~Of(d, i) /\ ~Births(d, i) BY <1>5 DEF Of, Births
  <2>4. None(i)' => None(i)
    <3>1. \A r \in Slots : Stored(Call(r), i) => r # s BY DEF Stored
    <3> QED BY <1>1, <3>1 DEF None
  <2>5. CallsKeep(i)'
    <3>1. SaveKeeps(d, i, lotes'[i].images, Kept(i)') /\ OrderKeeps(d, i, Kept(i)')
      BY <1>5, <1>7, <2>1 DEF SaveKeeps
    <3> QED BY <1>4, <2>1, <2>2, <3>1, PassCalls DEF PhotosKept
  <2>6. BirthKeeps(i)' BY <1>4, <2>1, <2>2, <2>3, PassBirths DEF PhotosKept, Concerns
  <2>7. ListKeeps(i)'
    <3> SUFFICES ASSUME page'.open, None(i)'
                 PROVE  /\ page'.list = "ready" => RowsKeep(page'.rows, i, Kept(i)')
                        /\ \A r \in Slots : LoadKeeps(Call(r)', i, page'.load, Kept(i)')
      BY DEF ListKeeps
    <3>1. \A r \in Slots : LoadKeeps(Call(r), i, page.load, Kept(i)) BY <2>2, <2>4 DEF PhotosKept, ListKeeps
    <3>2. LoadKeeps(d, i, page.load, Kept(i)) BY DEF LoadKeeps
    <3>3. page'.list = "ready" => RowsKeep(page'.rows, i, Kept(i)') BY <1>7, <2>1, <2>4
    <3> QED BY <1>1, <2>1, <3>1, <3>2, <3>3
  <2>8. GalleryKeeps(i)'
    <3>1. DrawerGoesOn BY DEF DrawerGoesOn
    <3> QED BY <1>4, <1>5, <2>1, <2>2, <2>4, <3>1, PassGallery DEF PhotosKept
  <2> QED BY <2>2, <2>5, <2>6, <2>7, <2>8 DEF PhotosKept
<1> QED BY <1>6, <1>7 DEF PhotosInv

LEMMA ListArrivesKeepsPhotos ==
    ASSUME CallsOK, RowsOK, PanelInv, PhotosInv, Recalled, UNCHANGED lotes, page.open, NEW s \in Slots,
           ListArrives(s)
    PROVE  PhotosInv'
<1>1. /\ Ends(s) /\ UNCHANGED <<drawer, refs, binned>> /\ Heard(Call(s)) /\ Call(s).what.op = "list"
      /\ \/ UNCHANGED page
         \/ page' = [page EXCEPT !.list = "error"]
         \/ /\ Call(s).what.load = page.load /\ ~Refusal(Call(s))
            /\ page' = [page EXCEPT !.list = "ready", !.rows = Call(s).ans.rows]
  BY DEF ListArrives, Hears, What, Call
<1>2. IsList(Call(s)) /\ ~IsSave(Call(s)) BY <1>1 DEF IsList, IsSave, Underway, Heard
<1>3. PageFits BY DEF PhotosInv
<1>4. CASE UNCHANGED page \/ page' = [page EXCEPT !.list = "error"]
  <2>1. PageGoesOn /\ page'.rows = page.rows /\ page'.open = page.open BY <1>4, PageTurns
  <2>2. DrawerGoesOn /\ DrawerFits' BY <1>1, <1>3, <2>1, SameDrawer
  <2> QED BY <1>1, <1>2, <2>1, <2>2, EndKeepsPhotos
<1>5. CASE /\ Call(s).what.load = page.load /\ ~Refusal(Call(s))
           /\ page' = [page EXCEPT !.list = "ready", !.rows = Call(s).ans.rows]
  <2>1. PICK d : ~Underway(d) /\ Only(s, d) /\ OthersFit BY <1>1, EndsMoves
  <2>2. ~OfPhotos(d) /\ ~IsNew(d) /\ ~IsList(d) /\ ~IsOrder(d) /\ ~IsSave(d)
    BY <2>1 DEF OfPhotos, IsNew, IsList, IsOrder, IsSave
  <2>3. DOMAIN page = {"open", "rows", "list", "load"} BY DEF PanelInv, PageShape
  <2>4. page'.open = page.open /\ page'.load = page.load /\ page'.rows = Call(s).ans.rows BY <1>5, <2>3
  <2>5. Okay(Call(s)) BY <1>1, <1>5 DEF Okay
  <2>6. RowsFit(page'.rows, DOMAIN lotes) BY <1>2, <1>3, <2>4, <2>5 DEF PageFits, CallsFit, CallFits
  <2>7. CallFits(d, DOMAIN lotes, Len(refs)) BY <2>2 DEF CallFits, AsksNew
  <2>8. ASSUME NEW i \in DOMAIN lotes \ clashed'
        PROVE  /\ OrderKeeps(d, i, Kept(i))
               /\ page.open /\ page'.list = "ready" /\ None(i) => RowsKeep(page'.rows, i, Kept(i))
    <3>1. PhotosKept(i) BY <2>8, NotClashed
    <3>2. None(i) => LoadKeeps(Call(s), i, page.load, Kept(i)) BY <3>1 DEF PhotosKept, ListKeeps
    <3> QED BY <1>2, <1>5, <2>2, <2>4, <2>5, <3>2 DEF LoadKeeps, OrderKeeps
  <2> QED BY <1>1, <1>2, <2>1, <2>2, <2>4, <2>6, <2>7, <2>8, RowsKeepPhotos
<1> QED BY <1>1, <1>4, <1>5

LEMMA ReorderArrivesKeepsPhotos ==
    ASSUME CallsOK, RowsOK, PanelInv, PhotosInv, Recalled, UNCHANGED lotes, page.open, NEW s \in Slots,
           ReorderArrives(s)
    PROVE  PhotosInv'
<1>1. /\ Ends(s) /\ UNCHANGED <<drawer, refs, binned>> /\ Heard(Call(s)) /\ Call(s).what.op = "reorder"
      /\ UNCHANGED page \/ page' = [page EXCEPT !.rows = Call(s).what.kept]
  BY DEF ReorderArrives, Hears, What, Call
<1>2. IsOrder(Call(s)) /\ ~IsSave(Call(s)) BY <1>1 DEF IsOrder, IsSave, Underway, Heard
<1>3. PageFits BY DEF PhotosInv
<1>4. CASE UNCHANGED page
  <2>1. PageGoesOn /\ page'.rows = page.rows /\ page'.open = page.open BY <1>4, PageTurns
  <2>2. DrawerGoesOn /\ DrawerFits' BY <1>1, <1>3, <2>1, SameDrawer
  <2> QED BY <1>1, <1>2, <2>1, <2>2, EndKeepsPhotos
<1>5. CASE page' = [page EXCEPT !.rows = Call(s).what.kept]
  <2>1. PICK d : ~Underway(d) /\ Only(s, d) /\ OthersFit BY <1>1, EndsMoves
  <2>2. ~OfPhotos(d) /\ ~IsNew(d) /\ ~IsList(d) /\ ~IsOrder(d) /\ ~IsSave(d)
    BY <2>1 DEF OfPhotos, IsNew, IsList, IsOrder, IsSave
  <2>3. DOMAIN page = {"open", "rows", "list", "load"} BY DEF PanelInv, PageShape
  <2>4. page'.open = page.open /\ page'.load = page.load /\ page'.rows = Call(s).what.kept BY <1>5, <2>3
  <2>5. RowsFit(page'.rows, DOMAIN lotes) BY <1>2, <1>3, <2>4 DEF PageFits, CallsFit, CallFits
  <2>6. CallFits(d, DOMAIN lotes, Len(refs)) BY <2>2 DEF CallFits, AsksNew
  <2>7. ASSUME NEW i \in DOMAIN lotes \ clashed'
        PROVE  OrderKeeps(d, i, Kept(i)) /\ RowsKeep(page'.rows, i, Kept(i))
    <3>1. PhotosKept(i) BY <2>7, NotClashed
    <3>2. OrderKeeps(Call(s), i, Kept(i)) BY <3>1 DEF PhotosKept, CallsKeep
    <3> QED BY <1>2, <2>2, <2>4, <3>2 DEF OrderKeeps
  <2> QED BY <1>1, <1>2, <2>1, <2>2, <2>4, <2>5, <2>6, <2>7, RowsKeepPhotos
<1> QED BY <1>1, <1>4, <1>5

------------------------------------------------------------------------------
\* Gallery m saves the photos of lote j: what they lack of those it had was removed.
LEMMA PersistKeepsPhotos ==
    ASSUME RowsOK, PanelInv, PhotosInv, Recalled, UNCHANGED <<lotes, page, drawer>>, binned \subseteq binned',
           NEW s \in Slots, NEW d, Only(s, d), OthersFit, ~IsSave(Call(s)), IsSave(d), ~Okay(d),
           NEW m \in 1..Len(refs), d.what.mount = m, NEW j \in DOMAIN lotes, d.what.lote = j,
           NEW images, d.what.images = images, IsSeq(images), d.what.kept = refs[m],
           refs' = IF m = drawer.mount THEN [refs EXCEPT ![m] = images] ELSE refs,
           \A p \in Range(refs[m]) \ Range(images) : <<j, p>> \in binned',
           \A i \in DOMAIN lotes \ clashed' : m = drawer.mount /\ drawer.shows = i => j = i
    PROVE  PhotosInv'
<1>1. Call(s)' = d /\ \A r \in Slots \ {s} : Call(r)' = Call(r) BY DEF Only
<1>2. PageFits /\ IsSeq(refs) /\ \A k \in 1..Len(refs) : IsSeq(refs[k])
  <2>1. PageFits /\ IsSeq(refs) BY DEF PhotosInv, PageFits, RefsFit
  <2>2. DOMAIN refs = 1..Len(refs) BY <2>1, SeqLen
  <2> QED BY <2>1, <2>2 DEF PageFits, RefsFit
<1>3. Len(refs) \in Nat /\ m # 0 BY <1>2, SeqLen
<1>4. \A r \in Slots : Quietly(Call(r), Call(r)') \/ (r = s /\ Call(r)' = d) BY <1>1 DEF Quietly
<1>5. OfPhotos(d) /\ Of(d, j) /\ ~IsOrder(d) /\ ~IsList(d) /\ ~IsNew(d) /\ ~IsStaged(d)
  BY <1>3 DEF IsSave, IsStaged, OfPhotos, Of, IsOrder, IsList, IsNew
<1>6. /\ IsSeq(refs') /\ Len(refs') = Len(refs)
      /\ \A k \in 1..Len(refs) : refs'[k] = IF k = m /\ m = drawer.mount THEN images ELSE refs[k]
  <2>1. CASE m = drawer.mount
    <3>1. refs' = [refs EXCEPT ![m] = images] BY <2>1
    <3>2. PICK q : q = Put(refs, m, images) OBVIOUS
    <3>3. IsSeq(q) /\ Len(q) = Len(refs) /\ \A k \in 1..Len(refs) : q[k] = IF k = m THEN images ELSE refs[k]
      BY <1>2, <3>2, SeqPut
    <3>4. refs' = q BY <3>1, <3>2 DEF Put
    <3> QED BY <2>1, <3>3, <3>4
  <2>2. CASE m # drawer.mount BY <1>2, <2>2
  <2> QED BY <2>1, <2>2
<1>7. PageFits'
  <2>1. RefsFit'
    <3>1. DOMAIN refs' = 1..Len(refs) BY <1>6, SeqLen
    <3> QED BY <1>2, <1>6, <3>1 DEF RefsFit
  <2>2. CallFits(d, DOMAIN lotes', Len(refs'))
    <3>1. IsSeq(refs[m]) BY <1>2
    <3> QED BY <1>5, <1>6, <3>1 DEF CallFits, AsksNew
  <2>3. DrawerFits' BY <1>2, <1>6 DEF PageFits, DrawerFits
  <2>4. Len(refs) <= Len(refs') BY <1>3, <1>6
  <2> QED BY <1>2, <1>4, <2>1, <2>2, <2>3, <2>4, PassFits DEF PageFits, OthersFit
<1>8. ASSUME NEW i \in DOMAIN lotes' \ clashed' PROVE PhotosKept(i)'
  <2>1. i \in DOMAIN lotes /\ lotes'[i].images = lotes[i].images /\ Kept(i)' \subseteq Kept(i) /\ i # 0
    BY <1>8, LoteIsNot0 DEF Kept
  <2>2. Alone(i)' /\ PhotosKept(i) BY <1>8, <2>1, NotClashed
  <2>3. ~Births(d, i) /\ (Of(d, i) <=> i = j) BY <1>5 DEF Births, Of
  <2>4. i = j => /\ m = drawer.mount /\ drawer.shows = i
                 /\ \A r \in Slots : IsSave(Call(r)') /\ Of(Call(r)', i) => r = s
    BY <1>1, <1>3, <1>5, <2>2 DEF Alone
  <2>5. i = j => Kept(i) \subseteq Range(refs[m]) /\ Kept(i)' \subseteq Range(images)
    <3> SUFFICES ASSUME i = j PROVE Kept(i) \subseteq Range(refs[m]) /\ Kept(i)' \subseteq Range(images)
      OBVIOUS
    <3>1. Kept(i) \subseteq Range(refs[m]) BY <1>3, <2>2, <2>4 DEF PhotosKept, GalleryKeeps
    <3>2. \A p \in Kept(i)' : <<i, p>> \notin binned' BY DEF Kept
    <3> QED BY <2>1, <3>1, <3>2
  <2>6. None(i)' => None(i)
    <3>1. \A r \in Slots : Stored(Call(r), i) => r # s BY DEF Stored
    <3> QED BY <1>1, <3>1 DEF None
  <2>7. CallsKeep(i)'
    <3>1. SaveKeeps(d, i, lotes'[i].images, Kept(i)') BY <2>1, <2>3, <2>5 DEF SaveKeeps
    <3>2. OrderKeeps(d, i, Kept(i)') BY <1>5 DEF OrderKeeps
    <3> QED BY <1>4, <2>1, <2>2, <3>1, <3>2, PassCalls DEF PhotosKept
  <2>8. BirthKeeps(i)' BY <1>4, <2>1, <2>2, <2>3, <2>4, PassBirths DEF PhotosKept, Concerns
  <2>9. ListKeeps(i)'
    <3>1. PageGoesOn BY DEF PageGoesOn
    <3> QED BY <1>4, <1>5, <2>1, <2>2, <2>6, <3>1, PassList DEF PhotosKept
  <2>10. GalleryKeeps(i)'
    <3> SUFFICES ASSUME drawer.shows = i
                 PROVE  /\ None(i)' => Kept(i)' \subseteq Range(drawer.images)
                        /\ drawer.mount # 0 =>
                             /\ Kept(i)' \subseteq Range(refs'[drawer.mount])
                             /\ \A r \in Slots : IsSave(Call(r)') /\ Of(Call(r)', i)
                                                    => Call(r)'.what.images = refs'[drawer.mount]
                             /\ \A r \in Slots : OfPhotos(Call(r)') /\ Call(r)'.what.mount = drawer.mount
                                                    => Call(r)'.what.lote = i
      BY DEF GalleryKeeps
    <3>1. None(i)' => Kept(i)' \subseteq Range(drawer.images) BY <2>1, <2>2, <2>6 DEF PhotosKept, GalleryKeeps
    <3>2. ASSUME drawer.mount # 0
          PROVE  /\ Kept(i) \subseteq Range(refs[drawer.mount])
                 /\ \A r \in Slots : IsSave(Call(r)) /\ Of(Call(r), i) => Call(r).what.images = refs[drawer.mount]
                 /\ \A r \in Slots : OfPhotos(Call(r)) /\ Call(r).what.mount = drawer.mount => Call(r).what.lote = i
      BY <2>2, <3>2 DEF PhotosKept, GalleryKeeps
    <3>3. CASE i = j
      <4>1. refs'[drawer.mount] = images /\ drawer.mount # 0 BY <1>3, <1>6, <2>4, <3>3
      <4>2. \A r \in Slots : IsSave(Call(r)') /\ Of(Call(r)', i) => Call(r)'.what.images = images
        BY <1>1, <2>4, <3>3
      <4>3. \A r \in Slots : OfPhotos(Call(r)') /\ Call(r)'.what.mount = drawer.mount => Call(r)'.what.lote = i
        BY <1>1, <3>2, <3>3, <4>1
      <4> QED BY <2>5, <3>1, <3>3, <4>1, <4>2, <4>3
    <3>4. CASE i # j
      <4>1. m # drawer.mount /\ refs' = refs BY <2>1, <1>8, <3>4
      <4>2. ASSUME drawer.mount # 0
            PROVE  \A r \in Slots : /\ IsSave(Call(r)') /\ Of(Call(r)', i) => Call(r)'.what.images = refs[drawer.mount]
                                    /\ OfPhotos(Call(r)') /\ Call(r)'.what.mount = drawer.mount
                                          => Call(r)'.what.lote = i
        BY <1>1, <2>3, <3>2, <3>4, <4>1, <4>2
      <4> QED BY <2>1, <3>1, <3>2, <4>1, <4>2
    <3> QED BY <3>3, <3>4
  <2> QED BY <2>2, <2>7, <2>8, <2>9, <2>10 DEF PhotosKept
<1> QED BY <1>7, <1>8 DEF PhotosInv

LEMMA UploadsArriveKeepsPhotos ==
    ASSUME CallsOK, RowsOK, PanelInv, PhotosInv, Recalled, UNCHANGED lotes, page.open, NEW s \in Slots,
           UploadsArrive(s)
    PROVE  PhotosInv'
<1> DEFINE c == calls[Page][s]
           images == refs[c.what.mount] \o c.ans.urls
           w == [op |-> "photos", lote |-> c.what.lote, mount |-> c.what.mount, images |-> images,
                 kept |-> refs[c.what.mount]]
<1>1. /\ UNCHANGED <<page, drawer, binned>> /\ Heard(c) /\ c.what.op = "upload" /\ c.what.mount # 0 /\ Call(s) = c
      /\ \/ Ends(s) /\ UNCHANGED refs
         \/ /\ ~Refusal(c) /\ Then(s, w)
            /\ refs' = IF c.what.mount = drawer.mount THEN [refs EXCEPT ![c.what.mount] = images] ELSE refs
  BY DEF UploadsArrive, Hears, Call, Persists
<1>2. /\ w.op = "photos" /\ w.lote = c.what.lote /\ w.mount = c.what.mount /\ w.images = images
      /\ w.kept = refs[c.what.mount]
  OBVIOUS
<1> HIDE DEF w
<1>3. ~IsSave(Call(s)) /\ OfPhotos(c) /\ PageFits BY <1>1 DEF IsSave, OfPhotos, Underway, Heard, PhotosInv
<1>4. CASE Ends(s) /\ UNCHANGED refs
  <2>1. PageGoesOn /\ page'.rows = page.rows /\ page'.open = page.open BY <1>1, PageTurns
  <2>2. DrawerGoesOn /\ DrawerFits' BY <1>1, <1>3, <1>4, <2>1, SameDrawer
  <2> QED BY <1>1, <1>3, <1>4, <2>1, <2>2, EndKeepsPhotos
<1>5. CASE /\ ~Refusal(c) /\ Then(s, w)
           /\ refs' = IF c.what.mount = drawer.mount THEN [refs EXCEPT ![c.what.mount] = images] ELSE refs
  <2>1. PICK d : IsFresh(d, w) /\ Only(s, d) /\ OthersFit BY <1>5, ThenMoves
  <2>2. d.what = w /\ ~Okay(d) /\ Underway(d) BY <2>1 DEF IsFresh, Underway
  <2>3. Okay(c) /\ CallFits(c, DOMAIN lotes, Len(refs)) BY <1>1, <1>3, <1>5 DEF Okay, PageFits, CallsFit
  <2>4. PICK m, j : m = c.what.mount /\ j = c.what.lote OBVIOUS
  <2>5. j \in DOMAIN lotes /\ m \in 1..Len(refs) /\ IsSeq(c.ans.urls) /\ IsSeq(refs[m])
    <3>1. Len(refs) \in Nat /\ DOMAIN refs = 1..Len(refs) BY <1>3, SeqLen DEF PageFits, RefsFit
    <3>2. j \in DOMAIN lotes /\ m \in 0..Len(refs) /\ IsSeq(c.ans.urls) BY <1>1, <1>3, <2>3, <2>4 DEF CallFits
    <3>3. m # 0 BY <1>1, <2>4
    <3>4. m \in 1..Len(refs) BY <3>1, <3>2, <3>3
    <3> QED BY <1>3, <3>1, <3>2, <3>4 DEF PageFits, RefsFit
  <2>6. PICK photo : photo = images OBVIOUS
  <2>7. IsSeq(photo) /\ Range(refs[m]) \subseteq Range(photo) BY <2>4, <2>5, <2>6, SeqConcat
  <2>8. refs' = IF m = drawer.mount THEN [refs EXCEPT ![m] = photo] ELSE refs BY <1>5, <2>4, <2>6
  <2>9. /\ d.what.op = "photos" /\ d.what.lote = j /\ d.what.mount = m /\ d.what.images = photo
        /\ d.what.kept = refs[m] /\ IsSave(d)
    BY <1>2, <2>2, <2>4, <2>6 DEF IsSave
  <2>10. \A i \in DOMAIN lotes \ clashed' : m = drawer.mount /\ drawer.shows = i => j = i
    <3> SUFFICES ASSUME NEW i \in DOMAIN lotes \ clashed', m = drawer.mount, drawer.shows = i PROVE j = i
      OBVIOUS
    <3>1. GalleryKeeps(i) BY NotClashed DEF PhotosKept
    <3> QED BY <1>1, <1>3, <2>4, <3>1 DEF GalleryKeeps
  <2> HIDE DEF images
  <2>11. \A p \in Range(refs[m]) \ Range(photo) : <<j, p>> \in binned' BY <2>7
  <2> QED BY <1>1, <1>3, <2>1, <2>2, <2>5, <2>7, <2>8, <2>9, <2>10, <2>11, PersistKeepsPhotos
<1> QED BY <1>1, <1>4, <1>5

\* A save that was refused: its gallery shows again what it had.
LEMMA RefusedKeepsPhotos ==
    ASSUME RowsOK, PanelInv, PhotosInv, Recalled, UNCHANGED <<lotes, page, drawer, binned>>,
           NEW s \in Slots, NEW d, Only(s, d), OthersFit, ~Underway(d),
           IsSave(Call(s)), Call(s).what.mount # 0, Refusal(Call(s)), Heard(Call(s)),
           refs' = IF Call(s).what.mount = drawer.mount THEN Put(refs, Call(s).what.mount, Call(s).what.kept) ELSE refs
    PROVE  PhotosInv'
<1>1. Call(s)' = d /\ \A r \in Slots \ {s} : Call(r)' = Call(r) BY DEF Only
<1>2. PageFits /\ IsSeq(refs) /\ \A k \in 1..Len(refs) : IsSeq(refs[k])
  <2>1. PageFits /\ IsSeq(refs) BY DEF PhotosInv, PageFits, RefsFit
  <2>2. DOMAIN refs = 1..Len(refs) BY <2>1, SeqLen
  <2> QED BY <2>1, <2>2 DEF PageFits, RefsFit
<1>3. Len(refs) \in Nat BY <1>2, SeqLen
<1>4. PICK m, kept, j : m = Call(s).what.mount /\ kept = Call(s).what.kept /\ j = Call(s).what.lote OBVIOUS
<1>5. IsSeq(kept) /\ ~Okay(Call(s)) /\ OfPhotos(Call(s))
  BY <1>2, <1>4 DEF PageFits, CallsFit, CallFits, Okay, OfPhotos, IsSave
<1>6. /\ IsSeq(refs') /\ Len(refs') = Len(refs)
      /\ \A k \in 1..Len(refs) : refs'[k] = IF k = m /\ m = drawer.mount THEN kept ELSE refs[k]
  <2>1. CASE m = drawer.mount
    <3>1. PICK q : q = Put(refs, m, kept) OBVIOUS
    <3>2. IsSeq(q) /\ Len(q) = Len(refs) /\ \A k \in 1..Len(refs) : q[k] = IF k = m THEN kept ELSE refs[k]
      BY <1>2, <3>1, SeqPut
    <3>3. refs' = q BY <1>4, <2>1, <3>1
    <3> QED BY <2>1, <3>2, <3>3
  <2>2. CASE m # drawer.mount BY <1>2, <1>4, <2>2
  <2> QED BY <2>1, <2>2
<1>7. \A r \in Slots : Quietly(Call(r), Call(r)')
  <2>1. ~Minds(d) /\ AsksNew(d) BY Unminding
  <2> QED BY <1>1, <2>1 DEF Quietly
<1>8. PageFits'
  <2>1. RefsFit'
    <3>1. DOMAIN refs' = 1..Len(refs) BY <1>6, SeqLen
    <3> QED BY <1>2, <1>5, <1>6, <3>1 DEF RefsFit
  <2>2. DrawerFits' BY <1>2, <1>6 DEF PageFits, DrawerFits
  <2>3. Len(refs) <= Len(refs') BY <1>3, <1>6
  <2> QED BY <1>2, <1>7, <2>1, <2>2, <2>3, PassFits DEF PageFits, OthersFit
<1>9. ASSUME NEW i \in DOMAIN lotes' \ clashed' PROVE PhotosKept(i)'
  <2>1. i \in DOMAIN lotes /\ lotes'[i].images = lotes[i].images /\ Kept(i)' = Kept(i) /\ i # 0
    BY <1>9, LoteIsNot0 DEF Kept
  <2>2. Alone(i)' /\ PhotosKept(i) BY <1>9, <2>1, NotClashed
  <2>3. None(i)' => None(i)
    <3>1. \A r \in Slots : Stored(Call(r), i) => r # s BY <1>5 DEF Stored
    <3> QED BY <1>1, <3>1 DEF None
  <2>4. CallsKeep(i)' BY <1>7, <2>1, <2>2, PassCalls DEF PhotosKept
  <2>5. BirthKeeps(i)' BY <1>7, <2>1, <2>2, PassBirths DEF PhotosKept
  <2>6. ListKeeps(i)'
    <3>1. PageGoesOn BY DEF PageGoesOn
    <3> QED BY <1>7, <2>1, <2>2, <2>3, <3>1, PassList DEF PhotosKept
  <2>7. GalleryKeeps(i)'
    <3> SUFFICES ASSUME drawer.shows = i
                 PROVE  /\ None(i)' => Kept(i)' \subseteq Range(drawer.images)
                        /\ drawer.mount # 0 =>
                             /\ Kept(i)' \subseteq Range(refs'[drawer.mount])
                             /\ \A r \in Slots : IsSave(Call(r)') /\ Of(Call(r)', i)
                                                    => Call(r)'.what.images = refs'[drawer.mount]
                             /\ \A r \in Slots : OfPhotos(Call(r)') /\ Call(r)'.what.mount = drawer.mount
                                                    => Call(r)'.what.lote = i
      BY DEF GalleryKeeps
    <3>1. None(i)' => Kept(i)' \subseteq Range(drawer.images) BY <2>1, <2>2, <2>3 DEF PhotosKept, GalleryKeeps
    <3> SUFFICES ASSUME drawer.mount # 0
                 PROVE  /\ Kept(i)' \subseteq Range(refs'[drawer.mount])
                        /\ \A r \in Slots : IsSave(Call(r)') /\ Of(Call(r)', i)
                                               => Call(r)'.what.images = refs'[drawer.mount]
                        /\ \A r \in Slots : OfPhotos(Call(r)') /\ Call(r)'.what.mount = drawer.mount
                                               => Call(r)'.what.lote = i
      BY <3>1
    <3>2. /\ Kept(i) \subseteq Range(refs[drawer.mount])
          /\ \A r \in Slots : IsSave(Call(r)) /\ Of(Call(r), i) => Call(r).what.images = refs[drawer.mount]
          /\ \A r \in Slots : OfPhotos(Call(r)) /\ Call(r).what.mount = drawer.mount => Call(r).what.lote = i
      BY <2>2 DEF PhotosKept, GalleryKeeps
    <3>3. ~IsSave(d) /\ ~OfPhotos(d) BY DEF IsSave, OfPhotos
    <3>4. CASE m = drawer.mount
      <4>1. j = i /\ Of(Call(s), i) BY <1>4, <1>5, <3>2, <3>4 DEF Of
      <4>2. \A r \in Slots : IsSave(Call(r)) /\ Of(Call(r), i) => r = s BY <2>2, <4>1 DEF PhotosKept, Alone
      <4>3. Kept(i) \subseteq Range(kept)
        BY <1>4, <1>5, <2>2, <4>1 DEF PhotosKept, CallsKeep, SaveKeeps
      <4>4. drawer.mount \in 1..Len(refs)
        <5>1. drawer.mount \in 0..Len(refs) BY <1>2 DEF PageFits, DrawerFits
        <5> QED BY <1>3, <5>1
      <4>5. refs'[drawer.mount] = kept BY <1>6, <3>4, <4>4
      <4> QED BY <1>1, <2>1, <3>2, <3>3, <4>2, <4>3, <4>5
    <3>5. CASE m # drawer.mount
      <4>1. refs' = refs BY <1>4, <3>5
      <4> QED BY <1>1, <2>1, <3>2, <3>3, <4>1
    <3> QED BY <3>4, <3>5
  <2> QED BY <2>2, <2>4, <2>5, <2>6, <2>7 DEF PhotosKept
<1> QED BY <1>8, <1>9 DEF PhotosInv

\* A save that was done: the panel shows what it saved, and loads the list.
LEMMA DoneKeepsPhotos ==
    ASSUME RowsOK, PanelInv, PhotosInv, Recalled, page.open, UNCHANGED <<lotes, binned>>,
           NEW s \in Slots, NEW d, Only(s, d), OthersFit, ~Minds(d), AsksNew(d),
           IsSave(Call(s)), Okay(Call(s)), NEW m, NEW j, NEW images, m # 0,
           Call(s).what.mount = m, Call(s).what.lote = j, Call(s).what.images = images,
           page' = Loading, DrawerFits', RefsFit', Len(refs) <= Len(refs'),
           drawer'.shows # drawer.shows => drawer'.shows = j,
           drawer'.shows = drawer.shows => drawer.shows \in {0, j},
           drawer.shows = j /\ drawer.mount = m => /\ drawer'.shows = j /\ drawer'.mount = m
                                                   /\ drawer'.images = images /\ refs'[m] = images
    PROVE  PhotosInv'
<1>1. Call(s)' = d /\ \A r \in Slots \ {s} : Call(r)' = Call(r) BY DEF Only
<1>2. PageFits BY DEF PhotosInv
<1>3. \A r \in Slots : Quietly(Call(r), Call(r)') BY <1>1 DEF Quietly
<1>4. PageGoesOn /\ page'.rows = page.rows /\ page'.load = page.load + 1 /\ page.load \in Nat
  BY PageTurns DEF PanelInv, PageShape
<1>5. Of(Call(s), j) /\ OfPhotos(Call(s)) /\ ~IsSave(d) /\ ~OfPhotos(d) BY DEF Of, OfPhotos, IsSave, Minds
<1>6. PageFits' BY <1>2, <1>3, <1>4, PassFits DEF PageFits, OthersFit
<1>7. ASSUME NEW i \in DOMAIN lotes' \ clashed' PROVE PhotosKept(i)'
  <2>1. i \in DOMAIN lotes /\ lotes'[i].images = lotes[i].images /\ Kept(i)' = Kept(i) /\ i # 0
    BY <1>7, LoteIsNot0 DEF Kept
  <2>2. Alone(i)' /\ PhotosKept(i) BY <1>7, <2>1, NotClashed
  <2>3. i = j => /\ drawer.mount = m /\ drawer.shows = i
                 /\ \A r \in Slots : IsSave(Call(r)) /\ Of(Call(r), i) => r = s
    BY <1>5, <2>2 DEF PhotosKept, Alone
  <2>4. CallsKeep(i)' BY <1>3, <2>1, <2>2, PassCalls DEF PhotosKept
  <2>5. drawer'.shows = i => i = j BY <2>1
  <2>6. BirthKeeps(i)'
    <3>1. drawer'.shows = i => drawer.shows = i BY <2>3, <2>5
    <3> QED BY <1>3, <2>1, <2>2, <3>1, PassBirths DEF PhotosKept
  <2>7. ListKeeps(i)'
    <3>1. page'.load # page.load BY <1>4
    <3> QED BY <1>3, <1>4, <2>1, <2>2, <3>1, PassList DEF PhotosKept
  <2>8. GalleryKeeps(i)'
    <3> SUFFICES ASSUME i = j PROVE GalleryKeeps(i)' BY <2>5 DEF GalleryKeeps
    <3>1. drawer.mount = m /\ drawer.shows = i BY <2>3
    <3>2. drawer'.shows = i /\ drawer'.mount = m /\ drawer'.images = images /\ refs'[m] = images BY <3>1
    <3>3. lotes[i].images = images BY <1>5, <2>2 DEF PhotosKept, CallsKeep, SaveKeeps
    <3>4. Kept(i)' \subseteq Range(images) BY <2>1, <3>3 DEF Kept
    <3>5. \A r \in Slots : ~(IsSave(Call(r)') /\ Of(Call(r)', i)) BY <1>1, <1>5, <2>3
    <3>6. \A r \in Slots : OfPhotos(Call(r)') /\ Call(r)'.what.mount = m => Call(r)'.what.lote = i
      BY <1>1, <1>5, <2>2, <3>1 DEF PhotosKept, GalleryKeeps
    <3> QED BY <3>2, <3>4, <3>5, <3>6 DEF GalleryKeeps
  <2> QED BY <2>2, <2>4, <2>6, <2>7, <2>8 DEF PhotosKept
<1> QED BY <1>6, <1>7 DEF PhotosInv

LEMMA PhotosArriveKeepsPhotos ==
    ASSUME CallsOK, RowsOK, PanelInv, PhotosInv, Recalled, UNCHANGED lotes, page.open, NEW s \in Slots,
           PhotosArrive(s)
    PROVE  PhotosInv'
<1>1. PICK m, j, images : m = Call(s).what.mount /\ j = Call(s).what.lote /\ images = Call(s).what.images OBVIOUS
<1>2. /\ UNCHANGED binned /\ m # 0 /\ Heard(Call(s)) /\ IsSave(Call(s)) /\ OfPhotos(Call(s))
  BY <1>1 DEF PhotosArrive, Hears, Call, IsSave, OfPhotos, Underway, Heard
<1>3. PageFits /\ IsSeq(refs) /\ (\A k \in 1..Len(refs) : IsSeq(refs[k])) /\ Len(refs) \in Nat
  <2>1. PageFits /\ IsSeq(refs) BY DEF PhotosInv, PageFits, RefsFit
  <2>2. DOMAIN refs = 1..Len(refs) /\ Len(refs) \in Nat BY <2>1, SeqLen
  <2> QED BY <2>1, <2>2 DEF PageFits, RefsFit
<1>4. CASE Refusal(Call(s))
  <2>1. Ends(s) /\ UNCHANGED <<page, drawer>>
    BY <1>4 DEF PhotosArrive, Call
  <2>2. refs' = IF m = drawer.mount THEN Put(refs, m, Call(s).what.kept) ELSE refs
    BY <1>1, <1>4 DEF PhotosArrive, Call, Put
  <2>3. PICK d : ~Underway(d) /\ Only(s, d) /\ OthersFit BY <2>1, EndsMoves
  <2> QED BY <1>1, <1>2, <1>4, <2>1, <2>2, <2>3, RefusedKeepsPhotos
<1>5. CASE ~Refusal(Call(s))
  <2> DEFINE w == [op |-> "list", load |-> page.load + 1]
  <2>1. Then(s, w) /\ page' = Loading /\ w.op = "list" BY <1>5 DEF PhotosArrive, Reload1, Call
  <2> HIDE DEF w
  <2>2. PICK d : IsFresh(d, w) /\ Only(s, d) /\ OthersFit BY <2>1, ThenMoves
  <2>3. ~Minds(d) /\ AsksNew(d)
    <3>1. ~Okay(d) /\ d.what.op = "list" BY <2>1, <2>2 DEF IsFresh
    <3> QED BY <3>1, Unminding
  <2>4. Okay(Call(s)) BY <1>2, <1>5 DEF Okay
  <2>5. Call(s).ans.id = j /\ Call(s).ans.images = images /\ IsSeq(images) /\ j \in DOMAIN lotes /\ j # 0
    BY <1>1, <1>2, <1>3, <2>4, LoteIsNot0 DEF PageFits, CallsFit, CallFits
  <2>6. DOMAIN drawer = {"mode", "lote", "number", "saved", "busy", "step", "shows", "images", "mount"}
    BY DEF PanelInv, PageShape
  <2>7. page'.open = page.open BY <2>1, PageTurns
  <2>8. DrawerFits BY <1>3 DEF PageFits
  <2>9. CASE drawer.mode = "closed"
    <3>1. UNCHANGED <<drawer, refs>> BY <1>5, <2>9 DEF PhotosArrive, Call
    <3>2. drawer.shows = 0 BY <2>8, <2>9 DEF DrawerFits
    <3>3. DrawerFits' BY <1>3, <2>7, <3>1, SameDrawer
    <3>4. RefsFit' /\ Len(refs) <= Len(refs') BY <1>3, <3>1 DEF PageFits, RefsFit
    <3> QED BY <1>1, <1>2, <2>1, <2>2, <2>3, <2>4, <2>5, <3>1, <3>2, <3>3, <3>4, DoneKeepsPhotos
  <2>10. CASE drawer.mode # "closed"
    <3> DEFINE mounts == drawer.step = "photos" /\ drawer.mount = 0
    <3>1. PICK mount : /\ drawer' = [drawer EXCEPT !.shows = j, !.images = images, !.mount = mount]
                       /\ mount = IF mounts THEN Len(refs) + 1 ELSE drawer.mount
      BY <1>5, <2>5, <2>10 DEF PhotosArrive, Call
    <3>2. refs' = IF mounts THEN Append(refs, images)
                  ELSE IF drawer.mount # 0 THEN Put(refs, drawer.mount, images) ELSE refs
      BY <1>5, <2>5, <2>10 DEF PhotosArrive, Call, Put
    <3>3. /\ drawer'.shows = j /\ drawer'.images = images /\ drawer'.mount = mount
          /\ drawer'.mode = drawer.mode /\ drawer'.step = drawer.step
      BY <2>6, <3>1
    <3>4. drawer.mount \in 0..Len(refs) /\ (drawer.mount # 0 => drawer.step # "data") BY <2>8 DEF DrawerFits
    <3>5. /\ IsSeq(refs') /\ Len(refs) <= Len(refs') /\ mount \in 0..Len(refs')
          /\ \A k \in 1..Len(refs') : IsSeq(refs'[k])
          /\ drawer.mount # 0 => refs'[drawer.mount] = images
      <4>1. CASE mounts
        <5>1. PICK q : q = Append(refs, images) OBVIOUS
        <5>2. /\ IsSeq(q) /\ Len(q) = Len(refs) + 1
              /\ q[Len(refs) + 1] = images /\ \A k \in 1..Len(refs) : q[k] = refs[k]
          BY <1>3, <5>1, SeqAppend
        <5>3. refs' = q BY <3>2, <4>1, <5>1
        <5>4. \A k \in 1..Len(q) : k = Len(refs) + 1 \/ k \in 1..Len(refs) BY <1>3, <5>2
        <5>5. \A k \in 1..Len(q) : IsSeq(q[k]) BY <1>3, <2>5, <5>2, <5>4
        <5>6. Len(refs) <= Len(q) /\ Len(refs) + 1 \in 0..Len(q) BY <1>3, <5>2
        <5> QED BY <3>1, <4>1, <5>2, <5>3, <5>5, <5>6
      <4>2. CASE ~mounts /\ drawer.mount # 0
        <5>1. PICK q : q = Put(refs, drawer.mount, images) OBVIOUS
        <5>2. PICK k0 : k0 = drawer.mount OBVIOUS
        <5>3. /\ IsSeq(q) /\ Len(q) = Len(refs)
              /\ \A k \in 1..Len(refs) : q[k] = IF k = k0 THEN images ELSE refs[k]
          BY <1>3, <5>1, <5>2, SeqPut
        <5>4. refs' = q BY <3>2, <4>2, <5>1
        <5>5. k0 \in 1..Len(refs) BY <1>3, <3>4, <4>2, <5>2
        <5>6. mount = drawer.mount BY <3>1, <4>2
        <5>7. Len(refs) <= Len(q) BY <1>3, <5>3
        <5>8. \A k \in 1..Len(q) : IsSeq(q[k]) BY <1>3, <2>5, <5>3
        <5> QED BY <3>4, <5>2, <5>3, <5>4, <5>5, <5>6, <5>7, <5>8
      <4>3. CASE ~mounts /\ drawer.mount = 0
        <5>1. refs' = refs /\ mount = drawer.mount BY <3>1, <3>2, <4>3
        <5> QED BY <1>3, <3>4, <4>3, <5>1
      <4> QED BY <4>1, <4>2, <4>3
    <3>6. RefsFit'
      <4>1. DOMAIN refs' = 1..Len(refs') BY <3>5, SeqLen
      <4> QED BY <3>5, <4>1 DEF RefsFit
    <3>7. DrawerFits'
      <4>1. mount # 0 => drawer.step # "data" BY <3>1, <3>4
      <4> QED BY <2>5, <2>7, <2>10, <3>3, <3>5, <4>1 DEF DrawerFits
    <3>8. drawer.shows = j /\ drawer.mount = m => drawer'.mount = m /\ refs'[m] = images
      BY <1>2, <3>1, <3>3, <3>5
    <3> HIDE DEF mounts
    <3> QED BY <1>1, <1>2, <2>1, <2>2, <2>3, <2>4, <2>5, <3>3, <3>5, <3>6, <3>7, <3>8, DoneKeepsPhotos
  <2> QED BY <2>9, <2>10
<1> QED BY <1>4, <1>5

LEMMA ArrivalsKeepPhotos ==
    ASSUME CallsOK, RowsOK, PanelInv, PhotosInv, Recalled, UNCHANGED lotes, page.open, NEW s \in Slots,
           Arrivals(s)
    PROVE  PhotosInv'
BY PlainAnswersKeepPhotos, ListArrivesKeepsPhotos, ReorderArrivesKeepsPhotos, CreateArrivesKeepsPhotos,
   StagedArriveKeepsPhotos, UploadsArriveKeepsPhotos, PhotosArriveKeepsPhotos DEF Arrivals

------------------------------------------------------------------------------
\* What the user chooses.  A request that minds no photos:
LEMMA AskKeepsPhotos ==
    ASSUME CallsOK, RowsOK, PanelInv, PhotosInv, Recalled, UNCHANGED <<lotes, refs, binned>>,
           NEW w, Asks(w), w.op \notin {"photos", "upload", "reorder"},
           w.op = "create" => IsSeq(w.images) /\ (w.by = "drawer" => w.images = <<>>),
           PageGoesOn, page'.rows = page.rows, DrawerGoesOn, DrawerFits'
    PROVE  PhotosInv'
<1>1. PICK s \in Slots : \E d : ~Underway(Call(s)) /\ IsFresh(d, w) /\ Only(s, d) /\ OthersFit BY AsksMoves
<1>2. PICK d : ~Underway(Call(s)) /\ IsFresh(d, w) /\ Only(s, d) /\ OthersFit BY <1>1
<1>3. d.what = w /\ ~Okay(d) BY <1>2 DEF IsFresh
<1>4. ~Minds(d) /\ AsksNew(d) BY <1>3, Unminding
<1>5. ~IsSave(Call(s)) BY <1>2 DEF IsSave
<1> QED BY <1>2, <1>4, <1>5, OneQuiet

LEMMA SameCallsKeepPhotos ==
    ASSUME RowsOK, PanelInv, PhotosInv, Recalled, UNCHANGED <<calls, page, lotes, refs, binned>>,
           DrawerGoesOn, DrawerFits'
    PROVE  PhotosInv'
<1>1. \A s \in Slots : Quietly(Call(s), Call(s)') /\ ~Forgotten(s) BY DEF Quietly, Call, Forgotten
<1>2. OthersFit BY DEF OthersFit, PhotosInv, PageFits, CallsFit
<1>3. PageGoesOn /\ page'.rows = page.rows BY PageTurns
<1>4. LotesStay BY DEF LotesStay
<1> QED BY <1>1, <1>2, <1>3, <1>4, QuietStep

LEMMA RivalsKeepPhotos ==
    ASSUME CallsOK, RowsOK, PanelInv, PhotosInv, Recalled, UNCHANGED lotes,
           NEW t \in Tabs, RivalCreates(t) \/ \E i \in Live : RivalDeletes(t, i)
    PROVE  PhotosInv'
<1>1. PICK w : Elsewhere(t, w) /\ (w.op = "delete" \/ (w.op = "create" /\ w.images = <<>>))
  <2>1. CASE RivalCreates(t)
    <3> DEFINE w == [op |-> "create", number |-> Suggested({lotes[i].number : i \in Live}), images |-> <<>>]
    <3>1. Elsewhere(t, w) /\ w.op = "create" /\ w.images = <<>> BY <2>1 DEF RivalCreates
    <3> HIDE DEF w
    <3> QED BY <3>1
  <2>2. ASSUME NEW i \in Live, RivalDeletes(t, i) PROVE \E w : Elsewhere(t, w) /\ w.op = "delete"
    <3> DEFINE w == [op |-> "delete", lote |-> i]
    <3>1. Elsewhere(t, w) /\ w.op = "delete" BY <2>2 DEF RivalDeletes
    <3> HIDE DEF w
    <3> QED BY <3>1
  <2> QED BY <2>1, <2>2
<1>2. t \in Tabs \ {Page} /\ Asking(t, w) /\ UNCHANGED <<page, drawer, refs, binned>> BY <1>1 DEF Elsewhere, pageVars
<1>3. PICK f : f = FreeSlot(t) OBVIOUS
<1>4. PICK d : d = Fresh(w, store[t]) OBVIOUS
<1>5. f \in Slots /\ Goes(t, f, d) /\ IsFresh(d, w)
  <2>1. f \in Slots BY <1>2, <1>3 DEF FreeSlot, Asking, HasRoom
  <2>2. Goes(t, f, d) BY <1>2, <1>3, <1>4 DEF Asking, Goes
  <2> QED BY <1>4, <2>1, <2>2, FreshIs
<1>6. \A u \in Tabs, r \in Slots : calls'[u][r] = IF u = t /\ r = f THEN d ELSE calls[u][r]
  BY <1>5, SlotGoes
<1>7. OtherFits(d) BY <1>1, <1>5 DEF IsFresh, OtherFits
<1>8. OthersFit BY <1>6, <1>7 DEF OthersFit, PhotosInv, PageFits, CallsFit
<1>9. \A s \in Slots : Call(s)' = Call(s) BY <1>2, <1>6, PageAssumption DEF Call
<1>10. \A s \in Slots : Quietly(Call(s), Call(s)') /\ ~Forgotten(s) BY <1>9 DEF Quietly, Forgotten
<1>11. PageGoesOn /\ page'.rows = page.rows BY <1>2, PageTurns
<1>12. DrawerGoesOn /\ DrawerFits'
  <2>1. page'.open = page.open BY <1>2
  <2> QED BY <1>2, <2>1, SameDrawer DEF PhotosInv
<1>13. LotesStay BY DEF LotesStay
<1> QED BY <1>2, <1>8, <1>10, <1>11, <1>12, <1>13, QuietStep

LEMMA PlainChoicesKeepPhotos ==
    ASSUME CallsOK, RowsOK, PanelInv, PhotosInv, Recalled, UNCHANGED lotes,
           \/ TryAgain \/ CloseDrawer \/ OpenCreate \/ LeavePhotos
           \/ \E k \in DOMAIN page.rows : DeleteLote(k) \/ DuplicateLote(k)
           \/ \E files, again : SaveNew(files, again)
           \/ \E n : SaveEdit(n)
    PROVE  PhotosInv'
<1>1. PageFits /\ DOMAIN page = {"open", "rows", "list", "load"} /\ Len(refs) \in Nat
  BY SeqLen DEF PhotosInv, PanelInv, PageShape, PageFits, RefsFit
<1>2. page.open => DOMAIN drawer = {"mode", "lote", "number", "saved", "busy", "step", "shows", "images", "mount"}
  BY DEF PanelInv, PageShape
<1>3. drawer.mode # "closed" => page.open BY <1>1 DEF PageFits, DrawerFits
<1>4. CASE TryAgain
  <2> DEFINE w == [op |-> "list", load |-> page.load + 1]
  <2>1. Asks(w) /\ page' = Loading /\ UNCHANGED <<drawer, refs, binned>> /\ w.op = "list" BY <1>4 DEF TryAgain
  <2> HIDE DEF w
  <2>2. PageGoesOn /\ page'.rows = page.rows /\ page'.open = page.open BY <2>1, PageTurns
  <2>3. DrawerGoesOn /\ DrawerFits' BY <1>1, <2>1, <2>2, SameDrawer
  <2> QED BY <2>1, <2>2, <2>3, AskKeepsPhotos
<1>5. CASE CloseDrawer
  <2>1. drawer' = Closed /\ UNCHANGED <<calls, page, refs, binned>> BY <1>5 DEF CloseDrawer
  <2>2. DrawerGoesOn /\ DrawerFits' BY <1>1, <2>1, ClosedDrawer
  <2> QED BY <2>1, <2>2, SameCallsKeepPhotos
<1>6. CASE OpenCreate
  <2>1. UNCHANGED <<calls, page, refs, binned>> /\ page.open BY <1>6 DEF OpenCreate, ListInView
  <2>2. PICK number : drawer' = [Closed EXCEPT !.mode = "create", !.number = number] BY <1>6 DEF OpenCreate
  <2>3. drawer'.mode = "create" /\ drawer'.shows = 0 /\ drawer'.mount = 0 /\ drawer'.images = <<>>
    BY <2>2 DEF Closed
  <2>4. DrawerGoesOn /\ DrawerFits'
    <3>1. 0 \in 0..Len(refs) BY <1>1
    <3> QED BY <2>1, <2>3, <3>1, EmptyIsSeq DEF DrawerGoesOn, DrawerFits
  <2> QED BY <2>1, <2>4, SameCallsKeepPhotos
<1>7. CASE LeavePhotos
  <2>1. UNCHANGED <<calls, page, refs, binned>> /\ page.open BY <1>3, <1>7 DEF LeavePhotos
  <2>2. drawer' = [drawer EXCEPT !.step = "data", !.mount = 0] BY <1>7 DEF LeavePhotos
  <2>3. /\ drawer'.shows = drawer.shows /\ drawer'.images = drawer.images /\ drawer'.mode = drawer.mode
        /\ drawer'.mount = 0 /\ page'.open = page.open
    BY <1>2, <2>1, <2>2
  <2>4. DrawerGoesOn /\ DrawerFits' BY <1>1, <2>1, <2>3, SteppedDrawer
  <2> QED BY <2>1, <2>4, SameCallsKeepPhotos
<1>8. ASSUME NEW k \in DOMAIN page.rows, DeleteLote(k) \/ DuplicateLote(k) PROVE PhotosInv'
  <2>1. UNCHANGED <<page, drawer, refs, binned>> BY <1>8 DEF DeleteLote, DuplicateLote
  <2>2. PICK w : /\ Asks(w) /\ w.op \in {"delete", "create"}
                 /\ w.op = "create" => w.images = page.rows[k].images /\ w.by = "list"
    <3>1. CASE DeleteLote(k)
      <4> DEFINE w == [op |-> "delete", lote |-> page.rows[k].id]
      <4>1. Asks(w) /\ w.op = "delete" BY <3>1 DEF DeleteLote
      <4> HIDE DEF w
      <4> QED BY <4>1
    <3>2. CASE DuplicateLote(k)
      <4>1. PICK number : Asks([op |-> "create", by |-> "list", number |-> number,
                                images |-> page.rows[k].images, files |-> 0])
        BY <3>2 DEF DuplicateLote
      <4> DEFINE w == [op |-> "create", by |-> "list", number |-> number, images |-> page.rows[k].images, files |-> 0]
      <4>2. Asks(w) /\ w.op = "create" /\ w.images = page.rows[k].images /\ w.by = "list" BY <4>1
      <4> HIDE DEF w
      <4> QED BY <4>2
    <3> QED BY <1>8, <3>1, <3>2
  <2>3. IsSeq(page.rows[k].images) BY <1>1, <1>8 DEF PageFits, RowsFit
  <2>4. PageGoesOn /\ page'.rows = page.rows BY <2>1, PageTurns
  <2>5. DrawerGoesOn /\ DrawerFits'
    <3>1. page'.open = page.open BY <2>1
    <3> QED BY <1>1, <2>1, <3>1, SameDrawer
  <2> QED BY <2>1, <2>2, <2>3, <2>4, <2>5, AskKeepsPhotos
<1>9. ASSUME NEW w, Asks(w), w.op = "edit" \/ (w.op = "create" /\ w.images = <<>>), drawer.mode # "closed",
             drawer' = [drawer EXCEPT !.busy = TRUE, !.step = "data", !.mount = 0],
             UNCHANGED <<page, refs, binned>>
      PROVE  PhotosInv'
  <2>1. /\ drawer'.shows = drawer.shows /\ drawer'.images = drawer.images /\ drawer'.mode = drawer.mode
        /\ drawer'.mount = 0
    BY <1>2, <1>3, <1>9
  <2>2. DrawerGoesOn /\ DrawerFits'
    <3>1. page'.open = page.open BY <1>9
    <3> QED BY <1>1, <1>9, <2>1, <3>1, SteppedDrawer
  <2>3. PageGoesOn /\ page'.rows = page.rows BY <1>9, PageTurns
  <2> QED BY <1>9, <2>2, <2>3, EmptyIsSeq, AskKeepsPhotos
<1>10. ASSUME NEW files, NEW again, SaveNew(files, again) PROVE PhotosInv'
  <2> DEFINE w == [op |-> "create", by |-> "drawer", number |-> drawer.number, images |-> <<>>,
                   files |-> files, again |-> again]
  <2>1. Asks(w) /\ w.op = "create" /\ w.images = <<>> BY <1>10 DEF SaveNew
  <2> HIDE DEF w
  <2>2. /\ UNCHANGED <<page, refs, binned>> /\ drawer.mode # "closed"
        /\ drawer' = [drawer EXCEPT !.busy = TRUE, !.step = "data", !.mount = 0]
    BY <1>10 DEF SaveNew
  <2> QED BY <1>9, <2>1, <2>2
<1>11. ASSUME NEW n, SaveEdit(n) PROVE PhotosInv'
  <2> DEFINE w == [op |-> "edit", lote |-> drawer.lote, number |-> n]
  <2>1. Asks(w) /\ w.op = "edit" BY <1>11 DEF SaveEdit
  <2> HIDE DEF w
  <2>2. /\ UNCHANGED <<page, refs, binned>> /\ drawer.mode # "closed"
        /\ drawer' = [drawer EXCEPT !.busy = TRUE, !.step = "data", !.mount = 0]
    BY <1>11 DEF SaveEdit
  <2> QED BY <1>9, <2>1, <2>2
<1> QED BY <1>4, <1>5, <1>6, <1>7, <1>8, <1>10, <1>11

\* The rows of before are all there, and nobody is saving photos of a lote that is not clashed.
LEMMA MoveLoteKeepsPhotos ==
    ASSUME CallsOK, RowsOK, PanelInv, PhotosInv, Recalled, UNCHANGED lotes,
           NEW k \in DOMAIN page.rows, MoveLote(k)
    PROVE  PhotosInv'
<1>1. PICK rows : rows = Swapped(page.rows, k) OBVIOUS
<1> DEFINE w == [op |-> "reorder", ids |-> [i \in 1..Len(page.rows) |-> rows[i].id], kept |-> page.rows]
<1>2. /\ Asks(w) /\ page' = [page EXCEPT !.rows = rows] /\ UNCHANGED <<drawer, refs, binned>>
      /\ page.open /\ page.list = "ready" /\ k < Len(page.rows)
  BY <1>1 DEF MoveLote, ListInView
<1>3. w.op = "reorder" /\ w.kept = page.rows OBVIOUS
<1> HIDE DEF w
<1>4. PICK s \in Slots : \E d : ~Underway(Call(s)) /\ IsFresh(d, w) /\ Only(s, d) /\ OthersFit BY <1>2, AsksMoves
<1>5. PICK d : ~Underway(Call(s)) /\ IsFresh(d, w) /\ Only(s, d) /\ OthersFit BY <1>4
<1>6. /\ d.what.op = "reorder" /\ d.what.kept = page.rows /\ IsOrder(d)
      /\ ~OfPhotos(d) /\ ~IsNew(d) /\ ~IsList(d) /\ ~IsSave(d) /\ ~IsSave(Call(s))
  BY <1>3, <1>5 DEF IsFresh, IsOrder, OfPhotos, IsNew, IsList, IsSave, Underway
<1>7. DOMAIN page = {"open", "rows", "list", "load"} BY DEF PanelInv, PageShape
<1>8. page'.open = page.open /\ page'.load = page.load /\ page'.rows = rows BY <1>2, <1>7
<1>9. RowsFit(page.rows, DOMAIN lotes) BY DEF PhotosInv, PageFits
<1>10. PICK old : old = page.rows OBVIOUS
<1>11. IsSeq(rows) /\ DOMAIN rows = DOMAIN old /\ \A i \in DOMAIN old : \E j \in DOMAIN old : rows[i] = old[j]
  <2>1. IsSeq(old) /\ DOMAIN old = 1..Len(old) BY <1>9, <1>10, SeqLen DEF RowsFit
  <2>2. k \in 1..Len(old) /\ k < Len(old) BY <1>2, <1>10, <2>1
  <2>3. rows = Swapped(old, k) BY <1>1, <1>10
  <2>4. /\ IsSeq(Swapped(old, k)) /\ DOMAIN Swapped(old, k) = DOMAIN old
        /\ \A i \in DOMAIN old : \E j \in DOMAIN old : Swapped(old, k)[i] = old[j]
    BY <2>1, <2>2, SeqSwapped
  <2> QED BY <2>3, <2>4
<1>12. RowsFit(rows, DOMAIN lotes) BY <1>9, <1>10, <1>11 DEF RowsFit
<1>13. CallFits(d, DOMAIN lotes, Len(refs)) BY <1>6, <1>9 DEF CallFits, AsksNew
<1>14. ASSUME NEW i \in DOMAIN lotes \ clashed'
       PROVE  OrderKeeps(d, i, Kept(i)) /\ RowsKeep(rows, i, Kept(i))
  <2>1. Alone(i)' /\ PhotosKept(i) BY <1>14, NotClashed
  <2>2. Call(s)' = d /\ \A r \in Slots \ {s} : Call(r)' = Call(r) BY <1>5 DEF Only
  <2>3. \A r \in Slots : ~Of(Call(r)', i) BY <1>6, <2>1, <2>2 DEF Alone
  <2>4. None(i)
    <3>1. \A r \in Slots : Stored(Call(r), i) => r # s BY <1>6 DEF Stored
    <3> QED BY <2>2, <2>3, <3>1 DEF None, Stored
  <2>5. RowsKeep(page.rows, i, Kept(i)) BY <1>2, <2>1, <2>4 DEF PhotosKept, ListKeeps
  <2>6. RowsKeep(rows, i, Kept(i)) BY <1>10, <1>11, <2>5 DEF RowsKeep
  <2> QED BY <1>6, <2>5, <2>6 DEF OrderKeeps
<1> QED BY <1>2, <1>5, <1>6, <1>8, <1>12, <1>13, <1>14, RowsKeepPhotos

\* The panel shows the photos of lote j in a gallery of its own.
LEMMA MountKeepsPhotos ==
    ASSUME RowsOK, PanelInv, PhotosInv, Recalled, UNCHANGED <<calls, page, lotes, binned>>, page.open,
           NEW j \in DOMAIN lotes, NEW images, IsSeq(images), NEW m, m = Len(refs) + 1,
           refs' = Append(refs, images), drawer'.mount = m, drawer'.shows = j, drawer'.images = images,
           drawer'.mode # "closed", drawer'.step # "data",
           j \notin clashed' => /\ \A s \in Slots : ~(IsStaged(Call(s)) /\ Of(Call(s), j)) /\ ~Births(Call(s), j)
                                /\ None(j) => Kept(j) \subseteq Range(images)
    PROVE  PhotosInv'
<1>1. \A r \in Slots : Call(r)' = Call(r) /\ Quietly(Call(r), Call(r)') BY DEF Call, Quietly
<1>2. PageFits /\ IsSeq(refs) /\ (\A k \in 1..Len(refs) : IsSeq(refs[k])) /\ Len(refs) \in Nat
  <2>1. PageFits /\ IsSeq(refs) BY DEF PhotosInv, PageFits, RefsFit
  <2>2. DOMAIN refs = 1..Len(refs) /\ Len(refs) \in Nat BY <2>1, SeqLen
  <2> QED BY <2>1, <2>2 DEF PageFits, RefsFit
<1>3. j # 0 /\ m # 0 /\ m \notin 0..Len(refs) BY <1>2, LoteIsNot0
<1>4. IsSeq(refs') /\ Len(refs') = m /\ refs'[m] = images /\ \A k \in 1..Len(refs) : refs'[k] = refs[k]
  <2>1. PICK q : q = Append(refs, images) OBVIOUS
  <2>2. /\ IsSeq(q) /\ Len(q) = Len(refs) + 1
        /\ q[Len(refs) + 1] = images /\ \A k \in 1..Len(refs) : q[k] = refs[k]
    BY <1>2, <2>1, SeqAppend
  <2> QED BY <2>1, <2>2
<1>5. PageFits'
  <2>1. RefsFit'
    <3>1. DOMAIN refs' = 1..m BY <1>4, SeqLen
    <3>2. \A k \in 1..m : k = m \/ k \in 1..Len(refs) BY <1>2
    <3> QED BY <1>2, <1>4, <3>1, <3>2 DEF RefsFit
  <2>2. DrawerFits'
    <3>1. m \in 0..Len(refs') BY <1>2, <1>4
    <3> QED BY <1>3, <3>1 DEF DrawerFits
  <2>3. Len(refs) <= Len(refs') BY <1>2, <1>4
  <2>4. \A t \in Tabs \ {Page}, s \in Slots : OtherFits(calls'[t][s]) BY <1>2 DEF PageFits, CallsFit
  <2> QED BY <1>1, <1>2, <2>1, <2>2, <2>3, <2>4, PassFits DEF PageFits
<1>6. ASSUME NEW i \in DOMAIN lotes' \ clashed' PROVE PhotosKept(i)'
  <2>1. i \in DOMAIN lotes /\ lotes'[i].images = lotes[i].images /\ Kept(i)' = Kept(i) /\ i # 0
    BY <1>6, LoteIsNot0 DEF Kept
  <2>2. Alone(i)' /\ PhotosKept(i) BY <1>6, <2>1, NotClashed
  <2>3. None(i)' = None(i) BY <1>1 DEF None
  <2>4. CallsKeep(i)' BY <1>1, <2>1, <2>2, PassCalls DEF PhotosKept
  <2>5. i = j => \A s \in Slots : ~Of(Call(s), i)
    <3> SUFFICES ASSUME i = j, NEW s \in Slots, Of(Call(s), i) PROVE FALSE
      OBVIOUS
    <3>1. OfPhotos(Call(s)) /\ Of(Call(s)', i) /\ Call(s)'.what.mount = Call(s).what.mount BY <1>1 DEF Of
    <3>2. Call(s).what.mount \in 0..Len(refs) BY <1>2, <3>1 DEF PageFits, CallsFit, CallFits
    <3>3. Call(s).what.mount # 0 BY <1>6, <3>1 DEF IsStaged, OfPhotos
    <3>4. Call(s).what.mount = m BY <2>2, <3>1, <3>3 DEF Alone
    <3> QED BY <1>3, <3>2, <3>4
  <2>6. BirthKeeps(i)'
    <3>1. drawer'.shows = i => \A s \in Slots : ~Births(Call(s), i) BY <1>6
    <3> QED BY <1>1, <2>1, <2>2, <3>1, PassBirths DEF PhotosKept
  <2>7. ListKeeps(i)'
    <3>1. PageGoesOn BY DEF PageGoesOn
    <3> QED BY <1>1, <2>1, <2>2, <2>3, <3>1, PassList DEF PhotosKept
  <2>8. GalleryKeeps(i)'
    <3> SUFFICES ASSUME i = j PROVE GalleryKeeps(i)' BY DEF GalleryKeeps
    <3>1. None(i) BY <2>5 DEF None, Stored
    <3>2. Kept(i)' \subseteq Range(images) BY <1>6, <2>1, <3>1
    <3>3. \A s \in Slots : OfPhotos(Call(s)') => Call(s)'.what.mount # m
      BY <1>1, <1>2, <1>3 DEF PageFits, CallsFit, CallFits
    <3>4. \A s \in Slots : ~Of(Call(s)', i) BY <1>1, <2>5
    <3> QED BY <1>4, <3>2, <3>3, <3>4 DEF GalleryKeeps
  <2> QED BY <2>2, <2>4, <2>6, <2>7, <2>8 DEF PhotosKept
<1> QED BY <1>5, <1>6 DEF PhotosInv

LEMMA OpenEditKeepsPhotos ==
    ASSUME CallsOK, RowsOK, PanelInv, PhotosInv, Recalled, UNCHANGED lotes,
           NEW k \in DOMAIN page.rows, OpenEdit(k)
    PROVE  PhotosInv'
<1>1. PICK j, images, m : j = page.rows[k].id /\ images = page.rows[k].images /\ m = Len(refs) + 1 OBVIOUS
<1>2. /\ UNCHANGED <<calls, page, binned>> /\ page.open /\ page.list = "ready" /\ drawer.mode = "closed"
      /\ refs' = Append(refs, images)
  BY <1>1 DEF OpenEdit, ListInView
<1>3. PICK number : drawer' = [Closed EXCEPT !.mode = "edit", !.lote = j, !.number = number, !.shows = j,
                                             !.images = images, !.mount = m]
  BY <1>1 DEF OpenEdit
<1>4. /\ drawer'.mode = "edit" /\ drawer'.shows = j /\ drawer'.images = images /\ drawer'.mount = m
      /\ drawer'.step = "photos"
  BY <1>3 DEF Closed
<1>5. j \in DOMAIN lotes /\ IsSeq(images) BY <1>1 DEF PhotosInv, PageFits, RowsFit
<1>6. \A s \in Slots : ~OfThePanel(Call(s)) BY <1>2 DEF PanelInv
<1>7. \A s \in Slots : ~IsStaged(Call(s)) /\ ~Births(Call(s), j) BY <1>6 DEF OfThePanel, Births, IsNew
<1>8. j \notin clashed' /\ None(j) => Kept(j) \subseteq Range(images)
  <2> SUFFICES ASSUME j \notin clashed', None(j) PROVE Kept(j) \subseteq Range(images)
    OBVIOUS
  <2>1. ListKeeps(j) BY <1>5, NotClashed DEF PhotosKept
  <2>2. RowsKeep(page.rows, j, Kept(j)) BY <1>2, <2>1 DEF ListKeeps
  <2> QED BY <1>1, <2>2 DEF RowsKeep
<1> QED BY <1>1, <1>2, <1>4, <1>5, <1>7, <1>8, MountKeepsPhotos

LEMMA BackToPhotosKeepsPhotos ==
    ASSUME CallsOK, RowsOK, PanelInv, PhotosInv, Recalled, UNCHANGED lotes, BackToPhotos
    PROVE  PhotosInv'
<1>1. PageFits /\ DrawerFits /\ UNCHANGED <<calls, page, binned>> /\ drawer.mode # "closed" /\ drawer.step = "data"
  BY DEF PhotosInv, PageFits, BackToPhotos
<1>2. page.open /\ drawer.mount = 0 BY <1>1 DEF DrawerFits
<1>3. DOMAIN drawer = {"mode", "lote", "number", "saved", "busy", "step", "shows", "images", "mount"}
  BY <1>2 DEF PanelInv, PageShape
<1>4. CASE drawer.shows = 0
  <2>1. drawer' = [drawer EXCEPT !.step = "photos"] /\ UNCHANGED refs BY <1>4 DEF BackToPhotos
  <2>2. /\ drawer'.shows = drawer.shows /\ drawer'.images = drawer.images /\ drawer'.mode = drawer.mode
        /\ drawer'.mount = 0 /\ page'.open = page.open
    BY <1>1, <1>2, <1>3, <2>1
  <2>3. DrawerGoesOn /\ DrawerFits' BY <1>1, <2>1, <2>2, SteppedDrawer
  <2> QED BY <1>1, <2>1, <2>3, SameCallsKeepPhotos
<1>5. CASE drawer.shows # 0
  <2>1. PICK j, images, m : j = drawer.shows /\ images = drawer.images /\ m = Len(refs) + 1 OBVIOUS
  <2>2. drawer' = [drawer EXCEPT !.step = "photos", !.mount = m] /\ refs' = Append(refs, images)
    BY <1>5, <2>1 DEF BackToPhotos
  <2>3. /\ drawer'.mode = drawer.mode /\ drawer'.shows = j /\ drawer'.images = images /\ drawer'.mount = m
        /\ drawer'.step = "photos"
    BY <1>3, <2>1, <2>2
  <2>4. j \in DOMAIN lotes /\ IsSeq(images) BY <1>1, <1>5, <2>1 DEF DrawerFits
  <2>5. ASSUME j \notin clashed'
        PROVE  /\ \A s \in Slots : ~(IsStaged(Call(s)) /\ Of(Call(s), j)) /\ ~Births(Call(s), j)
               /\ None(j) => Kept(j) \subseteq Range(images)
    <3>1. BirthKeeps(j) /\ GalleryKeeps(j) BY <2>4, <2>5, NotClashed DEF PhotosKept
    <3>2. \A s \in Slots : ~Births(Call(s), j) BY <2>1, <3>1 DEF BirthKeeps
    <3>3. None(j) => Kept(j) \subseteq Range(images) BY <2>1, <3>1 DEF GalleryKeeps
    <3> QED BY <3>2, <3>3 DEF Births, Of
  <2> QED BY <1>1, <1>2, <2>1, <2>2, <2>3, <2>4, <2>5, MountKeepsPhotos
<1> QED BY <1>4, <1>5

LEMMA ArrangeKeepsPhotos ==
    ASSUME CallsOK, RowsOK, PanelInv, PhotosInv, Recalled, UNCHANGED lotes,
           NEW images \in Rearrangements, Arrange(images)
    PROVE  PhotosInv'
<1>1. PICK m, j, old : m = drawer.mount /\ j = drawer.shows /\ old = refs[drawer.mount] OBVIOUS
<1> DEFINE w == [op |-> "photos", lote |-> j, mount |-> m, images |-> images, kept |-> old]
<1>2. PICK s : s = FreeSlot(Page) OBVIOUS
<1>3. /\ s \in Slots /\ ~Underway(Call(s)) /\ Then(s, w) /\ m # 0 /\ UNCHANGED <<page, drawer>>
      /\ refs' = IF m = drawer.mount THEN [refs EXCEPT ![m] = images] ELSE refs
      /\ binned' = binned \cup {<<j, p>> : p \in Range(old) \ Range(images)}
  BY <1>1, <1>2 DEF Arrange, Persists, HasRoom, FreeSlot, Underway, Call
<1>4. w.op = "photos" /\ w.lote = j /\ w.mount = m /\ w.images = images /\ w.kept = old OBVIOUS
<1> HIDE DEF w
<1>5. PICK d : IsFresh(d, w) /\ Only(s, d) /\ OthersFit BY <1>3, ThenMoves
<1>6. /\ d.what.lote = j /\ d.what.mount = m /\ d.what.images = images /\ d.what.kept = old
      /\ IsSave(d) /\ ~Okay(d) /\ ~IsSave(Call(s))
  BY <1>3, <1>4, <1>5 DEF IsFresh, IsSave, Underway
<1>7. PageFits /\ DrawerFits BY DEF PhotosInv, PageFits
<1>8. Len(refs) \in Nat /\ DOMAIN refs = 1..Len(refs) BY <1>7, SeqLen DEF PageFits, RefsFit
<1>9. j \in DOMAIN lotes /\ m \in 1..Len(refs) /\ IsSeq(old)
  <2>1. m \in 0..Len(refs) /\ j \in DOMAIN lotes BY <1>1, <1>3, <1>7 DEF DrawerFits
  <2>2. m \in 1..Len(refs) BY <1>3, <1>8, <2>1
  <2> QED BY <1>1, <1>7, <1>8, <2>1, <2>2 DEF PageFits, RefsFit
<1>10. IsSeq(images)
  <2>1. Len(old) \in Nat /\ DOMAIN old = 1..Len(old) BY <1>9, SeqLen
  <2>2. CASE \E k \in DOMAIN old : images = [i \in 1..Len(old) - 1 |-> IF i < k THEN old[i] ELSE old[i + 1]]
    <3>1. PICK n : n = Len(old) - 1 OBVIOUS
    <3>2. n \in Nat BY <2>1, <2>2, <3>1
    <3>3. images = [i \in 1..n |-> images[i]] BY <2>2, <3>1
    <3> QED BY <3>2, <3>3 DEF IsSeq
  <2>3. ASSUME NEW k \in 1..Len(old) - 1, images = Swapped(old, k) PROVE IsSeq(images)
    <3>1. k \in 1..Len(old) /\ k < Len(old) BY <2>1
    <3> QED BY <1>9, <2>3, <3>1, SeqSwapped
  <2> QED BY <1>1, <1>3, <2>2, <2>3 DEF Rearrangements
<1>11. \A p \in Range(old) \ Range(images) : <<j, p>> \in binned' BY <1>3
<1>12. binned \subseteq binned' BY <1>3
<1>13. /\ d.what.kept = refs[m] /\ \A p \in Range(refs[m]) \ Range(images) : <<j, p>> \in binned'
       /\ \A i \in DOMAIN lotes \ clashed' : m = drawer.mount /\ drawer.shows = i => j = i
  BY <1>1, <1>6, <1>11
<1>14. /\ UNCHANGED <<lotes, page, drawer>>
       /\ refs' = IF m = drawer.mount THEN [refs EXCEPT ![m] = images] ELSE refs
  BY <1>3
<1> HIDE DEF w
<1> QED BY <1>3, <1>5, <1>6, <1>9, <1>10, <1>12, <1>13, <1>14, PersistKeepsPhotos

LEMMA UploadKeepsPhotos ==
    ASSUME CallsOK, RowsOK, PanelInv, PhotosInv, Recalled, UNCHANGED lotes, NEW files, Upload(files)
    PROVE  PhotosInv'
<1> DEFINE w == [op |-> "upload", lote |-> drawer.shows, files |-> files, mount |-> drawer.mount]
<1>1. Asks(w) /\ UNCHANGED <<page, drawer, refs, binned>> /\ drawer.mount # 0 BY DEF Upload
<1>2. w.op = "upload" /\ w.lote = drawer.shows /\ w.mount = drawer.mount OBVIOUS
<1> HIDE DEF w
<1>3. PICK s \in Slots : \E d : ~Underway(Call(s)) /\ IsFresh(d, w) /\ Only(s, d) /\ OthersFit BY <1>1, AsksMoves
<1>4. PICK d : ~Underway(Call(s)) /\ IsFresh(d, w) /\ Only(s, d) /\ OthersFit BY <1>3
<1>5. /\ d.what.op = "upload" /\ d.what.lote = drawer.shows /\ d.what.mount = drawer.mount /\ ~Okay(d)
      /\ OfPhotos(d) /\ ~IsOrder(d) /\ ~IsNew(d) /\ ~IsList(d) /\ ~IsSave(d) /\ ~IsStaged(d) /\ ~IsSave(Call(s))
  BY <1>1, <1>2, <1>4 DEF IsFresh, IsOrder, OfPhotos, IsNew, IsList, IsSave, IsStaged, Underway
<1>6. Call(s)' = d /\ \A r \in Slots \ {s} : Call(r)' = Call(r) BY <1>4 DEF Only
<1>7. PageFits BY DEF PhotosInv
<1>8. Len(refs) <= Len(refs)
  <2>1. Len(refs) \in Nat BY <1>7, SeqLen DEF PageFits, RefsFit
  <2> QED BY <2>1
<1>9. \A r \in Slots : Quietly(Call(r), Call(r)') \/ (r = s /\ Call(r)' = d) BY <1>6 DEF Quietly
<1>10. PageFits'
  <2>1. CallFits(d, DOMAIN lotes, Len(refs))
    <3>1. drawer.shows \in DOMAIN lotes /\ drawer.mount \in 0..Len(refs) BY <1>1, <1>7 DEF PageFits, DrawerFits
    <3> QED BY <1>5, <3>1 DEF CallFits, AsksNew
  <2> QED BY <1>1, <1>4, <1>7, <1>8, <1>9, <2>1, PassFits DEF PageFits, RefsFit, DrawerFits, OthersFit
<1>11. ASSUME NEW i \in DOMAIN lotes' \ clashed' PROVE PhotosKept(i)'
  <2>1. i \in DOMAIN lotes /\ lotes'[i].images = lotes[i].images /\ Kept(i)' = Kept(i) /\ i # 0
    BY <1>1, <1>11, LoteIsNot0 DEF Kept
  <2>2. Alone(i)' /\ PhotosKept(i) BY <1>11, <2>1, NotClashed
  <2>3. ~Births(d, i) /\ (Of(d, i) => drawer.shows = i) BY <1>5 DEF Births, Of
  <2>4. None(i)' => None(i)
    <3>1. \A r \in Slots : Stored(Call(r), i) => r # s BY <1>5 DEF Stored
    <3> QED BY <1>6, <3>1 DEF None
  <2>5. CallsKeep(i)'
    <3>1. SaveKeeps(d, i, lotes'[i].images, Kept(i)') /\ OrderKeeps(d, i, Kept(i)')
      BY <1>5 DEF SaveKeeps, OrderKeeps
    <3> QED BY <1>9, <2>1, <2>2, <3>1, PassCalls DEF PhotosKept
  <2>6. BirthKeeps(i)' BY <1>1, <1>9, <2>1, <2>2, <2>3, PassBirths DEF PhotosKept, Concerns
  <2>7. ListKeeps(i)'
    <3>1. PageGoesOn BY <1>1 DEF PageGoesOn
    <3> QED BY <1>5, <1>9, <2>1, <2>2, <2>4, <3>1, PassList DEF PhotosKept
  <2>8. GalleryKeeps(i)'
    <3>1. DrawerGoesOn BY <1>1 DEF DrawerGoesOn
    <3> QED BY <1>1, <1>5, <1>9, <2>1, <2>2, <2>4, <3>1, PassGallery DEF PhotosKept
  <2> QED BY <2>2, <2>5, <2>6, <2>7, <2>8 DEF PhotosKept
<1> QED BY <1>10, <1>11 DEF PhotosInv

LEMMA ChoicesKeepPhotos ==
    ASSUME CallsOK, RowsOK, PanelInv, PhotosInv, Recalled, UNCHANGED lotes, Choices
    PROVE  PhotosInv'
<1>1. CASE \/ TryAgain \/ CloseDrawer \/ OpenCreate \/ LeavePhotos
           \/ \E k \in DOMAIN page.rows : DeleteLote(k) \/ DuplicateLote(k)
           \/ \E files, again : SaveNew(files, again)
           \/ \E n : SaveEdit(n)
  BY <1>1, PlainChoicesKeepPhotos
<1>2. CASE \E k \in DOMAIN page.rows : MoveLote(k) BY <1>2, MoveLoteKeepsPhotos
<1>3. CASE \E k \in DOMAIN page.rows : OpenEdit(k) BY <1>3, OpenEditKeepsPhotos
<1>4. CASE BackToPhotos BY <1>4, BackToPhotosKeepsPhotos
<1>5. CASE \E images \in Rearrangements : Arrange(images) BY <1>5, ArrangeKeepsPhotos
<1>6. CASE \E files : Upload(files) BY <1>6, UploadKeepsPhotos
<1>7. CASE \E t \in Tabs : RivalCreates(t) \/ \E i \in Live : RivalDeletes(t, i) BY <1>7, RivalsKeepPhotos
<1> QED BY <1>1, <1>2, <1>3, <1>4, <1>5, <1>6, <1>7 DEF Choices

------------------------------------------------------------------------------
LEMMA PhotosStart == ASSUME Init PROVE PhotosInv
<1>1. PICK n \in Nat, photo \in Nat :
         lotes = [i \in 1..n |-> [number |-> <<i, 0>>, order |-> i - 1, here |-> TRUE,
                                 images |-> IF i = 1 THEN [k \in 1..photo |-> k] ELSE <<>>]]
  BY PlansAssumption DEF Init, SessionInit, CatalogoInit
<1>2. DOMAIN lotes = 1..n /\ \A i \in 1..n : IsSeq(lotes[i].images)
  <2>1. PICK q : q = [k \in 1..photo |-> k] OBVIOUS
  <2>2. IsSeq(q) BY <2>1 DEF IsSeq
  <2>3. \A i \in 1..n : lotes[i].images = IF i = 1 THEN q ELSE <<>> BY <1>1, <2>1
  <2> QED BY <1>1, <2>2, <2>3, EmptyIsSeq
<1>3. /\ page.rows = [i \in 1..n |-> Shown(i)] /\ drawer = Closed /\ refs = <<>> /\ page.open = TRUE
      /\ clashed = {} /\ binned = {}
  BY <1>2 DEF Init, PageInit
<1>4. /\ drawer.mount = 0 /\ drawer.shows = 0 /\ drawer.images = <<>> BY <1>3 DEF Closed
<1>5. \A t \in Tabs, s \in Slots : calls[t][s] = NoCall BY DEF Init, SessionInit
<1>6. \A s \in Slots : ~Underway(Call(s)) BY <1>5, PageAssumption, NoCallIsGood DEF Call, Underway
<1>7. PICK rows : rows = page.rows OBVIOUS
<1>8. DOMAIN rows = 1..n /\ rows = [i \in 1..n |-> rows[i]]
  BY <1>3, <1>7
<1>9. \A i \in 1..n : rows[i].id = i /\ rows[i].images = lotes[i].images BY <1>3, <1>7 DEF Shown
<1>10. PageFits
  <2>1. RefsFit BY <1>3, EmptyIsSeq DEF RefsFit
  <2>2. IsSeq(rows) BY <1>8 DEF IsSeq
  <2>5. RowsFit(rows, DOMAIN lotes) BY <1>2, <1>8, <1>9, <2>2 DEF RowsFit
  <2>3. DrawerFits BY <1>3, <1>4, EmptyIsSeq DEF DrawerFits
  <2>4. CallsFit
    <3>1. ASSUME NEW s \in Slots, NEW ids, NEW m PROVE CallFits(Call(s), ids, m)
      <4>1. PICK c : c = Call(s) OBVIOUS
      <4> QED BY <1>6, <4>1 DEF CallFits, IsList, IsOrder, AsksNew, IsNew, OfPhotos, IsSave
    <3>2. OtherFits(NoCall) BY NoCallIsGood DEF OtherFits, Underway
    <3> QED BY <1>5, <3>1, <3>2 DEF CallsFit
  <2> QED BY <1>2, <1>7, <2>1, <2>3, <2>4, <2>5 DEF PageFits
<1>11. ASSUME NEW i \in 1..n PROVE PhotosKept(i)
  <2>1. \A s \in Slots : /\ ~Of(Call(s), i) /\ ~Births(Call(s), i) /\ ~IsSave(Call(s)) /\ ~IsOrder(Call(s))
                         /\ ~IsList(Call(s))
    BY <1>6 DEF Of, OfPhotos, Births, IsStaged, IsNew, IsSave, IsOrder, IsList
  <2>2. Alone(i) BY <2>1 DEF Alone
  <2>3. CallsKeep(i) BY <2>1 DEF CallsKeep, SaveKeeps, OrderKeeps
  <2>4. RowsKeep(rows, i, Kept(i)) BY <1>8, <1>9 DEF RowsKeep, Kept
  <2>5. ListKeeps(i) BY <1>7, <2>1, <2>4 DEF ListKeeps, LoadKeeps
  <2>6. GalleryKeeps(i) BY <1>4 DEF GalleryKeeps
  <2>7. BirthKeeps(i) BY <2>1 DEF BirthKeeps
  <2> QED BY <2>2, <2>3, <2>5, <2>6, <2>7 DEF PhotosKept
<1> QED BY <1>2, <1>10, <1>11 DEF PhotosInv

LEMMA PhotosStep ==
    ASSUME CatalogoInv, SessionInv, PanelInv, PhotosInv, [Next]_vars
    PROVE  PhotosInv'
<1>1. CallsOK /\ RowsOK BY DEF CatalogoInv
<1>2. CASE UNCHANGED vars
  <2>1. UNCHANGED <<calls, lotes, page, drawer, refs, binned, clashed>> BY <1>2 DEF vars, pageVars, serverVars
  <2>2. Recalled
    <3>1. ASSUME NEW i, Alone(i) PROVE Alone(i)'
      <4>1. \A s \in Slots : Call(s)' = Call(s) BY <2>1 DEF Call
      <4> QED BY <2>1, <3>1, <4>1 DEF Alone
    <3> QED BY <2>1, <3>1 DEF Recalled, PhotosInv, PhotosKept
  <2> QED BY <2>1, <2>2, SameCallsIdle
<1>3. CASE Next
  <2>1. Recalled BY <1>3, RecalledIs DEF Next, Progress, Moves
  <2>2. CASE (SessionProgress \/ SessionMoves \/ \E t \in Tabs \ {Page} : Reload(t)) /\ Guarded /\ UNCHANGED serverVars
    <3>1. UNCHANGED <<lotes, refs, binned>> BY <2>2 DEF Guarded, serverVars
    <3> QED BY <2>1, <2>2, <3>1, SessionKeepsPhotos
  <2>3. CASE CatalogoProgress /\ UNCHANGED pageVars BY <2>1, <2>3, ServedKeepPhotos
  <2>4. ASSUME NEW s \in Slots, Arrivals(s), UNCHANGED serverVars PROVE PhotosInv'
    <3>1. page.open
      BY <2>4 DEF Arrivals, Hears, ListArrives, ReorderArrives, DeleteArrives, DuplicateArrives, CreateArrives,
                  StagedArrive, CoverArrives, EditArrives, UploadsArrive, PhotosArrive
    <3> QED BY <1>1, <2>1, <2>4, <3>1, ArrivalsKeepPhotos DEF serverVars
  <2>5. ASSUME NEW t \in Tabs, NEW s \in Slots, Unheard(t, s), UNCHANGED serverVars PROVE PhotosInv'
    BY <2>1, <2>5, NobodyHears DEF serverVars
  <2>6. CASE Freeze /\ UNCHANGED pageVars
    <3>1. UNCHANGED <<calls, lotes, page, drawer, refs, binned>> BY <2>6 DEF Freeze, pageVars
    <3> QED BY <2>1, <3>1, SameCallsIdle
  <2>7. CASE Choices /\ UNCHANGED serverVars BY <1>1, <2>1, <2>7, ChoicesKeepPhotos DEF serverVars
  <2> QED BY <1>3, <2>2, <2>3, <2>4, <2>5, <2>6, <2>7 DEF Next, Progress, Moves
<1> QED BY <1>2, <1>3

\* A save that is served brings every photo of its lote that nobody removed.
LEMMA SavesBringPhotos ==
    ASSUME CatalogoInv, PhotosInv, Recalled, NEW t \in Tabs, NEW s \in Slots, ServePhotos(t, s),
           NEW i \in DOMAIN lotes \ clashed'
    PROVE  Kept(i) \subseteq Range(lotes'[i].images)
<1>a. PICK c, images : c = calls[t][s] /\ images = calls[t][s].what.images OBVIOUS
<1>1. /\ Welcome(c) /\ c.what.op = "photos"
      /\ \/ UNCHANGED lotes
         \/ /\ c.what.lote \in Live
            /\ lotes' = [lotes EXCEPT ![c.what.lote] = [lotes[c.what.lote] EXCEPT !.images = images]]
  BY <1>a DEF ServePhotos, ServeOwned, Owned
<1>2. Underway(c) /\ ~Okay(c) BY <1>1 DEF Welcome, Underway, Okay, Heard
<1>3. t = Page BY <1>1, <1>2, <1>a DEF PhotosInv, PageFits, CallsFit, OtherFits
<1>4. CASE lotes'[i].images = lotes[i].images BY <1>4 DEF Kept
<1>5. CASE c.what.lote = i /\ lotes'[i].images = images /\ i \in DOMAIN lotes'
  <2>1. PhotosKept(i) BY <1>5, NotClashed
  <2>2. Call(s) = c BY <1>3, <1>a DEF Call
  <2>3. IsSave(c) /\ Of(c, i) BY <1>1, <1>2, <1>5 DEF IsSave, Of, OfPhotos
  <2>4. SaveKeeps(Call(s), i, lotes[i].images, Kept(i)) BY <2>1 DEF PhotosKept, CallsKeep
  <2>5. Kept(i) \subseteq Range(c.what.images) BY <1>2, <2>2, <2>3, <2>4 DEF SaveKeeps
  <2> QED BY <1>5, <1>a, <2>5
<1>6. DOMAIN lotes' = DOMAIN lotes BY <1>1
<1>7. lotes'[i].images = lotes[i].images \/ (c.what.lote = i /\ lotes'[i].images = images)
  BY <1>1, <1>6 DEF CatalogoInv, RowsOK, GoodRow
<1> QED BY <1>4, <1>5, <1>6, <1>7

LEMMA PhotosStay ==
    ASSUME CatalogoInv, PhotosInv, Next, NEW i \in DOMAIN lotes \ clashed'
    PROVE  Kept(i) \subseteq Range(lotes'[i].images)
<1>1. RowsOK BY DEF CatalogoInv
<1>2. Recalled BY RecalledIs DEF Next, Progress, Moves
<1>3. CASE UNCHANGED lotes BY <1>3 DEF Kept
<1>4. CASE LotesStay BY <1>4 DEF Kept, LotesStay
<1>5. ASSUME NEW t \in Tabs, NEW s \in Slots, CreateCommits(t, s) PROVE Kept(i) \subseteq Range(lotes'[i].images)
  <2>1. PICK row : lotes' = Append(lotes, row) \/ lotes' = lotes BY <1>5 DEF CreateCommits
  <2>2. PICK n \in Nat : lotes = [k \in 1..n |-> lotes[k]] BY <1>1 DEF RowsOK
  <2>3. CASE lotes' = Append(lotes, row)
    <3>1. lotes' = [k \in 1..(n + 1) |-> IF k = n + 1 THEN row ELSE lotes[k]] BY <2>2, <2>3, AppendRow
    <3>2. i \in 1..n BY <2>2
    <3>3. lotes'[i] = lotes[i] BY <3>1, <3>2
    <3> QED BY <3>3 DEF Kept
  <2> QED BY <1>3, <2>1, <2>3
<1>6. CASE CatalogoProgress
  <2>1. PICK t \in Tabs, s \in Slots :
           \/ ServeList(t, s) \/ CreateReads(t, s) \/ CreateCommits(t, s)
           \/ ReorderReads(t, s) \/ ReorderCommits(t, s)
           \/ ServeEdit(t, s) \/ ServePhotos(t, s) \/ ServeDelete(t, s) \/ ServeUpload(t, s)
    BY <1>6 DEF CatalogoProgress
  <2>2. CASE ServeList(t, s) \/ CreateReads(t, s) \/ ReorderReads(t, s) \/ ServeUpload(t, s)
    BY <1>3, <2>2 DEF ServeList, CreateReads, ReorderReads, ServeUpload, serverVars
  <2>3. CASE ReorderCommits(t, s) \/ ServeEdit(t, s) \/ ServeDelete(t, s)
    BY <1>1, <1>4, <2>3, ReorderStays, EditStays, DeleteStays
  <2>4. CASE ServePhotos(t, s) BY <1>2, <2>4, SavesBringPhotos
  <2> QED BY <1>5, <2>1, <2>2, <2>3, <2>4
<1>7. UNCHANGED lotes \/ CatalogoProgress BY DEF Next, Progress, Moves, serverVars, Freeze
<1> QED BY <1>3, <1>6, <1>7

\* Whatever is answered, refused or lost, and in whatever order the answers arrive, a photo
\* leaves a lote only if the user removed it -- unless its photos were saved in parallel or
\* by a gallery that is gone, or a reorder met one of its saves.
THEOREM NoPhotoIsEverLost == Spec => NoPhotoIsLost
<1>1. ASSUME CatalogoInv, PhotosInv, [Next]_vars, NEW i \in DOMAIN lotes
      PROVE  i \in clashed' \/ \A p \in Range(lotes[i].images) \ Range(lotes'[i].images) : <<i, p>> \in binned
  <2>1. CASE Next BY <1>1, <2>1, PhotosStay DEF Kept
  <2>2. CASE UNCHANGED vars BY <2>2 DEF vars, serverVars
  <2> QED BY <1>1, <2>1, <2>2
<1>2. CatalogoInv /\ PhotosInv /\ [Next]_vars =>
        [\A i \in DOMAIN lotes :
           i \in clashed' \/ \A p \in Range(lotes[i].images) \ Range(lotes'[i].images) : <<i, p>> \in binned]_vars
  BY <1>1
<1>3. CatalogoInv /\ SessionInv /\ PanelInv /\ PhotosInv /\ [Next]_vars => PanelInv' /\ PhotosInv'
  BY PanelStep, PhotosStep DEF CatalogoInv
<1> QED
  BY <1>2, <1>3, CatalogoStarts, SessionStarts, PanelStarts, PhotosStart, CatalogoStep, SessionStep, PTL
     DEF Spec, NoPhotoIsLost
==============================================================================
