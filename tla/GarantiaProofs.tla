---------------------------- MODULE GarantiaProofs ----------------------------
(***************************************************************************)
(* Theorems about the guarantees of AfterSale, for every set of buyers,    *)
(* replicas, requests and plans: which payments are taken, what a row      *)
(* tells of its payment, and what the dialog sends with the token of a     *)
(* card.                                                                   *)
(***************************************************************************)
EXTENDS AfterSaleProofs, FiniteSetTheorems

------------------------------------------------------------------------------
(* The payments that are taken.                                             *)

Events     == {"case", "end"} \X (Buyers \cup {NoBuyer})
Openings   == {<<>>} \cup (Buyers \X {"insert", "publish"})
WorkFields == {"op", "pc", "buyer", "seen", "pay", "result", "rest"}

ChargeTypes ==
    /\ Replicas \subseteq Nodes
    /\ feed \in [Replicas -> Seq(Buyers)]
    /\ opening \in [Replicas -> Openings]
    /\ queue \in [Replicas -> Seq(Events)]
    /\ pays \in [Buyers -> Seq(PayStates)]
    /\ DOMAIN task = Tasks
    /\ \A r \in Replicas : task[r] = Idle \/ DOMAIN task[r] = WorkFields

InQueue(r, b)   == \E i \in DOMAIN queue[r] : queue[r][i] = <<"case", b>>
Capturing(r, b) == On(r, "capture", "call") /\ task[r].buyer = b

\* The payments taken from `b`, and the replicas that may still take one.
Charged(b) == {n \in DOMAIN pays[b] : pays[b][n] = "approved"}
Told(b)    == {r \in Replicas : InQueue(r, b) \/ Capturing(r, b)}

\* The case of `b` has not been announced.
Unannounced(b) == cases[b] = NoCase \/ \E r \in Replicas : opening[r] = <<b, "publish">>

\* Only the replica that inserted the case announces it.
OneOpens ==
    \A b \in Buyers, r \in Replicas : opening[r] = <<b, "publish">> =>
        /\ cases[b] # NoCase
        /\ \A q \in Replicas : opening[q] = <<b, "publish">> => q = r

OnceIn(s, e) == \A i, j \in DOMAIN s : s[i] = e /\ s[j] = e => i = j

\* A replica is told of a case once, and forgets it when it starts to capture.
ToldOnce ==
    \A r \in Replicas, b \in Buyers :
        /\ OnceIn(queue[r], <<"case", b>>)
        /\ Capturing(r, b) => ~InQueue(r, b)

Counted(b) ==
    /\ Unannounced(b) => Told(b) = {} /\ Charged(b) = {}
    /\ Cardinality(Charged(b)) + Cardinality(Told(b)) <= Cardinality(Replicas)

ChargeInv == ChargeTypes /\ OneOpens /\ ToldOnce /\ \A b \in Buyers : Counted(b)

LEMMA ReplicasFinite ==
    ASSUME ChargeTypes
    PROVE  IsFiniteSet(Replicas) /\ Cardinality(Replicas) \in Nat
  BY TasksAssumption, FS_Subset, FS_CardinalityType DEF ChargeTypes

LEMMA ToldFinite ==
    ASSUME ChargeTypes, NEW b
    PROVE  /\ IsFiniteSet(Told(b)) /\ Cardinality(Told(b)) \in Nat
           /\ Cardinality(Told(b)) <= Cardinality(Replicas)
<1>1. Told(b) \subseteq Replicas
  BY DEF Told
<1> QED  BY <1>1, ReplicasFinite, FS_Subset, FS_CardinalityType

LEMMA ChargedFinite ==
    ASSUME ChargeTypes, NEW b \in Buyers
    PROVE  IsFiniteSet(Charged(b)) /\ Cardinality(Charged(b)) \in Nat
<1>1. pays[b] \in Seq(PayStates)
  BY DEF ChargeTypes
<1>2. Charged(b) \subseteq 1..Len(pays[b]) /\ Len(pays[b]) \in Int /\ 1 \in Int
  BY <1>1 DEF Charged
<1> QED  BY <1>2, FS_Interval, FS_Subset, FS_CardinalityType

\* What one replica stops being able to take, the buyer may have paid.
LEMMA CountedKept ==
    ASSUME ChargeTypes, UNCHANGED plan, NEW b \in Buyers, Counted(b),
           Unannounced(b)' => Unannounced(b),
           \/ Told(b)' \subseteq Told(b) /\ Charged(b)' \subseteq Charged(b)
           \/ \E r \in Told(b) : \E n : /\ Told(b)' \subseteq Told(b) \ {r}
                                    /\ Charged(b)' \subseteq Charged(b) \cup {n}
    PROVE  Counted(b)'
<1> DEFINE T == Told(b)  C == Charged(b)
<1>0. /\ IsFiniteSet(T) /\ Cardinality(T) \in Nat
      /\ IsFiniteSet(C) /\ Cardinality(C) \in Nat
      /\ Cardinality(Replicas) \in Nat /\ Replicas' = Replicas
  BY ToldFinite, ChargedFinite, ReplicasFinite DEF Replicas
<1>1. CASE T' \subseteq T /\ C' \subseteq C
  <2>1. /\ Cardinality(T') <= Cardinality(T) /\ Cardinality(T') \in Nat
        /\ Cardinality(C') <= Cardinality(C) /\ Cardinality(C') \in Nat
    <3> HIDE DEF T, C
    <3> QED  BY <1>0, <1>1, FS_Subset, FS_CardinalityType
  <2> QED  BY <1>0, <1>1, <2>1 DEF Counted
<1>2. ASSUME NEW r \in T, NEW n, T' \subseteq T \ {r}, C' \subseteq C \cup {n}
      PROVE  Counted(b)'
  <2> HIDE DEF T, C
  <2>1. /\ IsFiniteSet(T \ {r}) /\ Cardinality(T \ {r}) = Cardinality(T) - 1
        /\ IsFiniteSet(C \cup {n}) /\ Cardinality(C \cup {n}) \in {Cardinality(C), Cardinality(C) + 1}
    BY <1>0, FS_RemoveElement, FS_AddElement
  <2>2. Cardinality(T') <= Cardinality(T) - 1 /\ IsFiniteSet(T')
    BY <1>2, <2>1, FS_Subset
  <2>3. Cardinality(C') <= Cardinality(C) + 1 /\ IsFiniteSet(C')
    <3>1. Cardinality(C') <= Cardinality(C \cup {n}) /\ IsFiniteSet(C')
      BY <1>2, <2>1, FS_Subset
    <3>2. Cardinality(C') \in Nat
      BY <3>1, FS_CardinalityType
    <3> QED  BY <1>0, <2>1, <3>1, <3>2
  <2>4. Cardinality(T') \in Nat /\ Cardinality(C') \in Nat
    BY <2>2, <2>3, FS_CardinalityType
  <2>5. ~Unannounced(b)
    BY DEF Counted, T
  <2> QED  BY <1>0, <2>2, <2>3, <2>4, <2>5 DEF Counted, T, C
<1> QED  BY <1>1, <1>2

LEMMA Tails ==
    ASSUME NEW E, NEW s \in Seq(E), s # <<>>
    PROVE  /\ 1 \in DOMAIN s /\ Head(s) = s[1] /\ s[1] \in E /\ Tail(s) \in Seq(E)
           /\ \A i \in DOMAIN Tail(s) : i \in Nat \ {0} /\ i + 1 \in DOMAIN s /\ Tail(s)[i] = s[i + 1]
  OBVIOUS

\* A queue of which events are only taken.
Shrinks(r) == \/ queue'[r] = queue[r] \/ queue'[r] = <<>>
              \/ queue[r] # <<>> /\ queue'[r] = Tail(queue[r])

LEMMA ShrinksKeepsOnce ==
    ASSUME ChargeTypes, NEW r \in Replicas, Shrinks(r), NEW b
    PROVE  /\ queue'[r] \in Seq(Events)
           /\ InQueue(r, b)' => InQueue(r, b)
           /\ OnceIn(queue[r], <<"case", b>>) => OnceIn(queue'[r], <<"case", b>>)
<1>0. queue[r] \in Seq(Events)
  BY DEF ChargeTypes
<1>1. CASE queue'[r] = queue[r]
  BY <1>0, <1>1 DEF InQueue, OnceIn
<1>3. CASE queue'[r] = <<>>
  <2>1. queue'[r] \in Seq(Events) /\ DOMAIN queue'[r] = {}
    BY <1>3
  <2> QED  BY <2>1 DEF InQueue, OnceIn
<1>2. CASE queue[r] # <<>> /\ queue'[r] = Tail(queue[r])
  <2>1. /\ queue'[r] \in Seq(Events)
        /\ \A i \in DOMAIN queue'[r] :
             i \in Nat /\ i + 1 \in DOMAIN queue[r] /\ queue'[r][i] = queue[r][i + 1]
    BY <1>0, <1>2, Tails
  <2>2. InQueue(r, b)' => InQueue(r, b)
    BY <2>1 DEF InQueue
  <2>3. OnceIn(queue[r], <<"case", b>>) => OnceIn(queue'[r], <<"case", b>>)
    <3> SUFFICES ASSUME OnceIn(queue[r], <<"case", b>>),
                        NEW i \in DOMAIN queue'[r], NEW j \in DOMAIN queue'[r],
                        queue'[r][i] = <<"case", b>>, queue'[r][j] = <<"case", b>>
                 PROVE  i = j
      BY DEF OnceIn
    <3>1. i + 1 = j + 1
      BY <2>1 DEF OnceIn
    <3> QED  BY <2>1, <3>1
  <2> QED  BY <2>1, <2>2, <2>3
<1> QED  BY <1>1, <1>2, <1>3 DEF Shrinks

\* A task that does not start to capture.
Calm(r) == \/ task'[r] = task[r] \/ task'[r] = Idle
           \/ DOMAIN task'[r] = WorkFields /\ (task'[r].op # "capture" \/ task'[r].pc # "call")

LEMMA CalmCapturesNothing ==
    ASSUME NEW r, Calm(r), NEW b, Capturing(r, b)' PROVE Capturing(r, b) /\ task'[r] = task[r]
  BY DEF Calm, Capturing, On, Idle

\* Types, and what follows from them, when no case is opened.
LEMMA HoldKept ==
    ASSUME ChargeInv, UNCHANGED <<plan, feed, opening, cases>>,
           queue' \in [Replicas -> Seq(Events)], pays' \in [Buyers -> Seq(PayStates)],
           DOMAIN task' = Tasks, \A r \in Replicas : task'[r] = Idle \/ DOMAIN task'[r] = WorkFields,
           ToldOnce',
           \A b \in Buyers :
             \/ Told(b)' \subseteq Told(b) /\ Charged(b)' \subseteq Charged(b)
             \/ \E r \in Told(b) : \E n : /\ Told(b)' \subseteq Told(b) \ {r}
                                      /\ Charged(b)' \subseteq Charged(b) \cup {n}
    PROVE  ChargeInv'
<1>1. ChargeTypes'
  BY DEF ChargeInv, ChargeTypes, Replicas, Tasks, Openings
<1>2. OneOpens' /\ \A b \in Buyers : Unannounced(b)' => Unannounced(b)
  BY DEF ChargeInv, OneOpens, Unannounced, Replicas
<1>3. \A b \in Buyers : Counted(b)'
  BY <1>2, CountedKept DEF ChargeInv
<1> QED  BY <1>1, <1>2, <1>3 DEF ChargeInv

\* Nobody is told of a case, and nothing is taken.
LEMMA QuietKept ==
    ASSUME ChargeInv, UNCHANGED <<plan, feed, opening, cases>>,
           DOMAIN queue' = Replicas, \A r \in Replicas : Shrinks(r),
           queue' = [r \in Replicas |-> queue'[r]],
           DOMAIN task' = Tasks, \A r \in Replicas : Calm(r),
           pays' \in [Buyers -> Seq(PayStates)], \A b \in Buyers : Charged(b)' \subseteq Charged(b)
    PROVE  ChargeInv'
<1>1. queue' \in [Replicas -> Seq(Events)]
  BY ShrinksKeepsOnce DEF ChargeInv
<1>2. \A r \in Replicas : task'[r] = Idle \/ DOMAIN task'[r] = WorkFields
  BY DEF ChargeInv, ChargeTypes, Calm
<1>3. Replicas' = Replicas
  BY DEF Replicas
<1>4. ToldOnce'
  BY <1>3, ShrinksKeepsOnce, CalmCapturesNothing DEF ChargeInv, ToldOnce
<1>5. \A b \in Buyers : Told(b)' \subseteq Told(b)
  BY <1>3, ShrinksKeepsOnce, CalmCapturesNothing DEF ChargeInv, Told
<1> QED  BY <1>1, <1>2, <1>4, <1>5, HoldKept

LEMMA Appends ==
    ASSUME NEW E, NEW s \in Seq(E), NEW x \in E, NEW n \in DOMAIN Append(s, x), n # Len(s) + 1
    PROVE  n \in DOMAIN s /\ Append(s, x)[n] = s[n]
  OBVIOUS

LEMMA SetsTyped ==
    ASSUME NEW E, NEW s \in Seq(E), NEW x \in E, NEW n
    PROVE  [s EXCEPT ![n] = x] \in Seq(E)
<1> DEFINE t == [s EXCEPT ![n] = x]
<1>1. s \in [1..Len(s) -> E] /\ Len(s) \in Nat
  OBVIOUS
<1>2. t \in [1..Len(s) -> E]
  BY <1>1
<1> HIDE DEF t
<1> QED  BY <1>1, <1>2 DEF t

\* A payment is made, or moves without being taken.
LEMMA MadePayment ==
    ASSUME ChargeTypes, NEW b, NEW result \in PayStates \ {"approved"},
           pays' = [pays EXCEPT ![b] = Append(pays[b], result)]
    PROVE  pays' \in [Buyers -> Seq(PayStates)] /\ \A c \in Buyers : Charged(c)' \subseteq Charged(c)
<1>1. pays \in [Buyers -> Seq(PayStates)]
  BY DEF ChargeTypes
<1>2. ASSUME NEW c \in Buyers
      PROVE  pays'[c] \in Seq(PayStates) /\ Charged(c)' \subseteq Charged(c)
  <2>1. CASE c # b
    BY <1>1, <2>1 DEF Charged
  <2>2. CASE c = b
    <3>1. pays[c] \in Seq(PayStates) /\ pays'[c] = Append(pays[c], result)
      BY <1>1, <2>2
    <3>2. pays'[c] \in Seq(PayStates) /\ pays'[c][Len(pays[c]) + 1] = result
      BY <3>1
    <3>3. \A n \in DOMAIN pays'[c] : n # Len(pays[c]) + 1 => n \in DOMAIN pays[c] /\ pays'[c][n] = pays[c][n]
      BY <3>1, Appends
    <3> QED  BY <3>2, <3>3 DEF Charged
  <2> QED  BY <2>1, <2>2
<1> QED  BY <1>1, <1>2

LEMMA MovedPayment ==
    ASSUME ChargeTypes, NEW b, NEW n, NEW to \in PayStates, pays' = [pays EXCEPT ![b][n] = to]
    PROVE  /\ pays' \in [Buyers -> Seq(PayStates)]
           /\ \A c \in Buyers : Charged(c)' \subseteq Charged(c) \cup {n}
           /\ \A c \in Buyers : c # b \/ to # "approved" => Charged(c)' \subseteq Charged(c)
<1>1. pays \in [Buyers -> Seq(PayStates)]
  BY DEF ChargeTypes
<1>2. ASSUME NEW c \in Buyers
      PROVE  /\ pays'[c] \in Seq(PayStates) /\ DOMAIN pays'[c] = DOMAIN pays[c]
             /\ \A m \in DOMAIN pays[c] : pays'[c][m] = pays[c][m] \/ (c = b /\ m = n /\ pays'[c][m] = to)
  <2>1. pays'[c] = IF c = b THEN [pays[c] EXCEPT ![n] = to] ELSE pays[c]
    BY <1>1
  <2>2. pays[c] \in Seq(PayStates)
    BY <1>1
  <2>3. CASE c = b
    <3>1. pays'[c] = [pays[c] EXCEPT ![n] = to]
      BY <2>1, <2>3
    <3>2. pays'[c] \in Seq(PayStates)
      BY <2>2, <3>1, SetsTyped
    <3> QED  BY <2>2, <2>3, <3>1, <3>2
  <2> QED  BY <2>1, <2>2, <2>3
<1> QED  BY <1>1, <1>2 DEF Charged

\* Steps that leave the queues alone.
LEMMA StillKept ==
    ASSUME ChargeInv, UNCHANGED <<plan, feed, opening, cases, queue>>,
           DOMAIN task' = Tasks, \A r \in Replicas : Calm(r),
           pays' \in [Buyers -> Seq(PayStates)], \A b \in Buyers : Charged(b)' \subseteq Charged(b)
    PROVE  ChargeInv'
<1>1. /\ DOMAIN queue' = Replicas /\ queue' = [r \in Replicas |-> queue'[r]]
      /\ \A r \in Replicas : Shrinks(r)
  BY DEF ChargeInv, ChargeTypes, Shrinks
<1> QED  BY <1>1, QuietKept

LEMMA SamePayments ==
    ASSUME ChargeInv, UNCHANGED pays
    PROVE  pays' \in [Buyers -> Seq(PayStates)] /\ \A b \in Buyers : Charged(b)' \subseteq Charged(b)
  BY DEF ChargeInv, ChargeTypes, Charged

\* A task that is not a consumer goes on.
LEMMA ElsewhereCalm ==
    ASSUME ChargeInv, NEW t \in Requests \cup {Hook, Clock}, \E w : Begin(t, w)
    PROVE  DOMAIN task' = Tasks /\ \A r \in Replicas : Calm(r)
<1>1. \A r \in Replicas : r # t
  BY TasksAssumption DEF ChargeInv, ChargeTypes
<1> QED  BY <1>1 DEF Begin, Calm, ChargeInv, ChargeTypes, Tasks

LEMMA ReplicaCalm ==
    ASSUME ChargeInv, NEW r \in Replicas, NEW w, Begin(r, w),
           w = Idle \/ (DOMAIN w = WorkFields /\ (w.op # "capture" \/ w.pc # "call"))
    PROVE  DOMAIN task' = Tasks /\ \A q \in Replicas : Calm(q)
  BY DEF Begin, Calm, ChargeInv, ChargeTypes, Tasks

LEMMA SameTasks ==
    ASSUME ChargeInv, UNCHANGED task PROVE DOMAIN task' = Tasks /\ \A r \in Replicas : Calm(r)
  BY DEF ChargeInv, ChargeTypes, Calm

\* Requests.
LEMMA RequestsCharge ==
    ASSUME ChargeInv, UNCHANGED <<plan, feed, opening, cases>>, NEW t \in Requests,
           \/ \E b : AskHold(t, b)
           \/ FlushHold(t) \/ CallHold(t) \/ SaveHold(t) \/ CallHoldFails(t)
    PROVE  ChargeInv'
<1>1. UNCHANGED queue
  BY DEF AskHold, FlushHold, CallHold, SaveHold, CallHoldFails
<1>2. \E w : Begin(t, w)
  BY DEF AskHold, FlushHold, CallHold, SaveHold, CallHoldFails
<1>3. DOMAIN task' = Tasks /\ \A r \in Replicas : Calm(r)
  BY <1>2, ElsewhereCalm
<1>4. \/ UNCHANGED pays
      \/ \E b : \E result \in {"authorized", "rejected", "pending"} : pays' = [pays EXCEPT ![b] = Append(pays[b], result)]
  BY DEF AskHold, FlushHold, CallHold, SaveHold, CallHoldFails
<1>5. pays' \in [Buyers -> Seq(PayStates)] /\ \A b \in Buyers : Charged(b)' \subseteq Charged(b)
  BY <1>4, SamePayments, MadePayment DEF ChargeInv, PayStates
<1> QED  BY <1>1, <1>3, <1>5, StillKept

\* Mercado Pago, its notifications, and the scheduler.
LEMMA MovesCharge ==
    ASSUME ChargeInv, UNCHANGED <<plan, feed, opening, cases>>,
           \/ \E b \in Buyers : Age(b) \/ \E n \in DOMAIN pays[b] : Decide(b, n) \/ Lapse(b, n) \/ Notify(b, n)
           \/ AskStatus \/ SaveStatus \/ ListOverdue \/ Expire
    PROVE  ChargeInv'
<1>1. CASE UNCHANGED <<task, queue>> /\ \E b, n : \E to \in {"authorized", "rejected", "cancelled"} : pays' = [pays EXCEPT ![b][n] = to]
  <2>1. pays' \in [Buyers -> Seq(PayStates)] /\ \A b \in Buyers : Charged(b)' \subseteq Charged(b)
    BY <1>1, MovedPayment DEF ChargeInv, PayStates
  <2> QED  BY <1>1, <2>1, SameTasks, StillKept
<1>2. CASE UNCHANGED <<pays, queue>> /\ (UNCHANGED task \/ \E t \in {Hook, Clock} : \E w : Begin(t, w))
  BY <1>2, SameTasks, ElsewhereCalm, SamePayments, StillKept
<1>3. ASSUME NEW b \in Buyers, Age(b) \/ \E n \in DOMAIN pays[b] : Decide(b, n) \/ Lapse(b, n) \/ Notify(b, n)
      PROVE  ChargeInv'
  BY <1>1, <1>2, <1>3 DEF Age, Decide, Lapse, Notify
<1>4. AskStatus \/ SaveStatus \/ ListOverdue \/ Expire => ChargeInv'
  BY <1>2 DEF AskStatus, SaveStatus, ListOverdue, Expire
<1> QED  BY <1>3, <1>4

\* Events that leave a queue unhandled, or with a task that captures nothing.
LEMMA TakesShrinks ==
    ASSUME ChargeInv, UNCHANGED plan, NEW r \in Replicas, queue[r] # <<>>,
           queue' = [queue EXCEPT ![r] = Tail(@)]
    PROVE  /\ DOMAIN queue' = Replicas /\ queue' = [q \in Replicas |-> queue'[q]]
           /\ \A q \in Replicas : Shrinks(q)
  BY DEF Shrinks, ChargeInv, ChargeTypes

LEMMA DropsCharge ==
    ASSUME ChargeInv, UNCHANGED <<plan, feed, opening, cases>>,
           (\E r \in Replicas : TakeEnd(r) \/ LoseEvent(r)) \/ \E t \in Tasks : Die(t)
    PROVE  ChargeInv'
<1>0. UNCHANGED pays
  BY DEF TakeEnd, LoseEvent, Die
<1>1. ASSUME NEW r \in Replicas, TakeEnd(r) PROVE ChargeInv'
  <2>1. queue[r] # <<>> /\ queue' = [queue EXCEPT ![r] = Tail(@)]
    BY <1>1 DEF TakeEnd, Takes
  <2>2. task' = task \/ \E x : Begin(r, [Work("release", "call", NoBuyer, NoRow) EXCEPT !.rest = x])
    BY <1>1 DEF TakeEnd, Begin
  <2>3. ASSUME NEW x
        PROVE  LET w == [Work("release", "call", NoBuyer, NoRow) EXCEPT !.rest = x]
               IN  DOMAIN w = WorkFields /\ w.op = "release"
    BY DEF Work, WorkFields
  <2>4. DOMAIN task' = Tasks /\ \A q \in Replicas : Calm(q)
    BY <2>2, <2>3, SameTasks, ReplicaCalm
  <2> QED  BY <1>0, <2>1, <2>4, TakesShrinks, SamePayments, QuietKept
<1>2. ASSUME NEW r \in Replicas, LoseEvent(r) PROVE ChargeInv'
  <2>1. queue[r] # <<>> /\ queue' = [queue EXCEPT ![r] = Tail(@)] /\ UNCHANGED task
    BY <1>2 DEF LoseEvent
  <2> QED  BY <1>0, <2>1, TakesShrinks, SameTasks, SamePayments, QuietKept
<1>3. ASSUME NEW t \in Tasks, Die(t) PROVE ChargeInv'
  <2>1. queue' = [r \in Replicas |-> IF r = t THEN <<>> ELSE queue[r]]
    BY <1>3 DEF Die
  <2>2. DOMAIN queue' = Replicas /\ queue' = [q \in Replicas |-> queue'[q]] /\ \A q \in Replicas : Shrinks(q)
    BY <2>1 DEF Shrinks
  <2>3. CASE t \in Requests \cup {Hook, Clock}
    <3>1. \E w : Begin(t, w)
      BY <1>3 DEF Die
    <3> QED  BY <1>0, <2>2, <2>3, <3>1, ElsewhereCalm, SamePayments, QuietKept
  <2>4. CASE t \in Replicas \ Requests
    <3>1. Begin(t, Idle)
      BY <1>3, <2>4 DEF Die
    <3> QED  BY <1>0, <2>2, <2>4, <3>1, ReplicaCalm, SamePayments, QuietKept
  <2> QED  BY <2>3, <2>4 DEF Tasks
<1> QED  BY <1>1, <1>2, <1>3

\* What a consumer does with a guarantee, but for the capture itself.
LEMMA SettlesCharge ==
    ASSUME ChargeInv, UNCHANGED <<plan, feed, opening, cases>>, NEW r \in Replicas,
           CallCancel(r) \/ SaveCapture(r) \/ SaveRelease(r)
    PROVE  ChargeInv'
<1>0. UNCHANGED queue
  BY DEF CallCancel, SaveCapture, SaveRelease
<1>1. task[r] # Idle /\ DOMAIN task[r] = WorkFields
  BY DEF CallCancel, SaveCapture, SaveRelease, On, Idle, ChargeInv, ChargeTypes
<1>2. \/ Begin(r, Idle)
      \/ task[r].op = "release" /\ \E x : Begin(r, [task[r] EXCEPT !.pc = "call", !.buyer = x])
      \/ \E b, n : Settled(r, b, n)
  BY DEF CallCancel, Refused, SaveCapture, SaveRelease, On
<1>3. ASSUME NEW x
      PROVE  LET w == [task[r] EXCEPT !.pc = "call", !.buyer = x]
             IN  DOMAIN w = WorkFields /\ w.op = task[r].op
  BY <1>1 DEF WorkFields
<1>4. ASSUME NEW b, NEW n
      PROVE  LET w == [task[r] EXCEPT !.pc = "save", !.buyer = b,
                                     !.seen = [status |-> "active", pay |-> n], !.rest = @ \ {<<b, n>>}]
             IN  DOMAIN w = WorkFields /\ w.pc = "save"
  BY <1>1 DEF WorkFields
<1>5. DOMAIN task' = Tasks /\ \A q \in Replicas : Calm(q)
  <2>1. ASSUME NEW b, NEW n, Settled(r, b, n) PROVE DOMAIN task' = Tasks /\ \A q \in Replicas : Calm(q)
    BY <1>4, <2>1, ReplicaCalm DEF Settled
  <2> QED  BY <1>2, <1>3, <2>1, ReplicaCalm
<1>6. pays' \in [Buyers -> Seq(PayStates)] /\ \A b \in Buyers : Charged(b)' \subseteq Charged(b)
  <2>1. UNCHANGED pays \/ \E b, n : pays' = [pays EXCEPT ![b][n] = "cancelled"]
    BY DEF CallCancel, Cancels, Settles, Refused, SaveCapture, SaveRelease
  <2> QED  BY <2>1, SamePayments, MovedPayment DEF ChargeInv, PayStates
<1> QED  BY <1>0, <1>5, <1>6, StillKept

\* A case is taken from the queue to capture, and a capture takes one payment.
LEMMA TakeCaseCharge ==
    ASSUME ChargeInv, UNCHANGED <<plan, feed, opening, cases>>, NEW r \in Replicas, TakeCase(r)
    PROVE  ChargeInv'
<1>0. PICK b : b = Head(queue[r])[2]
  OBVIOUS
<1>1. /\ queue[r] # <<>> /\ queue[r] \in Seq(Events) /\ task[r] = Idle
      /\ queue' = [queue EXCEPT ![r] = Tail(@)] /\ UNCHANGED pays
  BY DEF TakeCase, Takes, ChargeInv, ChargeTypes
<1>2. CASE task' = task
  BY <1>1, <1>2, TakesShrinks, SameTasks, SamePayments, QuietKept
<1>3. CASE b \in Active /\ Begin(r, Work("capture", "call", b, row[b]))
  <2>1. Replicas' = Replicas /\ \A q \in Replicas : Shrinks(q)
    BY <1>1, TakesShrinks DEF Replicas
  <2>2. queue' \in [Replicas -> Seq(Events)]
    BY <1>1, <2>1, ShrinksKeepsOnce DEF ChargeInv, ChargeTypes
  <2>3. b \in Buyers /\ 1 \in DOMAIN queue[r] /\ queue[r][1] = <<"case", b>>
    <3>1. 1 \in DOMAIN queue[r] /\ Head(queue[r]) = queue[r][1] /\ queue[r][1] \in Events
      BY <1>1, Tails
    <3>2. queue[r][1][1] = "case" /\ queue[r][1][2] = b
      BY <1>0, <3>1 DEF TakeCase, Takes
    <3>3. \A e \in Events : e = <<e[1], e[2]>>
      BY DEF Events
    <3>4. b \in Buyers
      BY <1>3 DEF Active
    <3> QED  BY <3>1, <3>2, <3>3, <3>4
  <2>4. /\ DOMAIN task' = Tasks /\ DOMAIN task'[r] = WorkFields
        /\ \A q \in Replicas \ {r} : task'[q] = task[q]
        /\ \A c : Capturing(r, c)' => c = b
        /\ \A c : ~Capturing(r, c)
    BY <1>1, <1>3 DEF Begin, ChargeInv, ChargeTypes, Tasks, Capturing, On, Work, WorkFields, Idle
  <2>5. ~InQueue(r, b)'
    <3>1. \A i \in DOMAIN queue'[r] : i \in Nat \ {0} /\ i + 1 \in DOMAIN queue[r] /\ queue'[r][i] = queue[r][i + 1]
      BY <1>1, Tails DEF ChargeInv, ChargeTypes
    <3>2. OnceIn(queue[r], <<"case", b>>)
      BY <2>3 DEF ChargeInv, ToldOnce
    <3>3. \A i \in DOMAIN queue[r] : queue[r][i] = <<"case", b>> => i = 1
      BY <2>3, <3>2 DEF OnceIn
    <3>4. \A i \in DOMAIN queue'[r] : queue'[r][i] # <<"case", b>>
      BY <3>1, <3>3
    <3> QED  BY <3>4 DEF InQueue
  <2>6. \A q \in Replicas \ {r} : \A c : Capturing(q, c)' => Capturing(q, c)
    BY <2>4 DEF Capturing, On
  <2>7. ToldOnce'
    <3>1. ASSUME NEW q \in Replicas, NEW c \in Buyers
          PROVE  OnceIn(queue'[q], <<"case", c>>) /\ (InQueue(q, c)' => InQueue(q, c))
      BY <2>1, ShrinksKeepsOnce DEF ToldOnce, ChargeInv
    <3>2. ASSUME NEW q \in Replicas, NEW c \in Buyers, Capturing(q, c)' PROVE ~InQueue(q, c)'
      <4>1. CASE q = r
        BY <2>4, <2>5, <3>2, <4>1
      <4>2. CASE q # r
        BY <2>6, <3>1, <3>2, <4>2 DEF ToldOnce, ChargeInv
      <4> QED  BY <4>1, <4>2
    <3> QED  BY <2>1, <3>1, <3>2 DEF ToldOnce
  <2>8. \A c \in Buyers : Told(c)' \subseteq Told(c)
    <3>1. InQueue(r, b)
      BY <2>3 DEF InQueue
    <3> QED  BY <2>1, <2>4, <2>6, <3>1, ShrinksKeepsOnce DEF Told, ChargeInv
  <2>9. \A q \in Replicas : task'[q] = Idle \/ DOMAIN task'[q] = WorkFields
    BY <2>4 DEF ChargeInv, ChargeTypes
  <2> QED  BY <1>1, <2>2, <2>4, <2>7, <2>8, <2>9, SamePayments, HoldKept
<1> QED  BY <1>0, <1>2, <1>3 DEF TakeCase, Begin

LEMMA CaptureCharge ==
    ASSUME ChargeInv, UNCHANGED <<plan, feed, opening, cases, queue>>, NEW r \in Replicas,
           On(r, "capture", "call"), Captures(task[r].buyer, task[r].seen.pay),
           DOMAIN task' = Tasks, \A q \in Replicas : Calm(q), \A c : ~Capturing(r, c)'
    PROVE  ChargeInv'
<1>1. PICK b, n : Capturing(r, b) /\ pays' = [pays EXCEPT ![b][n] = "approved"]
  BY DEF Capturing, Captures, Settles
<1>2. /\ pays' \in [Buyers -> Seq(PayStates)]
      /\ \A c \in Buyers : Charged(c)' \subseteq Charged(c) \cup {n}
      /\ \A c \in Buyers : c # b => Charged(c)' \subseteq Charged(c)
  BY <1>1, MovedPayment DEF ChargeInv, PayStates
<1>3. Replicas' = Replicas /\ queue' \in [Replicas -> Seq(Events)]
  BY DEF Replicas, ChargeInv, ChargeTypes
<1>4. \A q \in Replicas : \A c :
        /\ InQueue(q, c)' <=> InQueue(q, c)
        /\ Capturing(q, c)' => Capturing(q, c)
  BY CalmCapturesNothing DEF InQueue
<1>5. ToldOnce'
  BY <1>3, <1>4 DEF ChargeInv, ToldOnce
<1>6. \A c \in Buyers : Told(c)' \subseteq Told(c)
  BY <1>3, <1>4 DEF Told
<1>7. b \in Buyers => r \in Told(b) /\ r \notin Told(b)'
  BY <1>1, <1>3, <1>4 DEF Told, ChargeInv, ToldOnce
<1>8. \A q \in Replicas : task'[q] = Idle \/ DOMAIN task'[q] = WorkFields
  BY DEF ChargeInv, ChargeTypes, Calm
<1>9. ASSUME NEW c \in Buyers
      PROVE  \/ Told(c)' \subseteq Told(c) /\ Charged(c)' \subseteq Charged(c)
             \/ \E q \in Told(c) : \E m : /\ Told(c)' \subseteq Told(c) \ {q}
                                          /\ Charged(c)' \subseteq Charged(c) \cup {m}
  <2>1. CASE c = b
    <3>1. r \in Told(c) /\ Told(c)' \subseteq Told(c) \ {r} /\ Charged(c)' \subseteq Charged(c) \cup {n}
      BY <1>2, <1>6, <1>7, <2>1
    <3> QED  BY <3>1
  <2>2. CASE c # b
    BY <1>2, <1>6, <2>2
  <2> QED  BY <2>1, <2>2
<1> QED  BY <1>2, <1>3, <1>5, <1>8, <1>9, HoldKept

LEMMA ConsumerCharge ==
    ASSUME ChargeInv, UNCHANGED <<plan, feed, opening, cases>>, NEW r \in Replicas,
           CallCapture(r) \/ SettleFails(r)
    PROVE  ChargeInv'
<1>0. UNCHANGED queue
  BY DEF CallCapture, SettleFails
<1>1. task[r] # Idle /\ DOMAIN task[r] = WorkFields
  BY DEF CallCapture, SettleFails, On, Idle, ChargeInv, ChargeTypes
<1>2. ASSUME NEW b, NEW n, Settled(r, b, n)
      PROVE  /\ DOMAIN task' = Tasks /\ \A q \in Replicas : Calm(q)
             /\ \A c : ~Capturing(r, c)'
  <2> DEFINE w == [task[r] EXCEPT !.pc = "save", !.buyer = b,
                                 !.seen = [status |-> "active", pay |-> n], !.rest = @ \ {<<b, n>>}]
  <2>1. DOMAIN w = WorkFields /\ w.pc = "save"
    BY <1>1 DEF WorkFields
  <2>2. Begin(r, w)
    BY <1>2 DEF Settled
  <2> HIDE DEF w
  <2>3. task'[r] = w
    BY <2>2 DEF Begin, ChargeInv, ChargeTypes, Tasks
  <2> QED  BY <2>1, <2>2, <2>3, ReplicaCalm DEF Capturing, On
<1>3. ASSUME Begin(r, Idle)
      PROVE  /\ DOMAIN task' = Tasks /\ \A q \in Replicas : Calm(q)
             /\ \A c : ~Capturing(r, c)'
  <2>1. task'[r] = Idle
    BY <1>3 DEF Begin, ChargeInv, ChargeTypes, Tasks
  <2> QED  BY <1>3, <2>1, ReplicaCalm DEF Capturing, On, Idle
<1>4. \/ Begin(r, Idle)
      \/ On(r, "capture", "call") /\ Captures(task[r].buyer, task[r].seen.pay) /\ \E b, n : Settled(r, b, n)
  BY DEF CallCapture, Refused, SettleFails
<1>5. DOMAIN task' = Tasks /\ (\A q \in Replicas : Calm(q)) /\ \A c : ~Capturing(r, c)'
  BY <1>2, <1>3, <1>4
<1>6. CASE On(r, "capture", "call") /\ Captures(task[r].buyer, task[r].seen.pay)
  BY <1>0, <1>5, <1>6, CaptureCharge
<1>7. CASE UNCHANGED pays \/ \E b, n : pays' = [pays EXCEPT ![b][n] = "cancelled"]
  <2>1. pays' \in [Buyers -> Seq(PayStates)] /\ \A b \in Buyers : Charged(b)' \subseteq Charged(b)
    BY <1>7, SamePayments, MovedPayment DEF ChargeInv, PayStates
  <2> QED  BY <1>0, <1>5, <2>1, StillKept
<1> QED  BY <1>6, <1>7 DEF CallCapture, Refused, SettleFails, Cancels, Settles

------------------------------------------------------------------------------
(* Announcements, and the sale.                                             *)

LEMMA AppendOnce ==
    ASSUME NEW s \in Seq(Events), NEW x \in Events, NEW t, t = Append(s, x), NEW e
    PROVE  /\ t \in Seq(Events)
           /\ e # x /\ (\E i \in DOMAIN t : t[i] = e) => \E i \in DOMAIN s : s[i] = e
           /\ OnceIn(s, e) /\ (e # x \/ \A i \in DOMAIN s : s[i] # e) => OnceIn(t, e)
<1>1. t \in Seq(Events) /\ t[Len(s) + 1] = x
  OBVIOUS
<1>2. \A i \in DOMAIN t : i # Len(s) + 1 => i \in DOMAIN s /\ t[i] = s[i]
  BY Appends
<1>3. OnceIn(s, e) /\ (e # x \/ \A i \in DOMAIN s : s[i] # e) => OnceIn(t, e)
  BY <1>1, <1>2 DEF OnceIn
<1> QED  BY <1>1, <1>2, <1>3

LEMMA EndCharge ==
    ASSUME ChargeInv, UNCHANGED <<plan, cases>>, NEW to, EndRemate(to)
    PROVE  ChargeInv'
<1> DEFINE x == <<"end", NoBuyer>>
<1>1. /\ queue' = [q \in Replicas |-> Append(queue[q], x)] /\ x \in Events
      /\ queue \in [Replicas -> Seq(Events)] /\ UNCHANGED <<feed, opening, pays, task>>
      /\ Replicas' = Replicas
  BY DEF EndRemate, ChargeInv, ChargeTypes, Events, Replicas
<1>2. ASSUME NEW q \in Replicas, NEW b \in Buyers
      PROVE  /\ queue'[q] \in Seq(Events) /\ (InQueue(q, b)' => InQueue(q, b))
             /\ OnceIn(queue[q], <<"case", b>>) => OnceIn(queue'[q], <<"case", b>>)
             /\ Capturing(q, b)' <=> Capturing(q, b)
  <2>1. /\ queue'[q] = Append(queue[q], x) /\ <<"case", b>> # x
        /\ queue[q] \in Seq(Events) /\ x \in Events
    BY <1>1
  <2>2. Capturing(q, b)' <=> Capturing(q, b)
    BY <1>1 DEF Capturing, On
  <2>3. /\ queue'[q] \in Seq(Events)
        /\ (\E i \in DOMAIN queue'[q] : queue'[q][i] = <<"case", b>>)
             => \E i \in DOMAIN queue[q] : queue[q][i] = <<"case", b>>
        /\ OnceIn(queue[q], <<"case", b>>) => OnceIn(queue'[q], <<"case", b>>)
    <3> DEFINE s == queue[q]  t == queue'[q]  e == <<"case", b>>
    <3>1. s \in Seq(Events) /\ x \in Events /\ t = Append(s, x) /\ e # x
      BY <2>1
    <3> HIDE DEF x, s, t, e
    <3>2. /\ t \in Seq(Events)
          /\ (\E i \in DOMAIN t : t[i] = e) => \E i \in DOMAIN s : s[i] = e
          /\ OnceIn(s, e) => OnceIn(t, e)
      BY <3>1, AppendOnce DEF OnceIn
    <3> QED  BY <3>2 DEF s, t, e
  <2> QED  BY <2>2, <2>3 DEF InQueue
<1>3. queue' \in [Replicas -> Seq(Events)]
  BY <1>1
<1>4. ToldOnce'
  BY <1>1, <1>2 DEF ToldOnce, ChargeInv
<1>5. \A b \in Buyers : Told(b)' \subseteq Told(b)
  BY <1>1, <1>2 DEF Told
<1>6. DOMAIN task' = Tasks /\ \A q \in Replicas : task'[q] = Idle \/ DOMAIN task'[q] = WorkFields
  BY <1>1 DEF ChargeInv, ChargeTypes
<1>7. pays' \in [Buyers -> Seq(PayStates)] /\ \A b \in Buyers : Charged(b)' \subseteq Charged(b)
  BY <1>1, SamePayments
<1> QED  BY <1>1, <1>3, <1>4, <1>5, <1>6, <1>7, HoldKept

\* Every replica is told of the case at once, and nobody was before.
LEMMA AnnounceCharge ==
    ASSUME ChargeInv, UNCHANGED <<plan, cases>>, NEW r \in Replicas, Announce(r)
    PROVE  ChargeInv'
<1>1. PICK b \in Buyers : opening[r] = <<b, "publish">>
  <2>1. opening[r] \in Openings /\ opening[r] # <<>> /\ opening[r][2] = "publish"
    BY DEF Announce, Published, ChargeInv, ChargeTypes
  <2> QED  BY <2>1 DEF Openings
<1> DEFINE x == <<"case", b>>
<1>2. /\ queue' = [q \in Replicas |-> Append(queue[q], x)] /\ x \in Events
      /\ queue \in [Replicas -> Seq(Events)] /\ opening \in [Replicas -> Openings]
      /\ opening' = [opening EXCEPT ![r] = <<>>] /\ UNCHANGED <<feed, pays, task>>
      /\ Replicas' = Replicas /\ cases[b] # NoCase
  <2>1. opening[r][1] = b
    BY <1>1
  <2>2. x \in Events
    BY DEF Events
  <2>3. queue' = [q \in Replicas |-> Append(queue[q], <<"case", opening[r][1]>>)]
    BY DEF Announce
  <2>4. cases[b] # NoCase
    BY <1>1 DEF ChargeInv, OneOpens
  <2>5. /\ queue \in [Replicas -> Seq(Events)] /\ opening \in [Replicas -> Openings]
        /\ opening' = [opening EXCEPT ![r] = <<>>] /\ UNCHANGED <<feed, pays, task>>
        /\ Replicas' = Replicas
    BY DEF Announce, Published, ChargeInv, ChargeTypes, Replicas
  <2> QED  BY <2>1, <2>2, <2>3, <2>4, <2>5
<1>3. /\ opening' \in [Replicas -> Openings]
      /\ \A q \in Replicas : opening'[q] = opening[q] \/ opening'[q] = <<>>
      /\ opening'[r] = <<>>
  BY <1>2 DEF Openings
<1>4. \A c : <<c, "publish">> # <<>>
  OBVIOUS
<1>5. ASSUME NEW c \in Buyers PROVE Unannounced(c)' => Unannounced(c) /\ c # b
  <2>1. cases'[c] = cases[c]
    OBVIOUS
  <2>2. \A q \in Replicas : opening'[q] = <<c, "publish">> => opening[q] = <<c, "publish">> /\ q # r
    BY <1>3, <1>4
  <2>3. Unannounced(c)' => Unannounced(c)
    BY <1>2, <2>1, <2>2 DEF Unannounced
  <2>4. c = b => ~Unannounced(c)'
    BY <1>1, <1>2, <2>1, <2>2 DEF Unannounced, ChargeInv, OneOpens
  <2> QED  BY <2>3, <2>4
<1>6. Told(b) = {} /\ Charged(b) = {}
  BY <1>1 DEF ChargeInv, Counted, Unannounced
<1>7. ASSUME NEW q \in Replicas, NEW c \in Buyers
      PROVE  /\ queue'[q] \in Seq(Events) /\ (c # b /\ InQueue(q, c)' => InQueue(q, c))
             /\ OnceIn(queue'[q], <<"case", c>>)
             /\ Capturing(q, c)' <=> Capturing(q, c)
             /\ Capturing(q, c) => c # b
  <2>1. /\ queue'[q] = Append(queue[q], x) /\ (c # b => <<"case", c>> # x)
        /\ queue[q] \in Seq(Events) /\ x \in Events
    BY <1>2
  <2>2. OnceIn(queue[q], <<"case", c>>)
    BY DEF ChargeInv, ToldOnce
  <2>3. c = b => ~InQueue(q, c) /\ ~Capturing(q, c)
    BY <1>6 DEF Told
  <2>4. Capturing(q, c)' <=> Capturing(q, c)
    BY <1>2 DEF Capturing, On
  <2>5. \/ <<"case", c>> # x
        \/ c = b /\ \A i \in DOMAIN queue[q] : queue[q][i] # <<"case", c>>
    BY <2>1, <2>3 DEF InQueue
  <2>6. /\ queue'[q] \in Seq(Events) /\ OnceIn(queue'[q], <<"case", c>>)
        /\ <<"case", c>> # x /\ (\E i \in DOMAIN queue'[q] : queue'[q][i] = <<"case", c>>)
             => \E i \in DOMAIN queue[q] : queue[q][i] = <<"case", c>>
    <3> DEFINE s == queue[q]  t == queue'[q]  e == <<"case", c>>
    <3>1. s \in Seq(Events) /\ x \in Events /\ t = Append(s, x)
      BY <2>1
    <3>2. OnceIn(s, e) /\ (e # x \/ \A i \in DOMAIN s : s[i] # e)
      BY <2>2, <2>5
    <3> HIDE DEF x, s, t, e
    <3>3. /\ t \in Seq(Events) /\ OnceIn(t, e)
          /\ e # x /\ (\E i \in DOMAIN t : t[i] = e) => \E i \in DOMAIN s : s[i] = e
      BY <3>1, <3>2, AppendOnce DEF OnceIn
    <3> QED  BY <3>3 DEF s, t, e
  <2> QED  BY <2>1, <2>3, <2>4, <2>6 DEF InQueue
<1>8. ToldOnce'
  BY <1>2, <1>7 DEF ToldOnce, ChargeInv
<1>9. OneOpens'
  BY ZenonT(60), <1>2, <1>3, <1>4 DEF OneOpens, ChargeInv
<1>10. ChargeTypes'
  BY <1>2, <1>3, <1>7 DEF ChargeInv, ChargeTypes, Tasks
<1>11. ASSUME NEW c \in Buyers, c # b PROVE Counted(c)'
  <2>1. Told(c)' \subseteq Told(c) /\ Charged(c)' \subseteq Charged(c)
    BY <1>2, <1>7, <1>11 DEF Told, Charged
  <2> QED  BY <1>5, <2>1, CountedKept DEF ChargeInv
<1>12. Counted(b)'
  <2>1. Charged(b)' = {} /\ Told(b)' \subseteq Replicas
    BY <1>2, <1>6 DEF Charged, Told
  <2>2. /\ Cardinality(Told(b)') <= Cardinality(Replicas) /\ Cardinality(Told(b)') \in Nat
        /\ Cardinality(Replicas) \in Nat
    BY <2>1, ReplicasFinite, FS_Subset, FS_CardinalityType DEF ChargeInv
  <2>3. Cardinality(Charged(b)') = 0
    BY <2>1, FS_EmptySet
  <2> QED  BY <1>2, <1>5, <2>2, <2>3 DEF Counted
<1> QED  BY <1>8, <1>9, <1>10, <1>11, <1>12 DEF ChargeInv

LEMMA SaleKept ==
    ASSUME ChargeInv, UNCHANGED <<plan, hold>>,
           feed' \in [Replicas -> Seq(Buyers)], opening' \in [Replicas -> Openings],
           OneOpens', \A b \in Buyers : Unannounced(b)' => Unannounced(b)
    PROVE  ChargeInv'
<1>1. UNCHANGED <<queue, pays, task>> /\ Replicas' = Replicas
  BY DEF hold, Replicas
<1>2. ChargeTypes'
  BY <1>1 DEF ChargeInv, ChargeTypes, Tasks, Openings
<1>3. ToldOnce'
  BY <1>1 DEF ChargeInv, ToldOnce, InQueue, Capturing, On
<1>4. \A b \in Buyers : Told(b)' \subseteq Told(b) /\ Charged(b)' \subseteq Charged(b)
  BY <1>1 DEF Told, Charged, InQueue, Capturing, On
<1>5. \A b \in Buyers : Counted(b)'
  BY <1>4, CountedKept DEF ChargeInv
<1> QED  BY <1>2, <1>3, <1>5 DEF ChargeInv

\* A case that exists goes on existing.
LEMMA CasesStay ==
    ASSUME PostInv, PostAuctionStep, NEW b \in Buyers, cases[b] # NoCase PROVE cases'[b] # NoCase
<1>0. cases \in [Buyers -> CaseType]
  BY DEF PostInv, PostTypes
<1>1. \/ cases' = cases
      \/ \E r \in Replicas : OpenCase(r)
      \/ \E s \in Slots : CommitChange(s)
  BY DEF PostAuctionStep, Sell, OpenDesk, LookForCase, LoseSale, Colleague, ReadCase,
         StoreFile, RemoveFile, BreakRequest, ColleagueIsTold, Confirm, SendFromDesk, Answered, ServeLoad,
         LoadArrives, LoadFails, PickTarget, RetryLoad, CloseDialog, post
<1>2. ASSUME NEW r \in Replicas, OpenCase(r) PROVE cases'[b] # NoCase
  BY <1>0, <1>2 DEF OpenCase
<1>3. ASSUME NEW s \in Slots, CommitChange(s) PROVE cases'[b] # NoCase
  <2>1. cases' = [cases EXCEPT ![change[s].buyer] = Changed(@, change[s])]
    BY <1>3 DEF CommitChange
  <2>2. Changed(cases[b], change[s]).at = cases[b].at + 1 /\ cases[b].at \in Nat
    BY <1>0 DEF Changed, CaseType
  <2>3. Changed(cases[b], change[s]) # NoCase
    BY <2>2, NoCaseTyped
  <2> QED  BY <1>0, <2>1, <2>3
<1> QED  BY <1>1, <1>2, <1>3

\* A sale is handled, or the case of one moves.
LEMMA CaseCharge ==
    ASSUME ChargeInv, PostInv, PostAuctionStep, UNCHANGED hold PROVE ChargeInv'
<1>0. /\ feed \in [Replicas -> Seq(Buyers)] /\ opening \in [Replicas -> Openings]
      /\ UNCHANGED plan /\ Replicas' = Replicas
  BY DEF ChargeInv, ChargeTypes, Replicas, PostAuctionStep, Sell, OpenDesk, LookForCase, OpenCase, LoseSale,
         Colleague, ReadCase, StoreFile, CommitChange, RemoveFile, BreakRequest, ColleagueIsTold, Confirm,
         SendFromDesk, Answered, ServeLoad, LoadArrives, LoadFails, PickTarget, RetryLoad, CloseDialog
<1>1. ASSUME NEW b \in Buyers, Sell(b) PROVE ChargeInv'
  <2>1. feed' \in [Replicas -> Seq(Buyers)]
    BY <1>0, <1>1 DEF Sell
  <2>2. OneOpens' /\ \A c \in Buyers : Unannounced(c)' => Unannounced(c)
    BY <1>0, <1>1 DEF Sell, post, ChargeInv, OneOpens, Unannounced
  <2> QED  BY <1>0, <1>1, <2>1, <2>2, SaleKept DEF Sell
<1>2. ASSUME NEW r \in Replicas, LookForCase(r) PROVE ChargeInv'
  <2>1. feed[r] \in Seq(Buyers) /\ feed[r] # <<>> /\ feed' = [feed EXCEPT ![r] = Tail(@)]
    BY <1>0, <1>2 DEF LookForCase
  <2>2. Tail(feed[r]) \in Seq(Buyers) /\ Head(feed[r]) \in Buyers
    BY <2>1, Tails
  <2>3. feed' \in [Replicas -> Seq(Buyers)]
    BY <1>0, <2>1, <2>2
  <2>4. opening' \in [Replicas -> Openings]
    BY <1>0, <1>2, <2>2 DEF LookForCase, Openings
  <2>5. \A c : \A q \in Replicas : opening'[q] = <<c, "publish">> => opening[q] = <<c, "publish">>
    BY <1>0, <1>2 DEF LookForCase
  <2>6. OneOpens' /\ \A c \in Buyers : Unannounced(c)' => Unannounced(c)
    BY ZenonT(60), <1>0, <1>2, <2>5 DEF LookForCase, post, ChargeInv, OneOpens, Unannounced
  <2> QED  BY <1>0, <2>3, <2>4, <2>6, SaleKept
<1>3. ASSUME NEW r \in Replicas, LoseSale(r) PROVE ChargeInv'
  <2>1. feed[r] \in Seq(Buyers) /\ feed[r] # <<>> /\ feed' = [feed EXCEPT ![r] = Tail(@)]
    BY <1>0, <1>3 DEF LoseSale
  <2>2. Tail(feed[r]) \in Seq(Buyers)
    BY <2>1, Tails
  <2>3. feed' \in [Replicas -> Seq(Buyers)]
    BY <1>0, <2>1, <2>2
  <2>4. OneOpens' /\ \A c \in Buyers : Unannounced(c)' => Unannounced(c)
    BY <1>0, <1>3 DEF LoseSale, post, ChargeInv, OneOpens, Unannounced
  <2> QED  BY <1>0, <1>3, <2>3, <2>4, SaleKept DEF LoseSale
<1>4. ASSUME NEW r \in Replicas, OpenCase(r) PROVE ChargeInv'
  <2>1. PICK b \in Buyers : opening[r] = <<b, "insert">>
    BY <1>0, <1>4 DEF OpenCase, Openings
  <2>2. /\ cases \in [Buyers -> CaseType] /\ UNCHANGED feed
        /\ \A c \in Buyers : cases[c] # NoCase => cases'[c] # NoCase
    BY <1>4, CasesStay DEF OpenCase, PostInv, PostTypes, PostAuctionStep
  <2>3. CASE cases[b] = NoCase
    <3>1. /\ opening' = [opening EXCEPT ![r] = <<b, "publish">>]
          /\ cases' = [cases EXCEPT ![b] = [NoCase EXCEPT !.status = 1]]
      BY <1>4, <2>1, <2>3 DEF OpenCase
    <3>2. cases'[b] # NoCase
      BY <2>2, <3>1 DEF NoCase
    <3>3. opening' \in [Replicas -> Openings]
      BY <1>0, <3>1 DEF Openings
    <3>4. \A q \in Replicas : opening[q] # <<b, "publish">>
      BY <2>3 DEF ChargeInv, OneOpens
    <3>5. \A c \in Buyers : \A q \in Replicas :
            opening'[q] = <<c, "publish">> => (c = b /\ q = r) \/ (c # b /\ opening[q] = <<c, "publish">>)
      BY <1>0, <3>1, <3>4
    <3>6. OneOpens'
      <4> SUFFICES ASSUME NEW c \in Buyers, NEW q \in Replicas, opening'[q] = <<c, "publish">>
                   PROVE  /\ cases'[c] # NoCase
                          /\ \A p \in Replicas : opening'[p] = <<c, "publish">> => p = q
        BY <1>0 DEF OneOpens
      <4>1. CASE c = b
        BY <3>2, <3>5, <4>1
      <4>2. CASE c # b
        <5>1. \A p \in Replicas : opening'[p] = <<c, "publish">> => opening[p] = <<c, "publish">>
          BY <3>5, <4>2
        <5>2. cases[c] # NoCase /\ \A p \in Replicas : opening[p] = <<c, "publish">> => p = q
          BY <5>1 DEF ChargeInv, OneOpens
        <5> QED  BY <2>2, <5>1, <5>2
      <4> QED  BY <4>1, <4>2
    <3>7. \A c \in Buyers : Unannounced(c)' => Unannounced(c)
      BY <1>0, <2>2, <2>3, <3>5 DEF Unannounced
    <3> QED  BY <1>0, <2>2, <3>3, <3>6, <3>7, SaleKept
  <2>4. CASE cases[b] # NoCase
    <3>1. opening' = [opening EXCEPT ![r] = <<>>]
      BY <1>4, <2>1, <2>4 DEF OpenCase
    <3>2. opening' \in [Replicas -> Openings]
      BY <1>0, <3>1 DEF Openings
    <3>3. \A c : \A q \in Replicas : opening'[q] = <<c, "publish">> => opening[q] = <<c, "publish">>
      BY <1>0, <3>1
    <3>4. OneOpens' /\ \A c \in Buyers : Unannounced(c)' => Unannounced(c)
      BY <1>0, <2>2, <3>3 DEF ChargeInv, OneOpens, Unannounced
    <3> QED  BY <1>0, <2>2, <3>2, <3>4, SaleKept
  <2> QED  BY <2>3, <2>4
<1>5. CASE UNCHANGED sale
  <2>1. UNCHANGED <<feed, opening>> /\ \A c \in Buyers : cases[c] # NoCase => cases'[c] # NoCase
    BY <1>5, CasesStay DEF sale
  <2>2. OneOpens' /\ \A c \in Buyers : Unannounced(c)' => Unannounced(c)
    BY <1>0, <2>1 DEF ChargeInv, OneOpens, Unannounced
  <2> QED  BY <1>0, <2>1, <2>2, SaleKept
<1> QED  BY <1>1, <1>2, <1>3, <1>4, <1>5
  DEF PostAuctionStep, OpenDesk, Colleague, ReadCase, StoreFile, CommitChange, RemoveFile, BreakRequest,
      ColleagueIsTold, Confirm, SendFromDesk, Answered, ServeLoad, LoadArrives, LoadFails, PickTarget,
      RetryLoad, CloseDialog

LEMMA UnchangedCharge ==
    ASSUME ChargeInv, UNCHANGED <<plan, feed, opening, cases, hold>> PROVE ChargeInv'
<1>1. UNCHANGED <<queue, pays, task>>
  BY DEF hold
<1> QED  BY <1>1, SameTasks, SamePayments, StillKept

LEMMA HoldCharge ==
    ASSUME ChargeInv, UNCHANGED <<plan, feed, opening, cases>>, GarantiaStep \/ GarantiaFault
    PROVE  ChargeInv'
<1>1. \A t \in Requests : FlushHold(t) \/ CallHold(t) \/ SaveHold(t) \/ CallHoldFails(t) => ChargeInv'
  BY RequestsCharge
<1>2. (\E r \in Replicas : TakeEnd(r) \/ LoseEvent(r)) \/ (\E t \in Tasks : Die(t)) => ChargeInv'
  BY DropsCharge
<1>3. \A r \in Replicas : CallCancel(r) \/ SaveCapture(r) \/ SaveRelease(r) \/ TakeCase(r)
                           \/ CallCapture(r) \/ SettleFails(r) => ChargeInv'
  BY SettlesCharge, TakeCaseCharge, ConsumerCharge
<1>4. CASE GarantiaFault
  BY <1>1, <1>2, <1>3, <1>4 DEF GarantiaFault
<1>5. CASE GarantiaStep
  BY <1>1, <1>2, <1>3, <1>5, MovesCharge DEF GarantiaStep
<1> QED  BY <1>4, <1>5

\* A tab is told, or the room is.
LEMMA ToldCharge ==
    ASSUME ChargeInv, UNCHANGED <<plan, feed, opening, cases>>, NEW t, TabIsTold(t) PROVE ChargeInv'
<1>1. task' = [task EXCEPT ![t] = Idle] /\ UNCHANGED <<queue, pays>>
  BY DEF TabIsTold, Begin
<1>2. DOMAIN task' = Tasks /\ \A r \in Replicas : Calm(r)
  BY <1>1 DEF ChargeInv, ChargeTypes, Tasks, Calm
<1> QED  BY <1>1, <1>2, SamePayments, StillKept

LEMMA ChargeStep == ChargeInv /\ PostInv /\ [Next]_vars => ChargeInv'
<1> SUFFICES ASSUME ChargeInv, PostInv, [Next]_vars PROVE ChargeInv'
  OBVIOUS
<1>1. CASE OnTheCase
  BY <1>1, CaseCharge DEF OnTheCase
<1>2. CASE Shared
  BY <1>2, AnnounceCharge, EndCharge DEF Shared, post
<1>3. CASE OnTheHold
  BY <1>3, HoldCharge DEF OnTheHold, sale, post
<1>4. CASE OtherTab
  <2>1. UNCHANGED <<plan, feed, opening, cases>>
    BY <1>4 DEF OtherTab, sale, post
  <2> QED  BY <1>4, <2>1, RequestsCharge, ToldCharge DEF OtherTab
<1>5. ASSUME NEW f \in flights, RoomAsks(f) \/ RoomIsAnswered(f) PROVE ChargeInv'
  <2>1. UNCHANGED <<plan, feed, opening, cases>>
    BY <1>5 DEF RoomAsks, RoomIsAnswered, sale, post
  <2>2. CASE UNCHANGED hold
    BY <2>1, <2>2, UnchangedCharge
  <2>3. CASE \E t \in Requests : AskHold(t, Me)
    BY <2>1, <2>3, RequestsCharge
  <2>4. CASE \E t : TabIsTold(t)
    BY <2>1, <2>4, ToldCharge
  <2> QED  BY <1>5, <2>2, <2>3, <2>4 DEF RoomAsks, RoomIsAnswered
<1>6. CASE UNCHANGED <<plan, sale, post, hold>>
  BY <1>6, UnchangedCharge DEF sale, post
<1> QED  BY <1>1, <1>2, <1>3, <1>4, <1>5, <1>6 DEF Next, InTheRoom, vars

\* At first nothing was taken and no sale was handled.
LEMMA ChargeInit == Init => ChargeInv
<1> SUFFICES ASSUME Init PROVE ChargeInv
  OBVIOUS
<1>1. plan \in Plan
  BY PlansAssumption DEF Init
<1>2. ChargeTypes
  <2>1. Replicas \subseteq Nodes /\ plan.start \in [Buyers -> {"none", "active", "failed"}]
    BY <1>1 DEF Plan, Replicas
  <2>2. pays \in [Buyers -> Seq(PayStates)]
    <3>1. <<>> \in Seq(PayStates) /\ <<"authorized">> \in Seq(PayStates) /\ <<"rejected">> \in Seq(PayStates)
      BY DEF PayStates
    <3> QED  BY <2>1, <3>1 DEF Init
  <2>3. /\ feed \in [Replicas -> Seq(Buyers)] /\ opening \in [Replicas -> Openings]
        /\ queue \in [Replicas -> Seq(Events)]
    BY DEF Init, Openings
  <2> QED  BY <2>1, <2>2, <2>3 DEF Init, ChargeTypes, Tasks
<1>3. \A r \in Replicas : \A b : ~InQueue(r, b) /\ ~Capturing(r, b) /\ opening[r] # <<b, "publish">>
  BY DEF Init, InQueue, Capturing, On, Idle, Tasks
<1>4. OneOpens /\ ToldOnce
  BY <1>3 DEF OneOpens, ToldOnce, OnceIn, Init
<1>5. ASSUME NEW b \in Buyers PROVE Counted(b)
  <2>1. Told(b) = {}
    BY <1>3 DEF Told
  <2>2. Charged(b) = {}
    <3>1. plan.start[b] \in {"none", "active", "failed"}
      BY <1>1 DEF Plan
    <3>2. pays[b] \in {<<>>, <<"authorized">>, <<"rejected">>}
      BY <3>1 DEF Init
    <3> QED  BY <3>2 DEF Charged
  <2> QED  BY <1>2, <2>1, <2>2, ReplicasFinite, FS_EmptySet DEF Counted
<1> QED  BY <1>2, <1>4, <1>5 DEF ChargeInv

\* For every set of buyers and replicas, whatever fails: nothing is taken from a buyer who
\* has no case, and each replica takes at most one payment for it.
THEOREM ChargesAreAlwaysForCases == Spec => []ChargesAreForCases
<1>1. ChargeInv => ChargesAreForCases
  <2> SUFFICES ASSUME ChargeInv, NEW b \in Buyers
               PROVE  Cardinality(Charged(b)) <= IF cases[b] = NoCase THEN 0 ELSE Cardinality(Replicas)
    BY DEF ChargesAreForCases, Charged
  <2>1. cases[b] = NoCase => Charged(b) = {}
    BY DEF ChargeInv, Counted, Unannounced
  <2>2. /\ Cardinality(Charged(b)) \in Nat /\ Cardinality(Told(b)) \in Nat /\ Cardinality(Replicas) \in Nat
        /\ Cardinality(Charged(b)) + Cardinality(Told(b)) <= Cardinality(Replicas)
    BY ReplicasFinite, ToldFinite, ChargedFinite DEF ChargeInv, Counted
  <2> QED  BY <2>1, <2>2, FS_EmptySet
<1> QED  BY <1>1, ChargeInit, ChargeStep, PostInvariant, PTL DEF Spec

------------------------------------------------------------------------------
(***************************************************************************)
(* What the row of a buyer tells.  While nothing fails and nobody writes   *)
(* the row of `b` under a task that has read it, every task that works on  *)
(* it has read what it still says, and knows what it did to the payment.   *)
(***************************************************************************)
RowStates == {"none", "pending", "active", "captured", "released", "expired", "failed"}
RowType   == [status : RowStates, pay : Nat]

Alone(b) == faults = 0 /\ <<b, "overlap">> \notin past

\* What a row R says of its payment, in state st.
State(R, P) == IF R.pay = 0 THEN "none" ELSE P[R.pay]
Stands(R, st) ==
    /\ R.status = "none" => st = "none"
    /\ R.status = "active" => st \in {"authorized", "cancelled"}
    /\ R.status = "pending" => st \in {"pending", "authorized", "cancelled", "rejected"}
    /\ R.status = "captured" => st = "approved"
    /\ R.status = "released" => st = "cancelled"
    /\ R.status = "expired" => st \in {"authorized", "cancelled"}
    /\ R.status = "failed" => st \in {"rejected", "cancelled"}

\* Where a payment made with this result, or one that had it when it was asked for, is now.
Comes(result, st) ==
    /\ result \in {"authorized", "rejected", "pending"}
    /\ result = "authorized" => st \in {"authorized", "cancelled"}
    /\ result = "rejected" => st = "rejected"
    /\ result = "pending" => st \in {"pending", "authorized", "rejected", "cancelled"}
Replied(result, R, st) ==
    /\ result \in {"authorized", "rejected", "cancelled", "approved"}
    /\ result = "authorized" => R.status = "pending" /\ st \in {"authorized", "cancelled"}
    /\ result # "authorized" => st = result
    /\ result = "approved" => R.status = "active"

\* Task w works on `b`; what it knows of the row R and the payments P of its buyer, and of
\* those that wait for it.
Touches(w, b) == w # Idle /\ w.pc # "done" /\ (w.buyer = b \/ \E x \in w.rest : x[1] = b)
Own(w, R, P) ==
    /\ w.op \in {"create", "reconcile", "capture", "release"}
    /\ w.op = "create" => /\ R.status \notin {"active", "pending"}
                          /\ w.pc = "save" => /\ w.pay \in DOMAIN P /\ w.pay # R.pay
                                              /\ Comes(w.result, P[w.pay])
    /\ w.op = "reconcile" => /\ R.status \in {"active", "pending"}
                             /\ w.pc = "save" => Replied(w.result, R, P[R.pay])
    /\ w.op \in {"capture", "release"} =>
          /\ R.status = "active"
          /\ w.pc = "save" => P[R.pay] = IF w.op = "capture" THEN "approved" ELSE "cancelled"
Reads(w, b, R, P) ==
    /\ w.buyer = b => w.seen = R /\ Own(w, R, P)
    /\ \A x \in w.rest : x[1] = b => x = <<b, R.pay>> /\ R.status = "active" /\ w.buyer # b

RowFits(b) ==
    /\ row[b] \in RowType /\ (row[b].pay = 0 <=> row[b].status = "none")
    /\ row[b].pay # 0 => row[b].pay \in DOMAIN pays[b]
    /\ BeingSettled(b) \/ Stands(row[b], State(row[b], pays[b]))
    /\ row[b].status = "expired" => <<b, "expired">> \in past
    /\ <<b, "expired">> \notin past => Alive(b) \subseteq {row[b].pay} \cup Unwritten(b)
Current(b) == \A t \in Tasks : Touches(task[t], b) => Reads(task[t], b, row[b], pays[b])

Shaped == /\ DOMAIN row = Buyers
          /\ \A t \in Tasks : task[t] = Idle \/ DOMAIN task[t] = WorkFields
RowInv == /\ faults \in Nat
          /\ faults = 0 => Shaped
          /\ \A b \in Buyers : Alone(b) => RowFits(b) /\ Current(b)

\* How the payments of a buyer move while his row stays.
Evolves(P, Q, R) ==
    \A n \in DOMAIN P :
        /\ n \in DOMAIN Q
        /\ \/ Q[n] = P[n]
           \/ P[n] = "pending" /\ Q[n] \in {"authorized", "rejected"}
           \/ P[n] = "authorized" /\ Q[n] = "cancelled"
           \/ P[n] = "authorized" /\ Q[n] = "approved" /\ n = R.pay /\ R.status = "active"

LEMMA ReadsKept ==
    ASSUME NEW w, NEW b, NEW R, NEW P, NEW Q, Reads(w, b, R, P), Evolves(P, Q, R),
           R.pay = 0 <=> R.status = "none", R.pay # 0 => R.pay \in DOMAIN P
    PROVE  Reads(w, b, R, Q)
<1>1. ASSUME Own(w, R, P) PROVE Own(w, R, Q)
  <2>1. CASE w.op = "create"
    <3>1. w.pc = "save" => w.pay \in DOMAIN Q /\ Comes(w.result, Q[w.pay])
      BY <1>1, <2>1 DEF Own, Evolves, Comes
    <3> QED  BY <1>1, <2>1, <3>1 DEF Own
  <2>2. CASE w.op = "reconcile"
    <3>1. R.pay \in DOMAIN P
      BY <1>1, <2>2 DEF Own
    <3>2. w.pc = "save" => Replied(w.result, R, Q[R.pay])
      BY <1>1, <2>2, <3>1 DEF Own, Evolves, Replied
    <3> QED  BY <1>1, <2>2, <3>2 DEF Own
  <2>3. CASE w.op \in {"capture", "release"}
    <3>1. R.pay \in DOMAIN P
      BY <1>1, <2>3 DEF Own
    <3> QED  BY <1>1, <2>3, <3>1 DEF Own, Evolves
  <2> QED  BY <1>1, <2>1, <2>2, <2>3 DEF Own
<1> QED  BY <1>1 DEF Reads

LEMMA StandsKept ==
    ASSUME NEW R \in RowType, NEW P, NEW Q, Stands(R, State(R, P)), Evolves(P, Q, R),
           R.pay = 0 <=> R.status = "none", R.pay # 0 => R.pay \in DOMAIN P
    PROVE  \/ Stands(R, State(R, Q))
           \/ R.pay \in DOMAIN P /\ P[R.pay] = "authorized" /\ Q[R.pay] = "approved"
<1>1. CASE R.pay = 0
  BY <1>1 DEF Stands, State
<1>2. CASE R.pay # 0
  BY <1>2 DEF Stands, State, Evolves
<1> QED  BY <1>1, <1>2

\* Task t goes on with what concerns `b`, whose row stays.
Saving(w, b) == w.op \in {"create", "capture", "release"} /\ w.pc = "save" /\ w.buyer = b

LEMMA SavingStays ==
    ASSUME UNCHANGED plan, NEW b \in Buyers, row'[b] = row[b], NEW t \in Tasks,
           \A u \in Tasks \ {t} : task'[u] = task[u],
           Saving(task[t], b) => task'[t] = task[t]
    PROVE  (BeingSettled(b) => BeingSettled(b)') /\ Unwritten(b) \subseteq Unwritten(b)'
<1>1. Replicas' = Replicas /\ Requests \cup Replicas \subseteq Tasks
  BY DEF Replicas, Tasks
<1>2. \A u \in Tasks : Saving(task[u], b) => task'[u] = task[u]
  OBVIOUS
<1>3. BeingSettled(b) => BeingSettled(b)'
  BY <1>1, <1>2 DEF BeingSettled, Saving
<1>4. Unwritten(b) \subseteq Unwritten(b)'
  BY <1>1, <1>2 DEF Unwritten, Saving, On
<1> QED  BY <1>3, <1>4

LEMMA FitStays ==
    ASSUME UNCHANGED plan, NEW b \in Buyers, RowFits(b), Current(b), past \subseteq past',
           row'[b] = row[b], Evolves(pays[b], pays'[b], row[b]),
           NEW t \in Tasks, \A u \in Tasks \ {t} : task'[u] = task[u],
           Saving(task[t], b) => task'[t] = task[t],
           Touches(task'[t], b) => Reads(task'[t], b, row[b], pays'[b]),
           row[b].pay \in DOMAIN pays[b] /\ pays[b][row[b].pay] = "authorized"
             /\ pays'[b][row[b].pay] = "approved" => BeingSettled(b)',
           \A n \in DOMAIN pays'[b] \ DOMAIN pays[b] : n \in Unwritten(b)'
    PROVE  RowFits(b)' /\ Current(b)'
<1>1. (BeingSettled(b) => BeingSettled(b)') /\ Unwritten(b) \subseteq Unwritten(b)'
  BY SavingStays
<1>2. Tasks' = Tasks
  BY DEF Tasks, Replicas
<1> DEFINE R == row[b]  P == pays[b]  Q == pays'[b]
<1>3. R \in RowType /\ (R.pay = 0 <=> R.status = "none") /\ (R.pay # 0 => R.pay \in DOMAIN P)
  BY DEF RowFits
<1>4. Current(b)'
  <2> SUFFICES ASSUME NEW u \in Tasks, Touches(task'[u], b) PROVE Reads(task'[u], b, R, Q)
    BY <1>2 DEF Current
  <2>1. CASE u = t
    BY <2>1
  <2>2. CASE u # t
    <3>1. task'[u] = task[u] /\ Reads(task[u], b, R, P)
      BY <2>2 DEF Current
    <3> QED  BY <1>3, <3>1, ReadsKept
  <2> QED  BY <2>1, <2>2
<1>5. BeingSettled(b)' \/ Stands(R, State(R, Q))
  BY <1>1, <1>3, StandsKept DEF RowFits
<1>6. R.pay # 0 => R.pay \in DOMAIN Q
  BY <1>3 DEF Evolves
<1>7. <<b, "expired">> \notin past' => Alive(b)' \subseteq {R.pay} \cup Unwritten(b)'
  <2> SUFFICES ASSUME <<b, "expired">> \notin past', NEW n \in DOMAIN Q, Q[n] \in {"pending", "authorized"}
               PROVE  n \in {R.pay} \cup Unwritten(b)'
    BY DEF Alive
  <2>1. CASE n \in DOMAIN P
    <3>1. P[n] \in {"pending", "authorized"}
      BY <2>1 DEF Evolves
    <3> QED  BY <1>1, <2>1, <3>1 DEF Alive, RowFits
  <2>2. CASE n \notin DOMAIN P
    BY <2>2
  <2> QED  BY <2>1, <2>2
<1> QED  BY <1>3, <1>4, <1>5, <1>6, <1>7 DEF RowFits


\* Evolving, for the payments that move.
LEMMA SamePays == ASSUME NEW P, NEW R PROVE Evolves(P, P, R)
  BY DEF Evolves

\* A step of task t that leaves the rows alone.
LEMMA RowStays ==
    ASSUME RowInv, ChargeTypes, UNCHANGED <<plan, faults, row, past>>, faults = 0,
           NEW t \in Tasks, NEW w, task' = [task EXCEPT ![t] = w], w = Idle \/ DOMAIN w = WorkFields,
           \A b \in Buyers : ~Saving(task[t], b),
           \A b \in Buyers : RowFits(b) /\ Current(b) =>
             /\ Touches(w, b) => Reads(w, b, row[b], pays'[b])
             /\ Evolves(pays[b], pays'[b], row[b])
             /\ row[b].pay \in DOMAIN pays[b] /\ pays[b][row[b].pay] = "authorized"
                  /\ pays'[b][row[b].pay] = "approved" => BeingSettled(b)'
             /\ \A n \in DOMAIN pays'[b] \ DOMAIN pays[b] : n \in Unwritten(b)'
    PROVE  RowInv'
<1>1. /\ \A u \in Tasks \ {t} : task'[u] = task[u]
      /\ task'[t] = w /\ Tasks' = Tasks
  BY DEF ChargeTypes, Tasks, Replicas
<1>2. Shaped'
  BY <1>1 DEF RowInv, Shaped
<1>3. ASSUME NEW b \in Buyers, Alone(b)' PROVE RowFits(b)' /\ Current(b)'
  <2>1. RowFits(b) /\ Current(b)
    BY <1>3 DEF RowInv, Alone
  <2>2. /\ Touches(w, b) => Reads(w, b, row[b], pays'[b])
        /\ Evolves(pays[b], pays'[b], row[b])
        /\ row[b].pay \in DOMAIN pays[b] /\ pays[b][row[b].pay] = "authorized"
             /\ pays'[b][row[b].pay] = "approved" => BeingSettled(b)'
        /\ \A n \in DOMAIN pays'[b] \ DOMAIN pays[b] : n \in Unwritten(b)'
    BY <2>1
  <2>3. ~Saving(task[t], b) /\ row'[b] = row[b] /\ past \subseteq past'
    OBVIOUS
  <2> QED  BY <1>1, <2>1, <2>2, <2>3, FitStays
<1> QED  BY <1>2, <1>3 DEF RowInv

\* A step of task t that leaves the payments alone, too.
LEMMA TaskMoves ==
    ASSUME RowInv, ChargeTypes, UNCHANGED <<plan, faults, row, pays, past>>, faults = 0,
           NEW t \in Tasks, NEW w, Begin(t, w), w = Idle \/ DOMAIN w = WorkFields,
           \A b \in Buyers : ~Saving(task[t], b),
           \A b \in Buyers : RowFits(b) /\ Current(b) /\ Touches(w, b) => Reads(w, b, row[b], pays[b])
    PROVE  RowInv'
<1>1. ASSUME NEW b \in Buyers, RowFits(b), Current(b)
      PROVE  /\ Touches(w, b) => Reads(w, b, row[b], pays'[b])
             /\ Evolves(pays[b], pays'[b], row[b])
             /\ row[b].pay \in DOMAIN pays[b] /\ pays[b][row[b].pay] = "authorized"
                  /\ pays'[b][row[b].pay] = "approved" => BeingSettled(b)'
             /\ \A n \in DOMAIN pays'[b] \ DOMAIN pays[b] : n \in Unwritten(b)'
  BY <1>1, SamePays
<1> QED  BY <1>1, RowStays DEF Begin

\* Whoever saves without an overlap is alone with the row, which says what he read.
LEMMA SavesAlone ==
    ASSUME NEW b, NEW t, NEW B, b \in B, Overlaps(B, t) \cup past \subseteq past', UNCHANGED faults, Alone(b)'
    PROVE  Alone(b) /\ \A u \in Tasks \ {t} : ~Touches(task[u], b)
<1>1. ~\E u \in Tasks \ {t} : WorksOn(u, b)
  BY DEF Alone, Overlaps
<1>2. ASSUME NEW u, Touches(task[u], b) PROVE WorksOn(u, b)
  BY <1>2 DEF Touches, WorksOn
<1> QED  BY <1>1, <1>2 DEF Alone

\* What is written over a row that is alone.
LEMMA FitSaved ==
    ASSUME UNCHANGED <<plan, pays>>, NEW b \in Buyers, NEW t \in Tasks,
           \A u \in Tasks \ {t} : task'[u] = task[u] /\ ~Touches(task[u], b),
           ~Touches(task'[t], b),
           row'[b] \in RowType, row'[b].status # "none", row'[b].pay # 0, row'[b].pay \in DOMAIN pays[b],
           Stands(row'[b], pays[b][row'[b].pay]),
           row'[b].status = "expired" => <<b, "expired">> \in past',
           <<b, "expired">> \notin past' => Alive(b) \subseteq {row'[b].pay}
    PROVE  RowFits(b)' /\ Current(b)'
<1>1. Tasks' = Tasks
  BY DEF Tasks, Replicas
<1>2. Current(b)'
  BY <1>1 DEF Current
<1>3. Alive(b)' = Alive(b)
  BY DEF Alive
<1>4. State(row[b], pays[b])' = pays[b][row'[b].pay]
  BY DEF State
<1> QED  BY <1>2, <1>3, <1>4 DEF RowFits

\* Whoever writes the row of `b` without an overlap had read it, and writes what he means to.
LEMMA SaverReads ==
    ASSUME RowInv, ChargeTypes, UNCHANGED faults, faults = 0, NEW b \in Buyers, NEW t \in Tasks,
           NEW s, NEW p, Touches(task[t], b), task[t].buyer = b,
           Save(b, t, [status |-> s, pay |-> p]), Alone(b)'
    PROVE  /\ RowFits(b) /\ task[t].seen = row[b] /\ Own(task[t], row[b], pays[b])
           /\ \A x \in task[t].rest : x[1] # b
           /\ row'[b] = [status |-> s, pay |-> p]
           /\ \A u \in Tasks \ {t} : ~Touches(task[u], b)
<1>1. past' = past \cup Overlaps({b}, t)
  BY DEF Save
<1>2. Alone(b) /\ \A u \in Tasks \ {t} : ~Touches(task[u], b)
  BY <1>1, SavesAlone
<1>3. RowFits(b) /\ Current(b) /\ DOMAIN row = Buyers
  BY <1>2 DEF RowInv, Shaped
<1>4. Reads(task[t], b, row[b], pays[b])
  BY <1>3 DEF Current
<1>5. task[t].seen = row[b] /\ Own(task[t], row[b], pays[b]) /\ \A x \in task[t].rest : x[1] # b
  BY <1>4 DEF Reads
<1> DEFINE new == [status |-> s, pay |-> p]
<1>6. row'[b] = Written(row[b], row[b], new)
  BY <1>3, <1>5 DEF Save
<1>7. Written(row[b], row[b], new) = new
  BY DEF Written
<1> QED  BY <1>2, <1>3, <1>5, <1>6, <1>7

\* A step in which task t writes the row of `b`, and goes on with the others or ends.
LEMMA RowSaves ==
    ASSUME RowInv, ChargeTypes, UNCHANGED <<plan, faults, pays>>, faults = 0,
           NEW b, NEW t \in Tasks, NEW new, Save(b, t, new), task[t].buyer = b,
           NEW w, Begin(t, w), w = Idle \/ DOMAIN w = WorkFields,
           \A c \in Buyers \ {b} : Touches(w, c) =>
             Touches(task[t], c) /\ w.buyer # c /\ w.rest = task[t].rest,
           b \in Buyers /\ Alone(b)' =>
             /\ ~Touches(w, b)
             /\ row'[b] \in RowType /\ row'[b].status \notin {"none", "expired"} /\ row'[b].pay # 0
             /\ row'[b].pay \in DOMAIN pays[b] /\ Stands(row'[b], pays[b][row'[b].pay])
             /\ <<b, "expired">> \notin past => Alive(b) \subseteq {row'[b].pay}
    PROVE  RowInv'
<1>1. /\ \A u \in Tasks \ {t} : task'[u] = task[u]
      /\ task'[t] = w /\ Tasks' = Tasks
  BY DEF Begin, ChargeTypes, Tasks, Replicas
<1>2. /\ past' = past \cup Overlaps({b}, t) /\ past \subseteq past'
      /\ DOMAIN row' = Buyers /\ \A c \in Buyers \ {b} : row'[c] = row[c]
  BY DEF Save, RowInv, Shaped
<1>3. Shaped'
  BY <1>1, <1>2 DEF RowInv, Shaped
<1>4. ASSUME b \in Buyers, Alone(b)' PROVE RowFits(b)' /\ Current(b)'
  <2>1. \A u \in Tasks \ {t} : ~Touches(task[u], b)
    BY <1>2, <1>4, SavesAlone
  <2> QED  BY <1>1, <1>2, <1>4, <2>1, FitSaved
<1>5. ASSUME NEW c \in Buyers \ {b}, Alone(c)' PROVE RowFits(c)' /\ Current(c)'
  <2>1. RowFits(c) /\ Current(c)
    BY <1>2, <1>5 DEF RowInv, Alone
  <2>2. Evolves(pays[c], pays'[c], row[c]) /\ row'[c] = row[c] /\ pays'[c] = pays[c]
    BY <1>2, SamePays
  <2>3. ~Saving(task[t], c)
    BY DEF Saving
  <2>4. Touches(w, c) => Reads(w, c, row[c], pays[c])
    <3> SUFFICES ASSUME Touches(w, c) PROVE Reads(w, c, row[c], pays[c])
      OBVIOUS
    <3>1. Reads(task[t], c, row[c], pays[c]) /\ w.buyer # c /\ w.rest = task[t].rest
      BY <2>1 DEF Current
    <3> QED  BY <3>1 DEF Reads
  <2> QED  BY <1>1, <1>2, <2>1, <2>2, <2>3, <2>4, FitStays
<1> QED  BY <1>3, <1>4, <1>5 DEF RowInv

\* A task has the fields of its kind, and the slots of different kinds are different.
LEMMA TaskShapes ==
    ASSUME RowInv, faults = 0, ChargeTypes
    PROVE  /\ Idle.op = "idle" /\ \A b : ~Touches(Idle, b)
           /\ \A t \in Tasks : task[t] = Idle \/ DOMAIN task[t] = WorkFields
           /\ Requests \cup Replicas \cup {Hook, Clock} \subseteq Tasks
           /\ Replicas \cap (Requests \cup {Hook, Clock}) = {}
           /\ NoBuyer \notin Buyers
  BY TasksAssumption, PlansAssumption DEF RowInv, Shaped, Idle, Touches, Tasks, ChargeTypes

\* Requests read a row that is not alive, and make a payment it does not name.
LEMMA AskRow ==
    ASSUME RowInv, ChargeTypes, UNCHANGED <<plan, faults>>, faults = 0, NEW t, NEW c, AskHold(t, c)
    PROVE  RowInv'
<1> DEFINE w == Work("create", "flush", c, row[c])
<1>1. /\ UNCHANGED <<row, pays, past>> /\ Begin(t, w) /\ task[t] = Idle /\ t \in Tasks
      /\ row[c].status \notin {"active", "pending"}
  BY TaskShapes DEF AskHold
<1>2. /\ DOMAIN w = WorkFields /\ w.op = "create" /\ w.pc = "flush" /\ w.buyer = c
      /\ w.seen = row[c] /\ w.rest = {}
  BY DEF Work, WorkFields
<1>3. \A b \in Buyers : ~Saving(task[t], b)
  BY <1>1, TaskShapes DEF Saving
<1> HIDE DEF w
<1>4. ASSUME NEW b \in Buyers, Touches(w, b) PROVE Reads(w, b, row[b], pays[b])
  BY <1>1, <1>2, <1>4 DEF Touches, Reads, Own
<1> QED  BY <1>1, <1>2, <1>3, <1>4, TaskMoves

LEMMA FlushRow ==
    ASSUME RowInv, ChargeTypes, UNCHANGED <<plan, faults>>, faults = 0, NEW t \in Requests, FlushHold(t)
    PROVE  RowInv'
<1> DEFINE W == task[t]
<1>1. W.op = "create" /\ W.pc = "flush" /\ t \in Tasks /\ DOMAIN W = WorkFields /\ W # Idle
  BY TaskShapes DEF FlushHold, On
<1>2. PICK w : /\ Begin(t, w) /\ DOMAIN w = WorkFields
               /\ \/ w.pc = "done"
                  \/ w.pc = "call" /\ w.op = "create" /\ w.buyer = W.buyer /\ w.seen = W.seen /\ w.rest = W.rest
  <2> DEFINE wd == [W EXCEPT !.pc = "done", !.result = row[W.buyer].status]
             wc == [W EXCEPT !.pc = "call"]
  <2>1. /\ DOMAIN wd = WorkFields /\ wd.pc = "done"
        /\ DOMAIN wc = WorkFields /\ wc.pc = "call" /\ wc.op = "create" /\ wc.buyer = W.buyer
        /\ wc.seen = W.seen /\ wc.rest = W.rest
    BY <1>1 DEF WorkFields
  <2>2. Begin(t, wd) \/ Begin(t, wc)
    BY DEF FlushHold
  <2> HIDE DEF wd, wc
  <2> QED  BY <2>1, <2>2
<1>3. UNCHANGED <<row, pays, past>>
  BY DEF FlushHold
<1>4. \A b \in Buyers : ~Saving(W, b)
  BY <1>1 DEF Saving
<1>5. ASSUME NEW b \in Buyers, Current(b), Touches(w, b) PROVE Reads(w, b, row[b], pays[b])
  <2>1. Touches(W, b)
    BY <1>1, <1>2, <1>5 DEF Touches
  <2>2. Reads(W, b, row[b], pays[b])
    BY <1>1, <1>5, <2>1 DEF Current
  <2> QED  BY <1>1, <1>2, <1>5, <2>2 DEF Touches, Reads, Own
<1> QED  BY <1>1, <1>2, <1>3, <1>4, <1>5, TaskMoves

LEMMA CallRow ==
    ASSUME RowInv, ChargeTypes, UNCHANGED <<plan, faults>>, faults = 0, NEW t \in Requests, CallHold(t)
    PROVE  RowInv'
<1> DEFINE W == task[t]  c == W.buyer  N == Len(pays[c]) + 1
<1>1. W.op = "create" /\ W.pc = "call" /\ t \in Tasks /\ DOMAIN W = WorkFields /\ W # Idle
  BY TaskShapes DEF CallHold, On
<1>2. PICK result \in {"authorized", "rejected", "pending"} :
         /\ pays' = [pays EXCEPT ![c] = Append(@, result)]
         /\ Begin(t, [W EXCEPT !.pc = "save", !.result = result, !.pay = N])
  BY DEF CallHold
<1> DEFINE w == [W EXCEPT !.pc = "save", !.result = result, !.pay = N]
<1>3. /\ DOMAIN w = WorkFields /\ w.op = "create" /\ w.pc = "save" /\ w.buyer = c /\ w.seen = W.seen
      /\ w.rest = W.rest /\ w.pay = N /\ w.result = result
  BY <1>1 DEF WorkFields
<1>4. Begin(t, w) /\ UNCHANGED <<row, past>> /\ task'[t] = w
  BY <1>1, <1>2 DEF CallHold, Begin, ChargeTypes
<1>5. \A b \in Buyers : ~Saving(W, b)
  BY <1>1 DEF Saving
<1> HIDE DEF w
<1>6. ASSUME NEW b \in Buyers, RowFits(b), Current(b)
      PROVE  /\ Touches(w, b) => Reads(w, b, row[b], pays'[b])
             /\ Evolves(pays[b], pays'[b], row[b])
             /\ row[b].pay \in DOMAIN pays[b] /\ pays[b][row[b].pay] = "authorized"
                  /\ pays'[b][row[b].pay] = "approved" => BeingSettled(b)'
             /\ \A n \in DOMAIN pays'[b] \ DOMAIN pays[b] : n \in Unwritten(b)'
  <2>1. pays \in [Buyers -> Seq(PayStates)] /\ pays[b] \in Seq(PayStates)
    BY DEF ChargeTypes
  <2>2. Touches(w, b) => Touches(W, b)
    BY <1>1, <1>3 DEF Touches
  <2>3. Touches(W, b) => Reads(W, b, row[b], pays[b])
    BY <1>1, <1>6 DEF Current
  <2>4. CASE b = c
    <3>1. /\ pays'[b] = Append(pays[b], result) /\ DOMAIN pays'[b] = DOMAIN pays[b] \cup {N}
          /\ N \notin DOMAIN pays[b] /\ pays'[b][N] = result
          /\ \A n \in DOMAIN pays[b] : pays'[b][n] = pays[b][n]
      BY <1>2, <2>1, <2>4
    <3>2. N \in Unwritten(b)'
      BY <1>3, <1>4, <2>4 DEF Unwritten, On
    <3>3. row[b].pay # N
      BY <1>6, <2>1, <2>4, <3>1 DEF RowFits
    <3>4. Touches(w, b) => Reads(w, b, row[b], pays'[b])
      <4>1. ASSUME Touches(w, b) PROVE W.seen = row[b] /\ Own(W, row[b], pays[b])
                                       /\ \A x \in W.rest : x[1] # b
        BY <2>2, <2>3, <2>4, <4>1 DEF Reads
      <4>2. Comes(result, result)
        BY DEF Comes
      <4>3. ASSUME Touches(w, b) PROVE Own(w, row[b], pays'[b])
        BY <1>1, <1>3, <3>1, <3>3, <4>1, <4>2, <4>3 DEF Own
      <4> QED  BY <1>3, <4>1, <4>3 DEF Reads
    <3> QED  BY <3>1, <3>2, <3>4 DEF Evolves
  <2>5. CASE b # c
    <3>1. pays'[b] = pays[b]
      BY <1>2, <2>1, <2>5
    <3> QED  BY <1>3, <2>2, <2>3, <2>5, <3>1 DEF Reads, Evolves
  <2> QED  BY <2>4, <2>5
<1> QED  BY <1>1, <1>3, <1>4, <1>5, <1>6, RowStays DEF Begin

\* What is not alive has no payment that is.
LEMMA SaveRow ==
    ASSUME RowInv, ChargeTypes, UNCHANGED <<plan, faults>>, faults = 0, NEW t \in Requests, SaveHold(t)
    PROVE  RowInv'
<1> DEFINE W == task[t]
<1>0. PICK c, s : c = W.buyer /\ s = IF W.result = "error" THEN "failed" ELSE StatusOf(W.result)
  OBVIOUS
<1> DEFINE new == [status |-> s, pay |-> W.pay]  w == [W EXCEPT !.pc = "done", !.result = row'[c].status]
<1>1. W.op = "create" /\ W.pc = "save" /\ t \in Tasks /\ DOMAIN W = WorkFields /\ W # Idle
  BY TaskShapes DEF SaveHold, On
<1>2. Save(c, t, new) /\ Begin(t, w) /\ UNCHANGED pays
  BY <1>0 DEF SaveHold
<1>3. DOMAIN w = WorkFields /\ w.pc = "done"
  BY <1>1 DEF WorkFields
<1>4. \A b : ~Touches(w, b)
  BY <1>3 DEF Touches
<1>5. ASSUME c \in Buyers, Alone(c)'
      PROVE  /\ row'[c] \in RowType /\ row'[c].status \notin {"none", "expired"} /\ row'[c].pay # 0
             /\ row'[c].pay \in DOMAIN pays[c] /\ Stands(row'[c], pays[c][row'[c].pay])
             /\ <<c, "expired">> \notin past => Alive(c) \subseteq {row'[c].pay}
  <2> DEFINE R == row[c]  P == pays[c]
  <2>1. Touches(W, c)
    BY <1>0, <1>1 DEF Touches
  <2>2. /\ RowFits(c) /\ W.seen = R /\ Own(W, R, P) /\ row'[c] = new
        /\ \A u \in Tasks \ {t} : ~Touches(task[u], c)
    BY <1>0, <1>1, <1>2, <1>5, <2>1, SaverReads
  <2>3. /\ R.status \notin {"active", "pending"} /\ W.pay \in DOMAIN P /\ W.pay # R.pay
        /\ Comes(W.result, P[W.pay]) /\ P \in Seq(PayStates)
    BY <1>1, <1>5, <2>2 DEF Own, ChargeTypes
  <2>4. W.pay \in Nat \ {0}
    BY <2>3
  <2>5. s \in {"active", "failed", "pending"} /\ Stands(new, P[W.pay])
    BY <1>0, <2>3 DEF Comes, StatusOf, Stands
  <2>6. ~BeingSettled(c) /\ Unwritten(c) \subseteq {W.pay}
    BY <2>2, TaskShapes DEF BeingSettled, Unwritten, On, Touches
  <2>7. <<c, "expired">> \notin past => R.pay \notin Alive(c)
    <3>1. Stands(R, State(R, P)) /\ R \in RowType /\ (R.pay = 0 <=> R.status = "none")
          /\ (R.status = "expired" => <<c, "expired">> \in past)
      BY <2>2, <2>6 DEF RowFits
    <3>2. R.pay = 0 => R.pay \notin DOMAIN P
      BY <2>3
    <3> QED  BY <2>3, <3>1, <3>2 DEF Alive, Stands, State, RowType, RowStates
  <2>8. <<c, "expired">> \notin past => Alive(c) \subseteq {W.pay}
    BY <2>2, <2>6, <2>7 DEF RowFits
  <2> QED  BY <2>2, <2>3, <2>4, <2>5, <2>8 DEF RowType, RowStates
<1> HIDE DEF w, new
<1> QED  BY <1>0, <1>1, <1>2, <1>3, <1>4, <1>5, RowSaves

\* Payments are decided and run out by themselves; rows grow old.
LEMMA MovesRow ==
    ASSUME RowInv, ChargeTypes, UNCHANGED <<plan, faults>>, faults = 0, NEW c \in Buyers,
           NEW n \in DOMAIN pays[c], Decide(c, n) \/ Lapse(c, n)
    PROVE  RowInv'
<1>1. /\ UNCHANGED <<row, task, past>>
      /\ \E to : /\ pays' = [pays EXCEPT ![c][n] = to]
                 /\ \/ pays[c][n] = "pending" /\ to \in {"authorized", "rejected"}
                    \/ pays[c][n] = "authorized" /\ to = "cancelled"
  BY DEF Decide, Lapse
<1>2. ASSUME NEW b \in Buyers
      PROVE  /\ Evolves(pays[b], pays'[b], row[b]) /\ DOMAIN pays'[b] = DOMAIN pays[b]
             /\ ~(pays[b][row[b].pay] = "authorized" /\ pays'[b][row[b].pay] = "approved"
                    /\ row[b].pay \in DOMAIN pays[b])
  <2>1. pays \in [Buyers -> Seq(PayStates)] /\ pays[b] \in Seq(PayStates)
    BY DEF ChargeTypes
  <2>2. PICK to : /\ pays' = [pays EXCEPT ![c][n] = to]
                  /\ \/ pays[c][n] = "pending" /\ to \in {"authorized", "rejected"}
                     \/ pays[c][n] = "authorized" /\ to = "cancelled"
    BY <1>1
  <2>3. pays'[b] = IF b = c THEN [pays[b] EXCEPT ![n] = to] ELSE pays[b]
    BY <2>1, <2>2
  <2>4. CASE b = c
    <3>1. pays'[b] = [pays[b] EXCEPT ![n] = to]
      BY <2>3, <2>4
    <3>2. /\ DOMAIN pays'[b] = DOMAIN pays[b] /\ pays'[b][n] = to
          /\ \A m \in DOMAIN pays[b] : m # n => pays'[b][m] = pays[b][m]
      BY <2>1, <2>4, <3>1
    <3> QED  BY <2>2, <2>4, <3>2 DEF Evolves
  <2>5. CASE b # c
    BY <2>3, <2>5 DEF Evolves
  <2> QED  BY <2>4, <2>5
<1>3. /\ Shaped' /\ Tasks' = Tasks /\ Hook \in Tasks
      /\ \A u \in Tasks : task'[u] = task[u]
  BY <1>1 DEF RowInv, Shaped, Tasks, Replicas
<1>4. ASSUME NEW b \in Buyers, Alone(b)' PROVE RowFits(b)' /\ Current(b)'
  <2>1. RowFits(b) /\ Current(b)
    BY <1>1, <1>4 DEF RowInv, Alone
  <2>2. Touches(task'[Hook], b) => Reads(task'[Hook], b, row[b], pays'[b])
    <3>1. Touches(task[Hook], b) => Reads(task[Hook], b, row[b], pays[b])
      BY <1>3, <2>1 DEF Current
    <3> QED  BY <1>2, <1>3, <2>1, <3>1, ReadsKept DEF RowFits
  <2> QED  BY <1>1, <1>2, <1>3, <2>1, <2>2, FitStays
<1> QED  BY <1>1, <1>3, <1>4 DEF RowInv

LEMMA SameRow ==
    ASSUME RowInv, UNCHANGED <<plan, faults, row, pays, past>>, \A u \in Tasks : task'[u] = task[u]
    PROVE  RowInv'
<1>1. Tasks' = Tasks /\ Replicas' = Replicas /\ Requests \cup Replicas \subseteq Tasks
  BY DEF Tasks, Replicas
<1>2. Shaped' = Shaped
  BY <1>1 DEF Shaped
<1>3. ASSUME NEW b \in Buyers PROVE /\ Alone(b)' = Alone(b) /\ Current(b)' = Current(b)
                                    /\ RowFits(b)' = RowFits(b)
  <2>1. Alone(b)' = Alone(b) /\ Current(b)' = Current(b)
    BY <1>1 DEF Alone, Current
  <2>2. BeingSettled(b)' = BeingSettled(b)
    BY <1>1 DEF BeingSettled
  <2>3. Unwritten(b)' = Unwritten(b) /\ Alive(b)' = Alive(b)
    BY <1>1 DEF Unwritten, Alive, On
  <2> QED  BY <2>1, <2>2, <2>3 DEF RowFits
<1> QED  BY <1>2, <1>3 DEF RowInv

\* The notification of a payment reads the row that names it.
LEMMA NotifyRow ==
    ASSUME RowInv, ChargeTypes, UNCHANGED <<plan, faults>>, faults = 0,
           NEW c \in Buyers, NEW n \in DOMAIN pays[c], Notify(c, n)
    PROVE  RowInv'
<1> DEFINE w == Work("reconcile", "call", c, row[c])
<1>1. /\ UNCHANGED <<row, pays, past>> /\ Begin(Hook, w) /\ task[Hook] = Idle /\ Hook \in Tasks
      /\ row[c].status \in {"active", "pending"}
  BY TaskShapes DEF Notify
<1>2. /\ DOMAIN w = WorkFields /\ w.op = "reconcile" /\ w.pc = "call" /\ w.buyer = c
      /\ w.seen = row[c] /\ w.rest = {}
  BY DEF Work, WorkFields
<1>3. \A b \in Buyers : ~Saving(task[Hook], b)
  BY <1>1, TaskShapes DEF Saving
<1> HIDE DEF w
<1>4. ASSUME NEW b \in Buyers, Touches(w, b) PROVE Reads(w, b, row[b], pays[b])
  BY <1>1, <1>2, <1>4 DEF Touches, Reads, Own
<1> QED  BY <1>1, <1>2, <1>3, <1>4, TaskMoves

\* A replica that settles the payment of a row knows what it did.
LEMMA SettledReads ==
    ASSUME ChargeTypes, RowInv, faults = 0, NEW b \in Buyers, Current(b), BeingSettled(b)
    PROVE  row[b].status = "active" /\ pays[b][row[b].pay] \in {"approved", "cancelled"}
<1>1. PICK u \in Replicas : /\ task[u].op \in {"capture", "release"} /\ task[u].pc = "save"
                            /\ task[u].buyer = b
  BY DEF BeingSettled
<1>2. u \in Tasks /\ Touches(task[u], b)
  BY <1>1, TaskShapes DEF Touches
<1>3. Own(task[u], row[b], pays[b])
  BY <1>2, <1>1 DEF Current, Reads
<1> QED  BY <1>1, <1>3 DEF Own

\* What is answered about the payment of a row that stands, when it would change it.
LEMMA AnswerFits ==
    ASSUME ChargeTypes, RowInv, faults = 0, NEW b \in Buyers, RowFits(b), Current(b),
           row[b].status \in {"active", "pending"}, StatusOf(pays[b][row[b].pay]) # row[b].status
    PROVE  Replied(pays[b][row[b].pay], row[b], pays[b][row[b].pay])
<1>1. row[b].pay \in DOMAIN pays[b] /\ row[b].pay # 0
  BY DEF RowFits
<1>2. CASE BeingSettled(b)
  BY <1>2, SettledReads DEF Replied
<1>3. CASE Stands(row[b], pays[b][row[b].pay])
  BY <1>3 DEF Stands, Replied, StatusOf
<1> QED  BY <1>1, <1>2, <1>3 DEF RowFits, State

LEMMA AskStatusRow ==
    ASSUME RowInv, ChargeTypes, UNCHANGED <<plan, faults>>, faults = 0, AskStatus
    PROVE  RowInv'
<1> DEFINE W == task[Hook]  result == pays[W.buyer][W.seen.pay]
           ws == [W EXCEPT !.pc = "save", !.result = result]
<1>1. /\ W.op = "reconcile" /\ W.pc = "call" /\ Hook \in Tasks /\ DOMAIN W = WorkFields /\ W # Idle
      /\ UNCHANGED <<row, pays, past>>
  BY TaskShapes DEF AskStatus, On
<1>2. /\ DOMAIN ws = WorkFields /\ ws.op = "reconcile" /\ ws.pc = "save" /\ ws.buyer = W.buyer
      /\ ws.seen = W.seen /\ ws.rest = W.rest /\ ws.result = result
  BY <1>1 DEF WorkFields
<1>3. \A b \in Buyers : ~Saving(W, b)
  BY <1>1 DEF Saving
<1>4. Begin(Hook, Idle) \/ (Begin(Hook, ws) /\ StatusOf(result) # W.seen.status)
  BY DEF AskStatus
<1> HIDE DEF ws
<1>5. CASE Begin(Hook, Idle)
  BY <1>1, <1>3, <1>5, TaskShapes, TaskMoves
<1>6. CASE Begin(Hook, ws) /\ StatusOf(result) # W.seen.status
  <2>1. ASSUME NEW b \in Buyers, RowFits(b), Current(b), Touches(ws, b)
        PROVE  Reads(ws, b, row[b], pays[b])
    <3>1. Reads(W, b, row[b], pays[b])
      BY <1>1, <1>2, <2>1 DEF Touches, Current
    <3>2. ASSUME W.buyer = b PROVE Own(ws, row[b], pays[b])
      <4>1. W.seen = row[b] /\ row[b].status \in {"active", "pending"}
        BY <1>1, <3>1, <3>2 DEF Reads, Own
      <4>2. Replied(result, row[b], pays[b][row[b].pay])
        BY <1>6, <2>1, <3>2, <4>1, AnswerFits
      <4> QED  BY <1>2, <4>1, <4>2 DEF Own
    <3> QED  BY <1>2, <3>1, <3>2 DEF Reads
  <2> QED  BY <1>1, <1>2, <1>3, <1>6, <2>1, TaskMoves
<1> QED  BY <1>4, <1>5, <1>6

\* The row says what was answered: nothing was captured meanwhile.
LEMMA SaveStatusRow ==
    ASSUME RowInv, ChargeTypes, UNCHANGED <<plan, faults>>, faults = 0, SaveStatus
    PROVE  RowInv'
<1> DEFINE W == task[Hook]
<1>0. PICK c, s, p : c = W.buyer /\ s = StatusOf(W.result) /\ p = W.seen.pay
  OBVIOUS
<1> DEFINE new == [status |-> s, pay |-> p]
<1>1. W.op = "reconcile" /\ W.pc = "save" /\ Hook \in Tasks /\ DOMAIN W = WorkFields /\ W # Idle
  BY TaskShapes DEF SaveStatus, On
<1>2. Save(c, Hook, new) /\ Begin(Hook, Idle) /\ UNCHANGED pays
  BY <1>0 DEF SaveStatus
<1>3. \A b : ~Touches(Idle, b)
  BY TaskShapes
<1>4. ASSUME c \in Buyers, Alone(c)'
      PROVE  /\ row'[c] \in RowType /\ row'[c].status \notin {"none", "expired"} /\ row'[c].pay # 0
             /\ row'[c].pay \in DOMAIN pays[c] /\ Stands(row'[c], pays[c][row'[c].pay])
             /\ <<c, "expired">> \notin past => Alive(c) \subseteq {row'[c].pay}
  <2> DEFINE R == row[c]  P == pays[c]
  <2>1. Touches(W, c)
    BY <1>0, <1>1 DEF Touches
  <2>2. /\ RowFits(c) /\ W.seen = R /\ Own(W, R, P) /\ row'[c] = new
        /\ \A u \in Tasks \ {Hook} : ~Touches(task[u], c)
    BY <1>0, <1>1, <1>2, <1>4, <2>1, SaverReads
  <2>3. /\ R.status \in {"active", "pending"} /\ Replied(W.result, R, P[R.pay]) /\ p = R.pay
        /\ R.pay \in DOMAIN P /\ R.pay # 0 /\ R \in RowType
    BY <1>0, <1>1, <2>2 DEF Own, RowFits
  <2>4. ~BeingSettled(c) /\ Unwritten(c) = {}
    BY <1>1, <2>2, TaskShapes DEF BeingSettled, Unwritten, On, Touches
  <2>5. Stands(R, P[R.pay])
    BY <2>2, <2>3, <2>4 DEF RowFits, State
  <2>6. s \in {"active", "failed"} /\ Stands(new, P[p])
    BY <1>0, <2>3, <2>5 DEF Replied, StatusOf, Stands
  <2>7. <<c, "expired">> \notin past => Alive(c) \subseteq {p}
    BY <2>2, <2>3, <2>4 DEF RowFits
  <2> QED  BY <2>2, <2>3, <2>6, <2>7 DEF RowType, RowStates
<1> HIDE DEF new
<1> QED  BY <1>0, <1>1, <1>2, <1>3, <1>4, RowSaves

\* The scheduler, and the end of a remate, list rows that are active.
LEMMA ListsRow ==
    ASSUME RowInv, ChargeTypes, UNCHANGED <<plan, faults, row, pays, past>>, faults = 0,
           NEW t \in Tasks, task[t] = Idle, NEW op \in {"release", "expire"}, NEW pc,
           NEW B, \A b \in B : row[b].status = "active",
           Begin(t, [Work(op, pc, NoBuyer, NoRow) EXCEPT !.rest = {<<b, row[b].pay>> : b \in B}])
    PROVE  RowInv'
<1> DEFINE w == [Work(op, pc, NoBuyer, NoRow) EXCEPT !.rest = {<<b, row[b].pay>> : b \in B}]
<1>1. /\ DOMAIN w = WorkFields /\ w.buyer = NoBuyer /\ w.rest = {<<b, row[b].pay>> : b \in B}
  BY DEF Work, WorkFields
<1>2. \A b \in Buyers : ~Saving(task[t], b)
  BY TaskShapes DEF Saving
<1> HIDE DEF w
<1>3. ASSUME NEW b \in Buyers PROVE Reads(w, b, row[b], pays[b])
  BY <1>1, TaskShapes DEF Reads
<1> QED  BY <1>1, <1>2, <1>3, TaskMoves DEF w

LEMMA ListOverdueRow ==
    ASSUME RowInv, ChargeTypes, UNCHANGED <<plan, faults>>, faults = 0, ListOverdue
    PROVE  RowInv'
<1>1. /\ Begin(Clock, [Work("expire", "save", NoBuyer, NoRow) EXCEPT !.rest = {<<b, row[b].pay>> : b \in Overdue}])
      /\ task[Clock] = Idle /\ UNCHANGED <<row, pays, past>> /\ Clock \in Tasks
  BY TaskShapes DEF ListOverdue
<1>2. \A b \in Overdue : row[b].status = "active"
  BY DEF Overdue
<1> QED  BY <1>1, <1>2, ListsRow

LEMMA ExpireRow ==
    ASSUME RowInv, ChargeTypes, UNCHANGED <<plan, faults>>, faults = 0, Expire
    PROVE  RowInv'
<1> DEFINE W == task[Clock]
<1>0. PICK B : B = {x[1] : x \in W.rest}
  OBVIOUS
<1>1. /\ W.op = "expire" /\ W.pc = "save" /\ Clock \in Tasks /\ W # Idle /\ DOMAIN W = WorkFields
      /\ row' = [b \in Buyers |-> IF b \in B THEN [row[b] EXCEPT !.status = "expired"] ELSE row[b]]
      /\ past' = past \cup Overlaps(B, Clock) \cup {<<b, "expired">> : b \in B}
      /\ Begin(Clock, Idle) /\ UNCHANGED pays
  BY <1>0, TaskShapes DEF Expire, On
<1>2. /\ \A u \in Tasks \ {Clock} : task'[u] = task[u]
      /\ task'[Clock] = Idle /\ Tasks' = Tasks
  BY <1>1 DEF Begin, ChargeTypes, Tasks, Replicas
<1>3. Shaped'
  BY <1>1, <1>2 DEF RowInv, Shaped
<1>4. ASSUME NEW b \in Buyers, b \in B, Alone(b)' PROVE RowFits(b)' /\ Current(b)'
  <2> DEFINE R == row[b]  P == pays[b]
  <2>1. Alone(b) /\ \A u \in Tasks \ {Clock} : ~Touches(task[u], b)
    BY <1>1, <1>4, SavesAlone
  <2>2. RowFits(b) /\ Current(b)
    BY <2>1 DEF RowInv
  <2>3. Touches(W, b)
    BY <1>0, <1>1, <1>4 DEF Touches
  <2>4. R.status = "active" /\ R \in RowType /\ R.pay # 0 /\ R.pay \in DOMAIN P
    BY <1>0, <1>1, <1>4, <2>2, <2>3 DEF Current, Reads, RowFits
  <2>5. ~BeingSettled(b) /\ Unwritten(b) = {}
    BY <1>1, <2>1, TaskShapes DEF BeingSettled, Unwritten, On, Touches
  <2>6. P[R.pay] \in {"authorized", "cancelled"}
    BY <2>2, <2>4, <2>5 DEF RowFits, Stands, State
  <2>7. /\ row'[b] \in RowType /\ row'[b].status = "expired" /\ row'[b].pay = R.pay
        /\ <<b, "expired">> \in past'
    BY <1>1, <1>4, <2>4 DEF RowType, RowStates
  <2>8. Stands(row'[b], P[row'[b].pay])
    BY <2>6, <2>7 DEF Stands
  <2>9. ~Touches(task'[Clock], b)
    BY <1>2, TaskShapes
  <2> QED  BY <1>1, <1>2, <2>1, <2>4, <2>7, <2>8, <2>9, FitSaved
<1>5. ASSUME NEW b \in Buyers, b \notin B, Alone(b)' PROVE RowFits(b)' /\ Current(b)'
  <2>1. RowFits(b) /\ Current(b)
    BY <1>1, <1>5 DEF RowInv, Alone
  <2>2. Evolves(pays[b], pays'[b], row[b]) /\ row'[b] = row[b] /\ pays'[b] = pays[b]
    BY <1>1, <1>5, SamePays
  <2>3. ~Saving(W, b) /\ past \subseteq past'
    BY <1>1 DEF Saving
  <2>4. ~Touches(task'[Clock], b)
    BY <1>2, TaskShapes
  <2> QED  BY <1>1, <1>2, <2>1, <2>2, <2>3, <2>4, FitStays
<1> QED  BY <1>1, <1>3, <1>4, <1>5 DEF RowInv

\* A consumer takes an event: it reads the row of a case, or lists those that are active.
LEMMA TakesRow ==
    ASSUME RowInv, ChargeTypes, UNCHANGED <<plan, faults>>, faults = 0, NEW r \in Replicas,
           TakeCase(r) \/ TakeEnd(r)
    PROVE  RowInv'
<1>1. task[r] = Idle /\ r \in Tasks /\ UNCHANGED <<row, pays, past>>
  BY TaskShapes DEF TakeCase, TakeEnd, Takes
<1>2. CASE task' = task
  BY <1>1, <1>2, SameRow
<1>3. CASE \E c \in Active : Begin(r, Work("capture", "call", c, row[c]))
  <2>1. PICK c \in Active : Begin(r, Work("capture", "call", c, row[c]))
    BY <1>3
  <2> DEFINE w == Work("capture", "call", c, row[c])
  <2>2. /\ DOMAIN w = WorkFields /\ w.op = "capture" /\ w.pc = "call" /\ w.buyer = c
        /\ w.seen = row[c] /\ w.rest = {}
    BY DEF Work, WorkFields
  <2>3. \A b \in Buyers : ~Saving(task[r], b)
    BY <1>1, TaskShapes DEF Saving
  <2> HIDE DEF w
  <2>4. ASSUME NEW b \in Buyers, Touches(w, b) PROVE Reads(w, b, row[b], pays[b])
    BY <2>1, <2>2, <2>4 DEF Touches, Reads, Own, Active
  <2> QED  BY <1>1, <2>1, <2>2, <2>3, <2>4, TaskMoves DEF w
<1>4. CASE Begin(r, [Work("release", "call", NoBuyer, NoRow) EXCEPT !.rest = {<<b, row[b].pay>> : b \in Active}])
  <2>1. \A b \in Active : row[b].status = "active"
    BY DEF Active
  <2> QED  BY <1>1, <1>4, <2>1, ListsRow
<1>5. CASE TakeCase(r)
  BY <1>2, <1>3, <1>5 DEF TakeCase, Begin
<1>6. CASE TakeEnd(r)
  BY <1>2, <1>4, <1>6 DEF TakeEnd, Begin
<1> QED  BY <1>5, <1>6

\* Mercado Pago settles the payment of the row a consumer read.
LEMMA SettlesRow ==
    ASSUME RowInv, ChargeTypes, UNCHANGED <<plan, faults, row, past>>, faults = 0,
           NEW r \in Replicas, task[r].pc = "call", NEW c, NEW n,
           NEW to \in {"approved", "cancelled"}, Settles(c, n, to), Settled(r, c, n),
           task[r].op = IF to = "approved" THEN "capture" ELSE "release",
           \/ to = "approved" /\ task[r].buyer = c /\ task[r].seen.pay = n
           \/ to = "cancelled" /\ \E x \in task[r].rest : x[1] = c /\ x[2] = n
    PROVE  RowInv'
<1> DEFINE W == task[r]
           w == [W EXCEPT !.pc = "save", !.buyer = c, !.seen = [status |-> "active", pay |-> n],
                          !.rest = @ \ {<<c, n>>}]
<1>1. r \in Tasks /\ DOMAIN W = WorkFields /\ W # Idle /\ \A b \in Buyers : ~Saving(W, b)
  BY TaskShapes DEF Saving
<1>2. /\ DOMAIN w = WorkFields /\ w.op = W.op /\ w.pc = "save" /\ w.buyer = c
      /\ w.seen = [status |-> "active", pay |-> n] /\ w.rest = W.rest \ {<<c, n>>}
  BY <1>1 DEF WorkFields
<1>3. Begin(r, w) /\ task'[r] = w /\ r \in Replicas'
  BY <1>1 DEF Settled, Begin, ChargeTypes, Replicas
<1>4. pays[c][n] = "authorized" /\ pays' = [pays EXCEPT ![c][n] = to]
  BY DEF Settles
<1> HIDE DEF w
<1>5. ASSUME NEW b \in Buyers, RowFits(b), Current(b)
      PROVE  /\ Touches(w, b) => Reads(w, b, row[b], pays'[b])
             /\ Evolves(pays[b], pays'[b], row[b])
             /\ row[b].pay \in DOMAIN pays[b] /\ pays[b][row[b].pay] = "authorized"
                  /\ pays'[b][row[b].pay] = "approved" => BeingSettled(b)'
             /\ \A m \in DOMAIN pays'[b] \ DOMAIN pays[b] : m \in Unwritten(b)'
  <2> DEFINE R == row[b]  P == pays[b]  Q == pays'[b]
  <2>0. pays \in [Buyers -> Seq(PayStates)] /\ P \in Seq(PayStates) /\ R \in RowType
    BY <1>5 DEF ChargeTypes, RowFits
  <2>1. Touches(W, b) => Reads(W, b, R, P)
    BY <1>1, <1>5 DEF Current
  <2>2. CASE b = c
    <3>1. /\ Touches(W, b) /\ R.status = "active" /\ R.pay = n
          /\ \A x \in W.rest : x[1] = b => x = <<b, n>> /\ W.buyer # b
      BY <1>1, <2>1, <2>2 DEF Touches, Reads, Own
    <3>2. Q = [P EXCEPT ![n] = to]
      BY <1>4, <2>0, <2>2
    <3>3. n \in DOMAIN P
      BY <1>5, <3>1 DEF RowFits
    <3>4. /\ DOMAIN Q = DOMAIN P /\ Q[n] = to /\ \A m \in DOMAIN P : m # n => Q[m] = P[m]
      BY <2>0, <3>2, <3>3
    <3>5. Evolves(P, Q, R)
      BY <1>4, <2>2, <3>1, <3>4 DEF Evolves
    <3>6. w.seen = R
      BY <1>2, <2>0, <3>1 DEF RowType
    <3>7. Own(w, R, Q)
      BY <1>2, <3>1, <3>4 DEF Own
    <3>8. \A x \in w.rest : x[1] # b
      BY <1>2, <2>2, <3>1
    <3>9. BeingSettled(b)'
      <4>1. task'[r].op \in {"capture", "release"} /\ task'[r].pc = "save" /\ task'[r].buyer = b
        BY <1>2, <1>3, <2>2
      <4>2. task'[r].seen.pay = row'[b].pay
        BY <1>2, <1>3, <3>1
      <4> QED  BY <1>3, <4>1, <4>2 DEF BeingSettled
    <3> QED  BY <3>4, <3>5, <3>6, <3>7, <3>8, <3>9 DEF Reads
  <2>3. CASE b # c
    <3>1. Q = P
      BY <1>4, <2>0, <2>3
    <3>2. Touches(w, b) => Touches(W, b)
      BY <1>1, <1>2, <2>3 DEF Touches
    <3>3. Touches(w, b) => Reads(w, b, R, Q)
      BY <1>2, <2>1, <2>3, <3>2 DEF Reads
    <3> QED  BY <3>1, <3>3, SamePays
  <2> QED  BY <2>2, <2>3
<1> QED  BY <1>1, <1>2, <1>3, <1>5, RowStays DEF Begin

LEMMA CallsRow ==
    ASSUME RowInv, ChargeTypes, UNCHANGED <<plan, faults>>, faults = 0, NEW r \in Replicas,
           CallCapture(r) \/ CallCancel(r)
    PROVE  RowInv'
<1>1. task[r].pc = "call" /\ UNCHANGED <<row, past>> /\ r \in Tasks /\ \A b \in Buyers : ~Saving(task[r], b)
  BY TaskShapes DEF CallCapture, CallCancel, On, Saving
<1>2. CASE UNCHANGED pays /\ Begin(r, Idle)
  BY <1>1, <1>2, TaskShapes, TaskMoves
<1>3. CASE CallCapture(r)
  <2>1. PICK c, n : c = task[r].buyer /\ n = task[r].seen.pay
    OBVIOUS
  <2>2. task[r].op = "capture" /\ ((Settles(c, n, "approved") /\ Settled(r, c, n)) \/ Refused(r, c, n))
    BY <1>3, <2>1 DEF CallCapture, On, Captures
  <2>3. CASE Settles(c, n, "approved") /\ Settled(r, c, n)
    BY <1>1, <2>1, <2>2, <2>3, SettlesRow
  <2> QED  BY <1>2, <2>2, <2>3 DEF Refused
<1>4. CASE CallCancel(r)
  <2>1. PICK x \in task[r].rest : (Cancels(x[1], x[2]) /\ Settled(r, x[1], x[2])) \/ Refused(r, x[1], x[2])
    BY <1>4 DEF CallCancel
  <2>2. PICK c, n : c = x[1] /\ n = x[2]
    OBVIOUS
  <2>3. task[r].op = "release" /\ ((Settles(c, n, "cancelled") /\ Settled(r, c, n)) \/ Refused(r, c, n))
    BY <1>4, <2>1, <2>2 DEF CallCancel, On, Cancels
  <2>4. CASE Settles(c, n, "cancelled") /\ Settled(r, c, n)
    BY <1>1, <2>2, <2>3, <2>4, SettlesRow
  <2> QED  BY <1>2, <2>3, <2>4 DEF Refused
<1> QED  BY <1>3, <1>4

\* What a consumer settled, it writes, and goes on with the others.
LEMMA SettledRow ==
    ASSUME RowInv, ChargeTypes, UNCHANGED <<plan, faults>>, faults = 0, NEW r \in Replicas,
           SaveCapture(r) \/ SaveRelease(r)
    PROVE  RowInv'
<1> DEFINE W == task[r]
<1>1. /\ W.op \in {"capture", "release"} /\ W.pc = "save" /\ r \in Tasks /\ DOMAIN W = WorkFields
      /\ W # Idle /\ UNCHANGED pays
  BY TaskShapes DEF SaveCapture, SaveRelease, On
<1>2. PICK c, s, w :
        /\ c = W.buyer /\ s = IF W.op = "capture" THEN "captured" ELSE "released"
        /\ Save(c, r, [W.seen EXCEPT !.status = s]) /\ Begin(r, w)
        /\ \/ w = Idle
           \/ DOMAIN w = WorkFields /\ w.buyer = NoBuyer /\ w.rest = W.rest
  <2> DEFINE wc == [W EXCEPT !.pc = "call", !.buyer = NoBuyer]
  <2>1. DOMAIN wc = WorkFields /\ wc.buyer = NoBuyer /\ wc.rest = W.rest
    BY <1>1 DEF WorkFields
  <2>2. Begin(r, Idle) \/ Begin(r, wc)
    BY DEF SaveCapture, SaveRelease
  <2>3. Save(W.buyer, r, [W.seen EXCEPT !.status = IF W.op = "capture" THEN "captured" ELSE "released"])
    BY DEF SaveCapture, SaveRelease, On
  <2> HIDE DEF wc
  <2> QED  BY <2>1, <2>2, <2>3
<1>3. ASSUME c \in Buyers, Alone(c)'
      PROVE  /\ ~Touches(w, c)
             /\ row'[c] \in RowType /\ row'[c].status \notin {"none", "expired"} /\ row'[c].pay # 0
             /\ row'[c].pay \in DOMAIN pays[c] /\ Stands(row'[c], pays[c][row'[c].pay])
             /\ <<c, "expired">> \notin past => Alive(c) \subseteq {row'[c].pay}
  <2> DEFINE R == row[c]  P == pays[c]
  <2>1. Touches(W, c)
    BY <1>1, <1>2 DEF Touches
  <2>2. PICK p : p = R.pay
    OBVIOUS
  <2>3. Alone(c) /\ RowFits(c) /\ Current(c)
    <3>1. past' = past \cup Overlaps({c}, r)
      BY <1>2 DEF Save
    <3>2. Alone(c)
      BY <1>3, <3>1 DEF Alone
    <3> QED  BY <1>3, <3>2 DEF RowInv
  <2>4. W.seen = R /\ R \in RowType
    BY <1>1, <1>2, <2>1, <2>3 DEF Current, Reads, RowFits
  <2>5. [W.seen EXCEPT !.status = s] = [status |-> s, pay |-> p]
    BY <2>2, <2>4 DEF RowType
  <2>6. /\ Own(W, R, P) /\ row'[c] = [status |-> s, pay |-> p]
        /\ \A x \in W.rest : x[1] # c
        /\ \A u \in Tasks \ {r} : ~Touches(task[u], c)
    BY <1>1, <1>2, <1>3, <2>1, <2>5, SaverReads
  <2>7. /\ R.status = "active" /\ P[p] = IF W.op = "capture" THEN "approved" ELSE "cancelled"
        /\ p # 0 /\ p \in Nat /\ p \in DOMAIN P
    BY <1>1, <2>2, <2>3, <2>4, <2>6 DEF Own, RowFits, RowType
  <2>8. ~Touches(w, c)
    BY <1>2, <1>3, <2>6, TaskShapes DEF Touches
  <2>9. Unwritten(c) = {}
    BY <1>1, <2>6, TaskShapes DEF Unwritten, On, Touches
  <2>10. <<c, "expired">> \notin past => Alive(c) \subseteq {p}
    BY <2>2, <2>3, <2>9 DEF RowFits
  <2>11. s \in {"captured", "released"} /\ Stands(row'[c], P[p])
    BY <1>1, <1>2, <2>6, <2>7 DEF Stands
  <2> QED  BY <2>6, <2>7, <2>8, <2>10, <2>11 DEF RowType, RowStates
<1>4. ASSUME NEW b \in Buyers \ {c}, Touches(w, b)
      PROVE  Touches(W, b) /\ w.buyer # b /\ w.rest = W.rest
  <2>1. w # Idle /\ w.buyer = NoBuyer /\ w.rest = W.rest
    BY <1>2, <1>4, TaskShapes
  <2> QED  BY <1>1, <1>4, <2>1, TaskShapes DEF Touches
<1> QED  BY <1>1, <1>2, <1>3, <1>4, RowSaves

\* The tab that asked is told.
LEMMA ToldRow ==
    ASSUME RowInv, ChargeTypes, UNCHANGED <<plan, faults>>, faults = 0, NEW t \in Tasks, TabIsTold(t)
    PROVE  RowInv'
<1>1. /\ UNCHANGED <<row, pays, past>> /\ Begin(t, Idle) /\ \A b \in Buyers : ~Saving(task[t], b)
  BY DEF TabIsTold, On, Saving
<1> QED  BY <1>1, TaskShapes, TaskMoves

LEMMA HoldRow ==
    ASSUME RowInv, ChargeTypes, UNCHANGED <<plan, faults>>, faults = 0, GarantiaStep
    PROVE  RowInv'
<1>1. ASSUME NEW t \in Requests, FlushHold(t) \/ CallHold(t) \/ SaveHold(t) PROVE RowInv'
  BY <1>1, FlushRow, CallRow, SaveRow
<1>2. ASSUME NEW b \in Buyers, Age(b) PROVE RowInv'
  BY <1>2, SameRow DEF Age
<1>3. ASSUME NEW b \in Buyers, NEW n \in DOMAIN pays[b], Decide(b, n) \/ Lapse(b, n) \/ Notify(b, n)
      PROVE  RowInv'
  BY <1>3, MovesRow, NotifyRow
<1>4. CASE AskStatus \/ SaveStatus \/ ListOverdue \/ Expire
  BY <1>4, AskStatusRow, SaveStatusRow, ListOverdueRow, ExpireRow
<1>5. ASSUME NEW r \in Replicas, TakeCase(r) \/ TakeEnd(r) \/ CallCapture(r) \/ CallCancel(r)
                                   \/ SaveCapture(r) \/ SaveRelease(r)
      PROVE  RowInv'
  BY <1>5, TakesRow, CallsRow, SettledRow
<1> QED  BY <1>1, <1>2, <1>3, <1>4, <1>5 DEF GarantiaStep

\* Once something failed nothing is said of the rows.
LEMMA FaultRow ==
    ASSUME RowInv, \/ faults' = faults + 1
                   \/ UNCHANGED faults /\ faults # 0
    PROVE  RowInv'
<1>1. faults' \in Nat /\ faults' # 0
  BY DEF RowInv
<1> QED  BY <1>1 DEF RowInv, Alone

LEMMA StepOrFault ==
    ASSUME [Next]_vars
    PROVE  (UNCHANGED <<plan, faults>>) \/ faults' = faults + 1
<1>1. CASE OnTheCase
  BY <1>1 DEF OnTheCase, PostAuctionStep, Sell, OpenDesk, LookForCase, OpenCase, LoseSale, Colleague,
     ReadCase, StoreFile, CommitChange, RemoveFile, BreakRequest, ColleagueIsTold, Confirm, SendFromDesk,
     Answered, ServeLoad, LoadArrives, LoadFails, PickTarget, RetryLoad, CloseDialog, Fault
<1>2. CASE OnTheHold
  BY <1>2 DEF OnTheHold, GarantiaStep, GarantiaFault, CallHoldFails, LoseEvent, SettleFails, Die, Fault
<1>3. ASSUME NEW f \in flights, PollFails(f) /\ UNCHANGED plan
      PROVE  faults' = faults + 1
  BY <1>3 DEF PollFails, Fault
<1> QED  BY <1>1, <1>2, <1>3 DEF Next, vars, Shared, OtherTab, RoomAsks, RoomIsAnswered, InTheRoom

LEMMA RowStep == RowInv /\ ChargeInv /\ [Next]_vars => RowInv'
<1> SUFFICES ASSUME RowInv, ChargeTypes, [Next]_vars PROVE RowInv'
  BY DEF ChargeInv
<1>1. CASE faults' = faults + 1 \/ (UNCHANGED faults /\ faults # 0)
  BY <1>1, FaultRow
<1>2. CASE faults = 0 /\ UNCHANGED <<plan, faults>>
  <2>1. CASE UNCHANGED hold
    BY <1>2, <2>1, SameRow DEF hold
  <2>2. CASE Shared
    <3>1. UNCHANGED <<row, pays, task, past>>
      BY <2>2 DEF Shared, Announce, EndRemate
    <3> QED  BY <1>2, <3>1, SameRow
  <2>3. CASE GarantiaStep
    BY <1>2, <2>3, HoldRow
  <2>4. CASE GarantiaFault
    <3>1. faults' = faults + 1
      BY <2>4 DEF GarantiaFault, CallHoldFails, LoseEvent, SettleFails, Die, Fault
    <3> QED  BY <3>1, FaultRow
  <2>5. CASE \E t, b : AskHold(t, b)
    BY <1>2, <2>5, AskRow
  <2>6. ASSUME NEW t, TabIsTold(t) PROVE RowInv'
    <3>1. CASE t \in Tasks
      BY <1>2, <2>6, <3>1, ToldRow
    <3>2. CASE t \notin Tasks
      <4>1. UNCHANGED <<row, pays, past>> /\ \A u \in Tasks : task'[u] = task[u]
        BY <2>6, <3>2 DEF TabIsTold, Begin, ChargeTypes
      <4> QED  BY <1>2, <4>1, SameRow
    <3> QED  BY <3>1, <3>2
  <2>7. CASE Next
    BY <2>1, <2>2, <2>3, <2>4, <2>5, <2>6, <2>7
       DEF Next, OnTheCase, OnTheHold, OtherTab, RoomAsks, RoomIsAnswered, InTheRoom
  <2> QED  BY <2>1, <2>7 DEF vars
<1> QED  BY <1>1, <1>2, StepOrFault

\* At first a row names the one payment that was made for it.
LEMMA RowInit == Init => RowInv
<1> SUFFICES ASSUME Init PROVE RowInv
  OBVIOUS
<1>1. plan.start \in [Buyers -> {"none", "active", "failed"}] /\ Idle.op = "idle"
  BY PlansAssumption DEF Init, Plan, Idle
<1>2. Shaped /\ faults = 0
  BY DEF Init, Shaped
<1>3. ASSUME NEW b \in Buyers PROVE RowFits(b) /\ Current(b)
  <2>1. Current(b)
    BY DEF Init, Current, Touches
  <2>2. PICK s \in {"none", "active", "failed"} : s = plan.start[b]
    BY <1>1
  <2>3. /\ row[b] = IF s = "none" THEN NoRow ELSE [status |-> s, pay |-> 1]
        /\ pays[b] = CASE s = "none" -> <<>> [] s = "active" -> <<"authorized">> [] s = "failed" -> <<"rejected">>
    BY <2>2 DEF Init
  <2>4. \/ row[b] = NoRow /\ pays[b] = <<>>
        \/ row[b] = [status |-> "active", pay |-> 1] /\ pays[b] = <<"authorized">>
        \/ row[b] = [status |-> "failed", pay |-> 1] /\ pays[b] = <<"rejected">>
    BY <2>3
  <2>5. /\ row[b] \in RowType /\ (row[b].pay = 0 <=> row[b].status = "none")
        /\ row[b].pay # 0 => row[b].pay \in DOMAIN pays[b]
        /\ Stands(row[b], State(row[b], pays[b]))
        /\ row[b].status # "expired"
    BY <2>4 DEF RowType, RowStates, NoRow, Stands, State
  <2>6. Alive(b) \subseteq {row[b].pay}
    BY <2>4 DEF Alive
  <2> QED  BY <2>1, <2>5, <2>6 DEF RowFits
<1> QED  BY <1>2, <1>3 DEF RowInv

\* For every set of buyers, replicas and requests: while nothing fails and nobody writes a
\* row that another had read, a row tells what became of the payment it names, and unless
\* the scheduler expired it no other payment of its buyer is held.
THEOREM RowsAlwaysTell == Spec => []RowTellsThePayment
<1>1. RowInv => RowTellsThePayment
  <2> SUFFICES ASSUME RowInv, NEW b \in Buyers, Alone(b)
               PROVE  /\ BeingSettled(b) \/ State(row[b], pays[b]) \in
                           [none |-> {"none"}, active |-> {"authorized", "cancelled"},
                            pending |-> {"pending", "authorized", "cancelled", "rejected"},
                            captured |-> {"approved"}, released |-> {"cancelled"},
                            expired |-> {"authorized", "cancelled"},
                            failed |-> {"rejected", "cancelled"}][row[b].status]
                      /\ <<b, "expired">> \notin past => Alive(b) \subseteq {row[b].pay} \cup Unwritten(b)
    BY DEF RowTellsThePayment, Alone, State
  <2>1. RowFits(b)
    BY DEF RowInv
  <2>2. row[b].status \in RowStates
    BY <2>1 DEF RowFits, RowType
  <2> QED  BY <2>1, <2>2 DEF RowFits, Stands, RowStates
<1> QED  BY <1>1, RowInit, RowStep, ChargeInit, ChargeStep, PostInvariant, PTL DEF Spec

------------------------------------------------------------------------------
(* The guarantee a buyer bid with, while it is his only payment.            *)

BidWith(b) == plan.start[b] = "active" /\ faults = 0 /\ Len(pays[b]) <= 1
Held(b)    == BidWith(b) /\ pays[b][1] = "authorized"

Names(R) == R = [status |-> R.status, pay |-> 1]

\* Whoever works on it knows it by its number, and no request has made another.
KnowsOne(w, b) ==
    w # Idle =>
      /\ w.buyer = b /\ w.pc # "done" => IF w.op = "create" THEN w.pc # "save" ELSE Names(w.seen)
      /\ \A x \in w.rest : x[1] = b => x[2] = 1

\* While it is held nobody has anything to write about it but the scheduler.
KnowsHeld(w, b) ==
    w # Idle /\ w.buyer = b /\ w.op # "create" => w.pc = "call" /\ w.seen.status = "active"

OnlyFits(b) == /\ Len(pays[b]) = 1 /\ pays[b][1] # "pending" /\ Names(row[b])
               /\ \A t \in Tasks : KnowsOne(task[t], b)
HeldFits(b) == row[b].status \in {"active", "expired"} /\ \A t \in Tasks : KnowsHeld(task[t], b)

\* Replica r does not release it: the case of `b` waits, is being handled, or was handled
\* when the guarantee had expired, which it still is.
Lists(w, b)    == w # Idle /\ \E x \in w.rest : x[1] = b
Prevents(r, b) == InQueue(r, b) \/ Capturing(r, b) \/ (row[b].status = "expired" /\ ~Lists(task[r], b))

WinInv == \A b \in Buyers :
            /\ BidWith(b) => OnlyFits(b)
            /\ Held(b) => HeldFits(b) /\ (Unannounced(b) \/ \A r \in Replicas : Prevents(r, b))

\* Task t goes on with w, and the guarantee of `b` is still what it was.
GoesOn(b, t, w) ==
    /\ Len(pays'[b]) = 1 /\ pays'[b][1] # "pending" /\ Names(row'[b]) /\ KnowsOne(w, b)
    /\ Held(b)' => pays[b][1] = "authorized"
    /\ Held(b)' /\ HeldFits(b) =>
         /\ row'[b].status \in {row[b].status, "expired"} /\ KnowsHeld(w, b)
         /\ t \in Replicas /\ Prevents(t, b) => Prevents(t, b)'

\* A step of task t that takes nothing back.
LEMMA WinMoves ==
    ASSUME WinInv, ChargeTypes, UNCHANGED <<plan, faults, cases, opening>>,
           NEW t \in Tasks, NEW w, task' = [task EXCEPT ![t] = w],
           \A q \in Replicas \ {t} : queue'[q] = queue[q],
           \A b \in Buyers : Len(pays'[b]) <= 1 => Len(pays[b]) <= 1,
           \A b \in Buyers : BidWith(b)' /\ OnlyFits(b) => GoesOn(b, t, w)
    PROVE  WinInv'
<1>1. /\ \A u \in Tasks \ {t} : task'[u] = task[u]
      /\ task'[t] = w /\ Tasks' = Tasks /\ Replicas' = Replicas /\ Replicas \subseteq Tasks
  BY DEF ChargeTypes, Tasks, Replicas
<1>2. ASSUME NEW b \in Buyers, BidWith(b)' PROVE OnlyFits(b) /\ OnlyFits(b)'
  <2>1. OnlyFits(b)
    BY <1>2 DEF BidWith, WinInv
  <2>2. Len(pays'[b]) = 1 /\ pays'[b][1] # "pending" /\ Names(row'[b]) /\ KnowsOne(w, b)
    BY <1>2, <2>1 DEF GoesOn
  <2>3. \A u \in Tasks : KnowsOne(task'[u], b)
    BY <1>1, <2>1, <2>2 DEF OnlyFits
  <2> QED  BY <1>1, <2>1, <2>2, <2>3 DEF OnlyFits
<1>3. ASSUME NEW b \in Buyers, Held(b)'
      PROVE  HeldFits(b)' /\ (Unannounced(b)' \/ \A r \in Replicas : Prevents(r, b)')
  <2>1. BidWith(b)' /\ OnlyFits(b)
    BY <1>2, <1>3 DEF Held
  <2>2. Held(b) /\ HeldFits(b)
    BY <1>3, <2>1 DEF Held, BidWith, WinInv, OnlyFits, GoesOn
  <2>3. /\ row'[b].status \in {row[b].status, "expired"} /\ KnowsHeld(w, b)
        /\ t \in Replicas /\ Prevents(t, b) => Prevents(t, b)'
    BY <1>3, <2>1, <2>2 DEF GoesOn
  <2>4. HeldFits(b)'
    <3>1. \A u \in Tasks : KnowsHeld(task'[u], b)
      BY <1>1, <2>2, <2>3 DEF HeldFits
    <3> QED  BY <1>1, <2>2, <2>3, <3>1 DEF HeldFits
  <2>5. Unannounced(b) => Unannounced(b)'
    BY <1>1 DEF Unannounced
  <2>6. ASSUME NEW r \in Replicas, Prevents(r, b) PROVE Prevents(r, b)'
    <3>1. CASE r = t
      BY <2>3, <2>6, <3>1
    <3>2. CASE r # t
      BY <1>1, <2>3, <2>6, <3>2 DEF Prevents, InQueue, Capturing, On
    <3> QED  BY <3>1, <3>2
  <2> QED  BY <2>2, <2>4, <2>5, <2>6 DEF WinInv
<1> QED  BY <1>1, <1>2, <1>3 DEF WinInv

\* One that leaves rows and payments alone.
LEMMA WinTask ==
    ASSUME WinInv, ChargeTypes, UNCHANGED <<plan, faults, cases, opening, row, pays>>,
           NEW t \in Tasks, NEW w, Begin(t, w),
           \A q \in Replicas \ {t} : queue'[q] = queue[q],
           \A b \in Buyers : OnlyFits(b) =>
             /\ KnowsOne(w, b)
             /\ Held(b) /\ HeldFits(b) =>
                  /\ KnowsHeld(w, b)
                  /\ t \in Replicas /\ Prevents(t, b) => Prevents(t, b)'
    PROVE  WinInv'
<1>1. ASSUME NEW b \in Buyers, BidWith(b)', OnlyFits(b)
      PROVE  GoesOn(b, t, w)
  BY <1>1 DEF OnlyFits, Held, BidWith, GoesOn
<1> QED  BY <1>1, WinMoves DEF Begin

LEMMA AskWin ==
    ASSUME WinInv, ChargeTypes, RowInv, faults = 0, UNCHANGED <<plan, faults, cases, opening>>,
           NEW t, NEW c, AskHold(t, c)
    PROVE  WinInv'
<1> DEFINE w == Work("create", "flush", c, row[c])
<1>1. UNCHANGED <<row, pays, queue>> /\ Begin(t, w) /\ t \in Tasks /\ t \notin Replicas
  BY TaskShapes DEF AskHold
<1>2. w.op = "create" /\ w.pc = "flush" /\ w.rest = {}
  BY DEF Work
<1> HIDE DEF w
<1>3. \A b : KnowsOne(w, b) /\ KnowsHeld(w, b)
  BY <1>2 DEF KnowsOne, KnowsHeld
<1> QED  BY <1>1, <1>3, WinTask

LEMMA FlushWin ==
    ASSUME WinInv, ChargeTypes, RowInv, faults = 0, UNCHANGED <<plan, faults, cases, opening>>,
           NEW t \in Requests, FlushHold(t)
    PROVE  WinInv'
<1> DEFINE W == task[t]
<1>1. /\ W.op = "create" /\ DOMAIN W = WorkFields /\ W # Idle /\ t \in Tasks /\ t \notin Replicas
      /\ UNCHANGED <<row, pays, queue>>
  BY TaskShapes DEF FlushHold, On
<1>2. PICK w : Begin(t, w) /\ w.op = "create" /\ w.pc \in {"done", "call"} /\ w.rest = W.rest
  <2> DEFINE wd == [W EXCEPT !.pc = "done", !.result = row[W.buyer].status]
             wc == [W EXCEPT !.pc = "call"]
  <2>1. /\ wd.op = "create" /\ wd.pc = "done" /\ wd.rest = W.rest
        /\ wc.op = "create" /\ wc.pc = "call" /\ wc.rest = W.rest
    BY <1>1 DEF WorkFields
  <2>2. Begin(t, wd) \/ Begin(t, wc)
    BY DEF FlushHold
  <2> HIDE DEF wd, wc
  <2> QED  BY <2>1, <2>2
<1>3. \A b \in Buyers : OnlyFits(b) => KnowsOne(w, b) /\ KnowsHeld(w, b)
  BY <1>1, <1>2 DEF OnlyFits, KnowsOne, KnowsHeld
<1> QED  BY <1>1, <1>2, <1>3, WinTask

\* Another payment ends what is said.
LEMMA CallWin ==
    ASSUME WinInv, ChargeTypes, RowInv, faults = 0, UNCHANGED <<plan, faults, cases, opening>>,
           NEW t \in Requests, CallHold(t)
    PROVE  WinInv'
<1> DEFINE W == task[t]
<1>0. PICK c : c = W.buyer
  OBVIOUS
<1>1. /\ W.op = "create" /\ W.pc = "call" /\ DOMAIN W = WorkFields /\ W # Idle
      /\ t \in Tasks /\ t \notin Replicas /\ UNCHANGED <<row, queue>>
  BY TaskShapes DEF CallHold, On
<1>2. PICK result, w : /\ pays' = [pays EXCEPT ![c] = Append(@, result)] /\ Begin(t, w)
                       /\ w.op = "create" /\ w.buyer = c /\ w.rest = W.rest
  <2>1. PICK result : /\ pays' = [pays EXCEPT ![c] = Append(@, result)]
                      /\ Begin(t, [W EXCEPT !.pc = "save", !.result = result, !.pay = Len(pays[c]) + 1])
    BY <1>0 DEF CallHold
  <2> DEFINE w == [W EXCEPT !.pc = "save", !.result = result, !.pay = Len(pays[c]) + 1]
  <2>2. w.op = "create" /\ w.buyer = c /\ w.rest = W.rest
    BY <1>0, <1>1 DEF WorkFields
  <2> HIDE DEF w
  <2> QED  BY <2>1, <2>2 DEF w
<1>3. ASSUME NEW b \in Buyers
      PROVE  /\ Len(pays[b]) \in Nat
             /\ IF b = c THEN Len(pays'[b]) = Len(pays[b]) + 1 ELSE pays'[b] = pays[b]
  <2>1. pays \in [Buyers -> Seq(PayStates)] /\ pays[b] \in Seq(PayStates)
    BY DEF ChargeTypes
  <2> QED  BY <1>2, <2>1
<1>4. ASSUME NEW b \in Buyers, BidWith(b)', OnlyFits(b)
      PROVE  GoesOn(b, t, w)
  <2>1. b # c /\ pays'[b] = pays[b]
    BY <1>3, <1>4 DEF BidWith, OnlyFits
  <2>2. KnowsOne(w, b) /\ KnowsHeld(w, b)
    BY <1>1, <1>2, <1>4, <2>1 DEF OnlyFits, KnowsOne, KnowsHeld
  <2> QED  BY <1>1, <1>4, <2>1, <2>2 DEF OnlyFits, Held, GoesOn
<1>5. \A b \in Buyers : Len(pays'[b]) <= 1 => Len(pays[b]) <= 1
  BY <1>3
<1> QED  BY <1>1, <1>2, <1>4, <1>5, WinMoves DEF Begin

\* Nothing changes that is spoken of.
LEMMA SameWin ==
    ASSUME WinInv, UNCHANGED <<plan, faults, pays, row, queue, cases, opening>>,
           \A u \in Tasks : task'[u] = task[u]
    PROVE  WinInv'
<1>1. Tasks' = Tasks /\ Replicas' = Replicas /\ Replicas \subseteq Tasks
  BY DEF Tasks, Replicas
<1>2. ASSUME NEW b \in Buyers
      PROVE  /\ BidWith(b)' = BidWith(b) /\ Held(b)' = Held(b)
             /\ OnlyFits(b)' = OnlyFits(b) /\ HeldFits(b)' = HeldFits(b)
             /\ Unannounced(b)' = Unannounced(b) /\ \A r \in Replicas : Prevents(r, b)' = Prevents(r, b)
  <2>1. BidWith(b)' = BidWith(b) /\ Held(b)' = Held(b)
    BY DEF BidWith, Held
  <2>2. OnlyFits(b)' = OnlyFits(b) /\ HeldFits(b)' = HeldFits(b)
    BY <1>1 DEF OnlyFits, HeldFits
  <2>3. Unannounced(b)' = Unannounced(b) /\ \A r \in Replicas : Prevents(r, b)' = Prevents(r, b)
    BY <1>1 DEF Unannounced, Prevents, InQueue, Capturing, On
  <2> QED  BY <2>1, <2>2, <2>3
<1> QED  BY <1>1, <1>2 DEF WinInv

\* A payment that is held was neither decided nor did it run out.
LEMMA MovesWin ==
    ASSUME WinInv, ChargeTypes, RowInv, faults = 0, UNCHANGED <<plan, faults, cases, opening>>,
           NEW c \in Buyers, NEW n \in DOMAIN pays[c], Decide(c, n) \/ Lapse(c, n)
    PROVE  WinInv'
<1>1. /\ UNCHANGED <<row, task, queue>>
      /\ \E to : /\ pays' = [pays EXCEPT ![c][n] = to] /\ to # "pending"
                 /\ pays[c][n] = "pending" \/ to = "cancelled"
  BY DEF Decide, Lapse
<1>2. PICK to : /\ pays' = [pays EXCEPT ![c][n] = to] /\ to # "pending"
                /\ pays[c][n] = "pending" \/ to = "cancelled"
  BY <1>1
<1>3. ASSUME NEW b \in Buyers
      PROVE  /\ pays[b] \in Seq(PayStates) /\ Len(pays'[b]) = Len(pays[b])
             /\ pays'[b][1] = pays[b][1] \/ (1 = n /\ b = c /\ pays'[b][1] = to)
  <2>1. pays \in [Buyers -> Seq(PayStates)] /\ pays[b] \in Seq(PayStates)
    BY DEF ChargeTypes
  <2>2. pays'[b] = IF b = c THEN [pays[b] EXCEPT ![n] = to] ELSE pays[b]
    BY <1>2, <2>1
  <2>3. Len([pays[b] EXCEPT ![n] = to]) = Len(pays[b])
    BY <2>1
  <2>4. CASE b = c
    <3>1. pays'[b] = [pays[b] EXCEPT ![n] = to] /\ n \in DOMAIN pays[b]
      BY <2>2, <2>4
    <3>2. 1 = n \/ pays'[b][1] = pays[b][1]
      BY <2>1, <3>1
    <3>3. 1 = n => pays'[b][1] = to
      BY <2>1, <3>1
    <3> QED  BY <2>1, <2>3, <2>4, <3>1, <3>2, <3>3
  <2>5. CASE b # c
    BY <2>1, <2>2, <2>5
  <2> QED  BY <2>4, <2>5
<1>4. /\ Replicas' = Replicas /\ Tasks' = Tasks
      /\ \A b : Unannounced(b)' = Unannounced(b) /\ \A r \in Replicas : Prevents(r, b)' = Prevents(r, b)
  <2>1. Replicas' = Replicas /\ Tasks' = Tasks
    BY DEF Replicas, Tasks
  <2> QED  BY <1>1, <2>1 DEF Unannounced, Prevents, InQueue, Capturing, On
<1>5. ASSUME NEW b \in Buyers, BidWith(b)'
      PROVE  /\ BidWith(b) /\ OnlyFits(b) /\ OnlyFits(b)'
             /\ pays'[b][1] = "authorized" => pays[b][1] = "authorized"
  <2>1. BidWith(b) /\ OnlyFits(b)
    BY <1>3, <1>5 DEF BidWith, WinInv
  <2>2. pays'[b][1] = pays[b][1] \/ pays'[b][1] = "cancelled"
    BY <1>2, <1>3, <2>1 DEF OnlyFits
  <2>3. OnlyFits(b)'
    BY <1>1, <1>3, <1>4, <2>1, <2>2 DEF OnlyFits
  <2> QED  BY <2>1, <2>2, <2>3
<1>6. \A b : HeldFits(b)' = HeldFits(b)
  BY <1>1, <1>4 DEF HeldFits
<1> QED  BY <1>4, <1>5, <1>6 DEF WinInv, Held

\* A notification reads the row as it is.
LEMMA NotifyWin ==
    ASSUME WinInv, ChargeTypes, RowInv, faults = 0, UNCHANGED <<plan, faults, cases, opening>>,
           NEW c \in Buyers, NEW n \in DOMAIN pays[c], Notify(c, n)
    PROVE  WinInv'
<1> DEFINE w == Work("reconcile", "call", c, row[c])
<1>1. /\ UNCHANGED <<row, pays, queue>> /\ Begin(Hook, w) /\ Hook \in Tasks /\ Hook \notin Replicas
      /\ row[c].status \in {"active", "pending"}
  BY TaskShapes DEF Notify
<1>2. /\ w.op = "reconcile" /\ w.pc = "call" /\ w.buyer = c /\ w.seen = row[c] /\ w.rest = {}
  BY DEF Work
<1> HIDE DEF w
<1>3. \A b \in Buyers : OnlyFits(b) => KnowsOne(w, b)
  BY <1>2 DEF KnowsOne, OnlyFits
<1>4. \A b \in Buyers : HeldFits(b) => KnowsHeld(w, b)
  BY <1>1, <1>2 DEF KnowsHeld, HeldFits
<1> QED  BY <1>1, <1>3, <1>4, WinTask

\* What is held is not news.
LEMMA AskStatusWin ==
    ASSUME WinInv, ChargeTypes, RowInv, faults = 0, UNCHANGED <<plan, faults, cases, opening>>, AskStatus
    PROVE  WinInv'
<1> DEFINE W == task[Hook]  result == pays[W.buyer][W.seen.pay]
           ws == [W EXCEPT !.pc = "save", !.result = result]
<1>1. /\ W.op = "reconcile" /\ W.pc = "call" /\ Hook \in Tasks /\ DOMAIN W = WorkFields /\ W # Idle
      /\ Hook \notin Replicas /\ UNCHANGED <<row, pays, queue>>
  BY TaskShapes DEF AskStatus, On
<1>2. /\ ws.op = "reconcile" /\ ws.pc = "save" /\ ws.buyer = W.buyer
      /\ ws.seen = W.seen /\ ws.rest = W.rest
  BY <1>1 DEF WorkFields
<1>3. Begin(Hook, Idle) \/ (Begin(Hook, ws) /\ StatusOf(result) # W.seen.status)
  BY DEF AskStatus
<1> HIDE DEF ws
<1>4. CASE Begin(Hook, Idle)
  <2>1. \A b : KnowsOne(Idle, b) /\ KnowsHeld(Idle, b)
    BY DEF KnowsOne, KnowsHeld
  <2> QED  BY <1>1, <1>4, <2>1, WinTask
<1>5. CASE Begin(Hook, ws) /\ StatusOf(result) # W.seen.status
  <2>1. \A b \in Buyers : OnlyFits(b) => KnowsOne(ws, b)
    BY <1>1, <1>2 DEF KnowsOne, OnlyFits
  <2>2. ASSUME NEW b \in Buyers, OnlyFits(b), Held(b), HeldFits(b) PROVE KnowsHeld(ws, b)
    <3>1. ASSUME W.buyer = b PROVE FALSE
      <4>1. W.seen.pay = 1 /\ W.seen.status = "active"
        <5>1. Names(W.seen) /\ W.seen.status = "active"
          BY <1>1, <2>2, <3>1 DEF OnlyFits, HeldFits, KnowsOne, KnowsHeld
        <5>2. W.seen.pay = 1
          BY <5>1 DEF Names
        <5> QED  BY <5>1, <5>2
      <4>2. result = "authorized"
        BY <2>2, <3>1, <4>1 DEF Held
      <4> QED  BY <1>5, <4>1, <4>2 DEF StatusOf
    <3> QED  BY <1>2, <3>1 DEF KnowsHeld
  <2> QED  BY <1>1, <1>5, <2>1, <2>2, WinTask
<1> QED  BY <1>3, <1>4, <1>5

\* Whoever writes keeps the number of the payment.
LEMMA WritesTheSame ==
    ASSUME NEW now, NEW seen, NEW new, Names(now), Names(seen), Names(new)
    PROVE  Names(Written(now, seen, new))
<1>1. PICK s, q, m : /\ now = [status |-> s, pay |-> 1] /\ seen = [status |-> q, pay |-> 1]
                     /\ new = [status |-> m, pay |-> 1]
  BY DEF Names
<1>2. Written(now, seen, new) = new \/ Written(now, seen, new) = [status |-> IF m = q THEN s ELSE m, pay |-> 1]
  BY <1>1 DEF Written
<1> QED  BY <1>1, <1>2 DEF Names

\* A task t that writes a row, and nothing of what is held.
LEMMA SavesWin ==
    ASSUME WinInv, ChargeTypes, RowInv, faults = 0, UNCHANGED <<plan, faults, cases, opening, pays, queue>>,
           NEW t \in Tasks, NEW c, task[t] # Idle, task[t].buyer = c, task[t].pc = "save",
           NEW new, Save(c, t, new), Names(task[t].seen) => Names(new), task[t].op # "create",
           NEW w, Begin(t, w), w = Idle \/ (w.buyer \notin Buyers /\ w.rest = task[t].rest)
    PROVE  WinInv'
<1> DEFINE W == task[t]
<1>1. DOMAIN row = Buyers
  BY DEF RowInv, Shaped
<1>2. task'[t] = w
  BY DEF Begin, ChargeTypes
<1>3. ASSUME NEW b \in Buyers, BidWith(b)', OnlyFits(b) PROVE GoesOn(b, t, w)
  <2>1. KnowsOne(W, b)
    BY <1>3 DEF OnlyFits
  <2>2. Names(row'[b])
    <3>1. CASE b = c
      <4>1. Names(W.seen) /\ Names(row[b])
        BY <1>3, <2>1, <3>1 DEF KnowsOne, OnlyFits
      <4>2. row'[b] = Written(row[b], W.seen, new)
        BY <1>1, <3>1 DEF Save
      <4> QED  BY <4>1, <4>2, WritesTheSame
    <3>2. CASE b # c
      BY <1>1, <1>3, <3>2 DEF Save, OnlyFits
    <3> QED  BY <3>1, <3>2
  <2>3. KnowsOne(w, b) /\ KnowsHeld(w, b)
    BY <1>3, <2>1 DEF KnowsOne, KnowsHeld
  <2>4. ASSUME HeldFits(b)
        PROVE  row'[b].status = row[b].status /\ (t \in Replicas /\ Prevents(t, b) => Prevents(t, b)')
    <3>1. b # c
      BY <2>4 DEF HeldFits, KnowsHeld
    <3>2. row'[b] = row[b]
      BY <1>1, <3>1 DEF Save
    <3>3. ~Capturing(t, b)
      BY DEF Capturing, On
    <3>4. Lists(w, b) => Lists(W, b)
      BY DEF Lists
    <3> QED  BY <1>2, <3>2, <3>3, <3>4 DEF Prevents, InQueue
  <2> QED  BY <1>3, <2>2, <2>3, <2>4 DEF GoesOn, OnlyFits, Held
<1> QED  BY <1>3, WinMoves DEF Begin

LEMMA SaveWin ==
    ASSUME WinInv, ChargeTypes, RowInv, faults = 0, UNCHANGED <<plan, faults, cases, opening>>,
           NEW t \in Requests, SaveHold(t)
    PROVE  WinInv'
<1> DEFINE W == task[t]
<1>0. PICK c : c = W.buyer
  OBVIOUS
<1>1. /\ W.op = "create" /\ W.pc = "save" /\ DOMAIN W = WorkFields /\ W # Idle
      /\ t \in Tasks /\ t \notin Replicas /\ UNCHANGED <<pays, queue>>
      /\ DOMAIN row = Buyers
  BY TaskShapes DEF SaveHold, On, RowInv, Shaped
<1>2. PICK w : Begin(t, w) /\ w.op = "create" /\ w.pc = "done" /\ w.rest = W.rest
  <2> DEFINE w == [W EXCEPT !.pc = "done", !.result = row'[W.buyer].status]
  <2>1. w.op = "create" /\ w.pc = "done" /\ w.rest = W.rest
    BY <1>1 DEF WorkFields
  <2>2. Begin(t, w)
    BY DEF SaveHold
  <2> HIDE DEF w
  <2> QED  BY <2>1, <2>2
<1>3. \A b \in Buyers \ {c} : row'[b] = row[b]
  BY <1>0, <1>1 DEF SaveHold, Save
<1>4. ASSUME NEW b \in Buyers, BidWith(b)', OnlyFits(b) PROVE GoesOn(b, t, w)
  <2>1. KnowsOne(W, b)
    BY <1>1, <1>4 DEF OnlyFits
  <2>2. b # c /\ row'[b] = row[b]
    BY <1>0, <1>1, <1>3, <2>1 DEF KnowsOne
  <2>3. KnowsOne(w, b) /\ KnowsHeld(w, b)
    BY <1>1, <1>2, <2>1 DEF KnowsOne, KnowsHeld
  <2> QED  BY <1>1, <1>4, <2>2, <2>3 DEF GoesOn, OnlyFits, Held
<1> QED  BY <1>1, <1>2, <1>4, WinMoves DEF Begin

LEMMA SaveStatusWin ==
    ASSUME WinInv, ChargeTypes, RowInv, faults = 0, UNCHANGED <<plan, faults, cases, opening>>, SaveStatus
    PROVE  WinInv'
<1> DEFINE W == task[Hook]
<1>0. PICK c, new : c = W.buyer /\ new = [status |-> StatusOf(W.result), pay |-> W.seen.pay]
  OBVIOUS
<1>1. /\ W.op = "reconcile" /\ W.pc = "save" /\ W # Idle /\ Hook \in Tasks
      /\ Save(c, Hook, new) /\ Begin(Hook, Idle) /\ UNCHANGED <<pays, queue>>
  BY <1>0, TaskShapes DEF SaveStatus, On
<1>2. Names(W.seen) => Names(new)
  BY <1>0 DEF Names
<1> QED  BY <1>0, <1>1, <1>2, SavesWin

LEMMA SettledWin ==
    ASSUME WinInv, ChargeTypes, RowInv, faults = 0, UNCHANGED <<plan, faults, cases, opening>>,
           NEW r \in Replicas, SaveCapture(r) \/ SaveRelease(r)
    PROVE  WinInv'
<1> DEFINE W == task[r]
<1>1. /\ W.op \in {"capture", "release"} /\ W.pc = "save" /\ r \in Tasks /\ DOMAIN W = WorkFields
      /\ W # Idle /\ UNCHANGED <<pays, queue>>
  BY TaskShapes DEF SaveCapture, SaveRelease, On
<1>2. PICK c, new, w :
        /\ c = W.buyer /\ (Names(W.seen) => Names(new)) /\ Save(c, r, new) /\ Begin(r, w)
        /\ w = Idle \/ (w.buyer = NoBuyer /\ w.rest = W.rest)
  <2> DEFINE wc == [W EXCEPT !.pc = "call", !.buyer = NoBuyer]
  <2>1. wc.buyer = NoBuyer /\ wc.rest = W.rest
    BY <1>1 DEF WorkFields
  <2>2. Begin(r, Idle) \/ Begin(r, wc)
    BY DEF SaveCapture, SaveRelease
  <2>3. PICK s : Save(W.buyer, r, [W.seen EXCEPT !.status = s])
    BY DEF SaveCapture, SaveRelease
  <2>4. Names(W.seen) => Names([W.seen EXCEPT !.status = s])
    BY DEF Names
  <2> HIDE DEF wc
  <2> QED  BY <2>1, <2>2, <2>3, <2>4
<1>3. w = Idle \/ (w.buyer \notin Buyers /\ w.rest = W.rest)
  BY <1>2, TaskShapes
<1> QED  BY <1>1, <1>2, <1>3, SavesWin

\* The lists of the scheduler and of the end of a remate name it as its row does.
LEMMA ListKnows ==
    ASSUME NEW op, NEW pc, NEW B, NEW w, NEW b \in Buyers, OnlyFits(b), NoBuyer \notin Buyers,
           w = [Work(op, pc, NoBuyer, NoRow) EXCEPT !.rest = {<<c, row[c].pay>> : c \in B}]
    PROVE  KnowsOne(w, b) /\ KnowsHeld(w, b) /\ (Lists(w, b) => b \in B)
<1>1. w.buyer = NoBuyer /\ w.rest = {<<c, row[c].pay>> : c \in B}
  BY DEF Work
<1>2. row[b].pay = 1
  BY DEF OnlyFits, Names
<1> QED  BY <1>1, <1>2 DEF KnowsOne, KnowsHeld, Lists

LEMMA ListOverdueWin ==
    ASSUME WinInv, ChargeTypes, RowInv, faults = 0, UNCHANGED <<plan, faults, cases, opening>>, ListOverdue
    PROVE  WinInv'
<1>1. PICK w : /\ w = [Work("expire", "save", NoBuyer, NoRow) EXCEPT !.rest = {<<b, row[b].pay>> : b \in Overdue}]
               /\ Begin(Clock, w) /\ UNCHANGED <<row, pays, queue>>
  BY DEF ListOverdue
<1>2. Clock \in Tasks /\ Clock \notin Replicas /\ NoBuyer \notin Buyers
  BY TaskShapes
<1>3. \A b \in Buyers : OnlyFits(b) => KnowsOne(w, b) /\ KnowsHeld(w, b)
  BY <1>1, <1>2, ListKnows
<1> QED  BY <1>1, <1>2, <1>3, WinTask

LEMMA ExpireWin ==
    ASSUME WinInv, ChargeTypes, RowInv, faults = 0, UNCHANGED <<plan, faults, cases, opening>>, Expire
    PROVE  WinInv'
<1>1. /\ Begin(Clock, Idle) /\ UNCHANGED <<pays, queue>> /\ Clock \in Tasks /\ Clock \notin Replicas
      /\ \A b \in Buyers : row'[b] = row[b] \/ row'[b] = [row[b] EXCEPT !.status = "expired"]
  BY TaskShapes DEF Expire
<1>2. ASSUME NEW b \in Buyers, BidWith(b)', OnlyFits(b) PROVE GoesOn(b, Clock, Idle)
  <2>1. KnowsOne(Idle, b) /\ KnowsHeld(Idle, b)
    BY DEF KnowsOne, KnowsHeld
  <2>2. Names(row'[b]) /\ row'[b].status \in {row[b].status, "expired"}
    <3>1. Names(row[b])
      BY <1>2 DEF OnlyFits
    <3>2. PICK s : row[b] = [status |-> s, pay |-> 1]
      BY <3>1 DEF Names
    <3>3. [row[b] EXCEPT !.status = "expired"] = [status |-> "expired", pay |-> 1]
      BY <3>2
    <3>4. CASE row'[b] = row[b]
      BY <3>1, <3>4
    <3>5. CASE row'[b] = [row[b] EXCEPT !.status = "expired"]
      BY <3>3, <3>5 DEF Names
    <3> QED  BY <1>1, <3>4, <3>5
  <2> QED  BY <1>1, <1>2, <2>1, <2>2 DEF GoesOn, OnlyFits, Held
<1> QED  BY <1>1, <1>2, WinMoves DEF Begin

\* What a replica takes from its queue was its first event.
LEMMA TakenEvent ==
    ASSUME ChargeTypes, NEW r \in Replicas, queue[r] # <<>>, queue' = [queue EXCEPT ![r] = Tail(@)],
           NEW b, InQueue(r, b)
    PROVE  InQueue(r, b)' \/ Head(queue[r]) = <<"case", b>>
<1>1. queue[r] \in Seq(Events) /\ queue'[r] = Tail(queue[r])
  BY DEF ChargeTypes
<1>2. PICK i \in DOMAIN queue[r] : queue[r][i] = <<"case", b>>
  BY DEF InQueue
<1>3. CASE i = 1
  BY <1>1, <1>2, <1>3
<1>4. CASE i # 1
  <2>1. i - 1 \in DOMAIN Tail(queue[r]) /\ Tail(queue[r])[i - 1] = queue[r][i]
    BY <1>1, <1>4
  <2> QED  BY <1>1, <1>2, <2>1 DEF InQueue
<1> QED  BY <1>3, <1>4

LEMMA TakesWin ==
    ASSUME WinInv, ChargeTypes, RowInv, faults = 0, UNCHANGED <<plan, faults, cases, opening>>,
           NEW r \in Replicas, TakeCase(r) \/ TakeEnd(r)
    PROVE  WinInv'
<1>1. /\ task[r] = Idle /\ r \in Tasks /\ NoBuyer \notin Buyers /\ UNCHANGED <<row, pays>>
      /\ queue[r] # <<>> /\ queue' = [queue EXCEPT ![r] = Tail(@)] /\ queue \in [Replicas -> Seq(Events)]
      /\ \A q \in Replicas \ {r} : queue'[q] = queue[q]
  BY TaskShapes DEF TakeCase, TakeEnd, Takes, ChargeTypes
<1>2. PICK c : c = Head(queue[r])[2]
  OBVIOUS
<1>3. \A b : ~Capturing(r, b)
  BY <1>1, TaskShapes DEF Capturing, On
<1>4. PICK w : /\ task' = [task EXCEPT ![r] = w] \/ (task' = task /\ w = Idle)
               /\ \/ w = Idle /\ (TakeCase(r) => c \notin Active)
                  \/ w = Work("capture", "call", c, row[c]) /\ TakeCase(r) /\ c \in Active
                  \/ /\ TakeEnd(r)
                     /\ w = [Work("release", "call", NoBuyer, NoRow) EXCEPT !.rest = {<<b, row[b].pay>> : b \in Active}]
  BY <1>2 DEF TakeCase, TakeEnd
<1>5. task'[r] = w /\ \A u \in Tasks \ {r} : task'[u] = task[u]
  BY <1>1, <1>4 DEF ChargeTypes
<1>6. ASSUME NEW b \in Buyers, OnlyFits(b)
      PROVE  /\ KnowsOne(w, b)
             /\ Held(b) /\ HeldFits(b) => /\ KnowsHeld(w, b) /\ (Prevents(r, b) => Prevents(r, b)')
  <2>1. CASE w = Idle /\ (TakeCase(r) => c \notin Active)
    <3>1. ~Lists(w, b) /\ KnowsOne(w, b) /\ KnowsHeld(w, b)
      BY <2>1 DEF KnowsOne, KnowsHeld, Lists
    <3>2. ASSUME HeldFits(b), InQueue(r, b), ~InQueue(r, b)' PROVE row[b].status = "expired"
      <4>1. Head(queue[r]) = <<"case", b>>
        BY <1>1, <3>2, TakenEvent
      <4>2. TakeCase(r) /\ c = b
        BY <1>2, <4>1 DEF TakeCase, TakeEnd, Takes
      <4> QED  BY <2>1, <3>2, <4>2 DEF Active, HeldFits
    <3> QED  BY <1>1, <1>3, <1>5, <3>1, <3>2 DEF Prevents
  <2>2. CASE w = Work("capture", "call", c, row[c]) /\ TakeCase(r) /\ c \in Active
    <3>1. w.op = "capture" /\ w.pc = "call" /\ w.buyer = c /\ w.seen = row[c] /\ w.rest = {}
      BY <2>2 DEF Work
    <3>2. KnowsOne(w, b) /\ KnowsHeld(w, b) /\ ~Lists(w, b)
      BY <1>6, <2>2, <3>1 DEF KnowsOne, KnowsHeld, Lists, OnlyFits, Active
    <3>3. ASSUME InQueue(r, b), ~InQueue(r, b)' PROVE Capturing(r, b)'
      <4>1. Head(queue[r]) = <<"case", b>>
        BY <1>1, <3>3, TakenEvent
      <4> QED  BY <1>2, <1>5, <3>1, <4>1 DEF Capturing, On
    <3> QED  BY <1>1, <1>3, <1>5, <3>2, <3>3 DEF Prevents
  <2>3. CASE /\ TakeEnd(r)
             /\ w = [Work("release", "call", NoBuyer, NoRow) EXCEPT !.rest = {<<a, row[a].pay>> : a \in Active}]
    <3>1. KnowsOne(w, b) /\ KnowsHeld(w, b) /\ (Lists(w, b) => b \in Active)
      BY <1>1, <1>6, <2>3, ListKnows
    <3>2. InQueue(r, b) => InQueue(r, b)'
      <4>1. Head(queue[r]) # <<"case", b>>
        BY <2>3 DEF TakeEnd, Takes
      <4> QED  BY <1>1, <4>1, TakenEvent
    <3> QED  BY <1>1, <1>3, <1>5, <3>1, <3>2 DEF Prevents, Active
  <2> QED  BY <1>4, <2>1, <2>2, <2>3
<1>7. CASE task' = [task EXCEPT ![r] = w]
  BY <1>1, <1>6, <1>7, WinTask DEF Begin
<1>8. CASE task' = task /\ w = Idle
  <2>1. Tasks' = Tasks /\ Replicas' = Replicas /\ Replicas \subseteq Tasks
    BY DEF Tasks, Replicas
  <2>2. \A b : Unannounced(b)' = Unannounced(b) /\ HeldFits(b)' = HeldFits(b) /\ OnlyFits(b)' = OnlyFits(b)
    BY <1>1, <1>8, <2>1 DEF Unannounced, HeldFits, OnlyFits
  <2>3. \A b \in Buyers : \A q \in Replicas \ {r} : Prevents(q, b)' = Prevents(q, b)
    BY <1>1, <1>8 DEF Prevents, InQueue, Capturing, On
  <2> QED  BY <1>1, <1>6, <2>1, <2>2, <2>3 DEF WinInv, BidWith, Held
<1> QED  BY <1>4, <1>7, <1>8

\* What Mercado Pago settles is not held any more; what it refused was not.
LEMMA SettlesWin ==
    ASSUME WinInv, ChargeTypes, RowInv, faults = 0, UNCHANGED <<plan, faults, cases, opening, row, queue>>,
           NEW r \in Replicas, NEW c, NEW n, NEW to \in {"approved", "cancelled"},
           task[r].op = "release" \/ (task[r].op = "capture" /\ task[r].buyer = c),
           \A b \in Buyers : b = c /\ OnlyFits(b) => n = 1,
           Settles(c, n, to), Settled(r, c, n)
    PROVE  WinInv'
<1> DEFINE W == task[r]
           w == [W EXCEPT !.pc = "save", !.buyer = c, !.seen = [status |-> "active", pay |-> n],
                          !.rest = @ \ {<<c, n>>}]
<1>1. r \in Tasks /\ DOMAIN W = WorkFields /\ W # Idle
  BY TaskShapes
<1>2. /\ w.op = W.op /\ w.buyer = c /\ w.seen = [status |-> "active", pay |-> n]
      /\ w.rest \subseteq W.rest
  BY <1>1 DEF WorkFields
<1>3. Begin(r, w) /\ task'[r] = w
  BY <1>1 DEF Settled, Begin, ChargeTypes
<1>4. pays[c][n] = "authorized" /\ pays' = [pays EXCEPT ![c][n] = to]
  BY DEF Settles
<1> HIDE DEF w
<1>5. ASSUME NEW b \in Buyers
      PROVE  /\ pays[b] \in Seq(PayStates) /\ Len(pays'[b]) = Len(pays[b])
             /\ IF b = c THEN pays'[b] = [pays[b] EXCEPT ![n] = to] ELSE pays'[b] = pays[b]
  <2>1. pays \in [Buyers -> Seq(PayStates)] /\ pays[b] \in Seq(PayStates)
    BY DEF ChargeTypes
  <2>2. Len([pays[b] EXCEPT ![n] = to]) = Len(pays[b])
    BY <2>1
  <2> QED  BY <1>4, <2>1, <2>2
<1>6. ASSUME NEW b \in Buyers, BidWith(b)', OnlyFits(b) PROVE GoesOn(b, r, w)
  <2>1. KnowsOne(W, b)
    BY <1>1, <1>6 DEF OnlyFits
  <2>2. CASE b = c
    <3>1. n = 1
      BY <1>6, <2>2
    <3>2. pays'[b][1] = to
      <4>1. Len(pays[b]) = 1
        BY <1>6 DEF OnlyFits
      <4>2. pays[b] \in Seq(PayStates) /\ pays'[b] = [pays[b] EXCEPT ![1] = to]
        BY <1>5, <2>2, <3>1
      <4>3. 1 \in DOMAIN pays[b]
        BY <4>1, <4>2
      <4> QED  BY <4>2, <4>3
    <3>3. Names(w.seen)
      BY <1>2, <3>1 DEF Names
    <3>4. KnowsOne(w, b)
      BY <1>1, <1>2, <2>1, <3>3 DEF KnowsOne
    <3> QED  BY <1>5, <1>6, <3>2, <3>4 DEF GoesOn, OnlyFits, Held
  <2>3. CASE b # c
    <3>1. pays'[b] = pays[b]
      BY <1>5, <2>3
    <3>2. KnowsOne(w, b) /\ KnowsHeld(w, b)
      BY <1>1, <1>2, <2>1, <2>3 DEF KnowsOne, KnowsHeld
    <3>3. ~Capturing(r, b)
      BY <2>3 DEF Capturing, On
    <3>4. Lists(w, b) => Lists(W, b)
      BY <1>1, <1>2 DEF Lists
    <3>5. Prevents(r, b) => Prevents(r, b)'
      BY <1>3, <3>3, <3>4 DEF Prevents, InQueue
    <3> QED  BY <1>6, <3>1, <3>2, <3>5 DEF GoesOn, OnlyFits, Held
  <2> QED  BY <2>2, <2>3
<1> QED  BY <1>1, <1>3, <1>5, <1>6, WinMoves DEF Begin

LEMMA CallsWin ==
    ASSUME WinInv, ChargeTypes, RowInv, faults = 0, UNCHANGED <<plan, faults, cases, opening>>,
           NEW r \in Replicas, CallCapture(r) \/ CallCancel(r)
    PROVE  WinInv'
<1> DEFINE W == task[r]
<1>1. W # Idle /\ r \in Tasks /\ UNCHANGED <<row, queue>> /\ W.op \in {"capture", "release"} /\ W.pc = "call"
  BY TaskShapes DEF CallCapture, CallCancel, On
<1>2. PICK c, n, to :
         /\ to \in {"approved", "cancelled"}
         /\ \/ W.op = "capture" /\ c = W.buyer /\ n = W.seen.pay
            \/ W.op = "release" /\ \E x \in W.rest : c = x[1] /\ n = x[2]
         /\ (Settles(c, n, to) /\ Settled(r, c, n)) \/ Refused(r, c, n)
  <2>1. CASE CallCapture(r)
    BY <2>1 DEF CallCapture, On, Captures
  <2>2. CASE CallCancel(r)
    <3>1. PICK x \in W.rest : (Cancels(x[1], x[2]) /\ Settled(r, x[1], x[2])) \/ Refused(r, x[1], x[2])
      BY <2>2 DEF CallCancel
    <3> QED  BY <2>2, <3>1 DEF CallCancel, On, Cancels
  <2> QED  BY <2>1, <2>2
<1>3. ASSUME NEW b \in Buyers, b = c, OnlyFits(b) PROVE n = 1
  <2>1. KnowsOne(W, b)
    BY <1>1, <1>3 DEF OnlyFits
  <2> QED  BY <1>1, <1>2, <1>3, <2>1 DEF KnowsOne, Names
<1>4. CASE Settles(c, n, to) /\ Settled(r, c, n)
  BY <1>1, <1>2, <1>3, <1>4, SettlesWin
<1>5. CASE Refused(r, c, n)
  <2>1. Begin(r, Idle) /\ UNCHANGED pays /\ pays[c][n] # "authorized" /\ task'[r] = Idle
    BY <1>1, <1>5 DEF Refused, Begin, ChargeTypes
  <2>2. \A b : KnowsOne(Idle, b) /\ KnowsHeld(Idle, b) /\ ~Lists(Idle, b)
    BY DEF KnowsOne, KnowsHeld, Lists
  <2>3. ASSUME NEW b \in Buyers, OnlyFits(b), Held(b), Prevents(r, b) PROVE Prevents(r, b)'
    <3>1. b # c
      BY <1>3, <2>1, <2>3 DEF Held
    <3>2. ~Capturing(r, b)
      BY <1>2, <3>1 DEF Capturing, On
    <3> QED  BY <1>1, <2>1, <2>2, <2>3, <3>2 DEF Prevents, InQueue
  <2> QED  BY <1>1, <2>1, <2>2, <2>3, WinTask
<1> QED  BY <1>2, <1>4, <1>5

\* A case that is announced is told to every replica, and one that was not, still is not.
LEMMA EventsWin ==
    ASSUME WinInv, ChargeTypes, UNCHANGED <<plan, faults, cases>>,
           (\E r \in Replicas : Announce(r)) \/ \E to : EndRemate(to)
    PROVE  WinInv'
<1>1. UNCHANGED <<row, pays, task>> /\ Replicas' = Replicas /\ Tasks' = Tasks
  BY DEF Announce, EndRemate, Replicas, Tasks
<1>2. PICK x : queue' = [q \in Replicas |-> Append(queue[q], x)]
               /\ \/ UNCHANGED opening
                  \/ \E r \in Replicas : /\ opening' = [opening EXCEPT ![r] = <<>>]
                                         /\ x = <<"case", opening[r][1]>>
  BY DEF Announce, Published, EndRemate
<1>3. ASSUME NEW q \in Replicas, NEW b
      PROVE  (InQueue(q, b) => InQueue(q, b)') /\ (x = <<"case", b>> => InQueue(q, b)')
  <2>1. queue[q] \in Seq(Events) /\ queue'[q] = Append(queue[q], x)
    BY <1>2 DEF ChargeTypes
  <2>2. /\ \A i \in DOMAIN queue[q] : i \in DOMAIN queue'[q] /\ queue'[q][i] = queue[q][i]
        /\ Len(queue[q]) + 1 \in DOMAIN queue'[q] /\ queue'[q][Len(queue[q]) + 1] = x
    BY <2>1
  <2> QED  BY <2>2 DEF InQueue
<1>4. ASSUME NEW b PROVE \A q \in Replicas : Prevents(q, b) => Prevents(q, b)'
  BY <1>1, <1>3 DEF Prevents, Capturing, On
<1>5. ASSUME NEW b, Unannounced(b) PROVE Unannounced(b)' \/ \A q \in Replicas : Prevents(q, b)'
  <2>1. CASE cases[b] = NoCase
    BY <2>1 DEF Unannounced
  <2>2. CASE \E q \in Replicas : opening[q] = <<b, "publish">>
    <3>1. PICK q \in Replicas : opening[q] = <<b, "publish">>
      BY <2>2
    <3>2. CASE opening'[q] = opening[q]
      BY <1>1, <3>1, <3>2 DEF Unannounced
    <3>3. CASE x = <<"case", opening[q][1]>>
      <4>1. opening[q][1] = b
        BY <3>1
      <4>2. x = <<"case", b>>
        BY <3>3, <4>1
      <4> QED  BY <1>1, <1>3, <4>2 DEF Prevents
    <3>4. opening'[q] = opening[q] \/ x = <<"case", opening[q][1]>>
      <4>1. CASE UNCHANGED opening
        BY <4>1
      <4>2. ASSUME NEW r \in Replicas, opening' = [opening EXCEPT ![r] = <<>>], x = <<"case", opening[r][1]>>
            PROVE  opening'[q] = opening[q] \/ x = <<"case", opening[q][1]>>
        BY <4>2 DEF ChargeTypes
      <4> QED  BY <1>2, <4>1, <4>2
    <3> QED  BY <3>2, <3>3, <3>4
  <2> QED  BY <1>5, <2>1, <2>2 DEF Unannounced
<1>6. \A b : /\ BidWith(b)' = BidWith(b) /\ Held(b)' = Held(b)
             /\ OnlyFits(b)' = OnlyFits(b) /\ HeldFits(b)' = HeldFits(b)
  BY <1>1 DEF BidWith, Held, OnlyFits, HeldFits
<1> QED  BY <1>1, <1>4, <1>5, <1>6 DEF WinInv

\* A sale that is not announced stays so, whatever happens to it and to its case.
LEMMA CaseWin ==
    ASSUME WinInv, ChargeTypes, PostInv, PostAuctionStep, UNCHANGED <<hold, plan, faults>>
    PROVE  WinInv'
<1>1. /\ UNCHANGED <<row, pays, task, queue>> /\ Replicas' = Replicas /\ Tasks' = Tasks
      /\ \A r \in Replicas : opening[r] \in Openings
  BY DEF hold, Replicas, Tasks, ChargeTypes
<1>2. ASSUME NEW b \in Buyers, Unannounced(b) PROVE Unannounced(b)'
  <2>1. CASE UNCHANGED <<cases, opening>>
    BY <1>1, <1>2, <2>1 DEF Unannounced
  <2>2. ASSUME NEW r \in Replicas, OpenCase(r) PROVE Unannounced(b)'
    <3>1. PICK c \in Buyers : opening[r] = <<c, "insert">>
      BY <1>1, <2>2 DEF OpenCase, Openings
    <3>2. ASSUME NEW q \in Replicas, opening[q] = <<b, "publish">> PROVE opening'[q] = opening[q]
      <4>1. q # r
        BY <3>1, <3>2
      <4>2. \/ UNCHANGED opening
            \/ \E y : opening' = [opening EXCEPT ![r] = y]
        BY <2>2 DEF OpenCase
      <4> QED  BY <4>1, <4>2 DEF ChargeTypes
    <3>3. CASE cases[b] = NoCase
      <4>1. CASE c = b
        <5>1. opening' = [opening EXCEPT ![r] = <<b, "publish">>]
          BY <2>2, <3>1, <3>3, <4>1 DEF OpenCase
        <5>2. opening'[r] = <<b, "publish">>
          BY <5>1 DEF ChargeTypes
        <5> QED  BY <1>1, <5>2 DEF Unannounced
      <4>2. CASE c # b
        <5>1. cases'[b] = cases[b]
          BY <2>2, <3>1, <4>2 DEF OpenCase, PostInv, PostTypes
        <5> QED  BY <3>3, <5>1 DEF Unannounced
      <4> QED  BY <4>1, <4>2
    <3> QED  BY <1>1, <1>2, <3>2, <3>3 DEF Unannounced
  <2>3. ASSUME NEW r \in Replicas, LookForCase(r) PROVE Unannounced(b)'
    <3>1. UNCHANGED cases /\ \A q \in Replicas : opening[q] # <<>> => opening'[q] = opening[q]
      BY <2>3 DEF LookForCase, post, ChargeTypes
    <3>2. <<b, "publish">> # <<>>
      OBVIOUS
    <3> QED  BY <1>1, <1>2, <3>1, <3>2 DEF Unannounced
  <2>4. ASSUME NEW s \in Slots, CommitChange(s) PROVE Unannounced(b)'
    <3>1. cases[b] = NoCase => cases'[b] = NoCase
      <4>1. cases[change[s].buyer] # NoCase
        BY <2>4 DEF CommitChange, PostInv, CasesExist
      <4> QED  BY <2>4, <4>1 DEF CommitChange, PostInv, PostTypes
    <3>2. UNCHANGED opening
      BY <2>4 DEF CommitChange, sale
    <3> QED  BY <1>1, <1>2, <3>1, <3>2 DEF Unannounced
  <2> QED  BY <2>1, <2>2, <2>3, <2>4
      DEF PostAuctionStep, Sell, OpenDesk, LoseSale, Colleague, ReadCase, StoreFile, RemoveFile, BreakRequest,
          ColleagueIsTold, Confirm, SendFromDesk, Answered, ServeLoad, LoadArrives, LoadFails, PickTarget,
          RetryLoad, CloseDialog, post, sale
<1>3. \A b : /\ BidWith(b)' = BidWith(b) /\ Held(b)' = Held(b)
             /\ OnlyFits(b)' = OnlyFits(b) /\ HeldFits(b)' = HeldFits(b)
  BY <1>1 DEF BidWith, Held, OnlyFits, HeldFits
<1>4. \A b : \A r \in Replicas : Prevents(r, b)' = Prevents(r, b)
  BY <1>1 DEF Prevents, InQueue, Capturing, On
<1> QED  BY <1>1, <1>2, <1>3, <1>4 DEF WinInv

LEMMA HoldWin ==
    ASSUME WinInv, ChargeTypes, RowInv, faults = 0, UNCHANGED <<plan, faults, cases, opening>>, GarantiaStep
    PROVE  WinInv'
<1>1. ASSUME NEW t \in Requests, FlushHold(t) \/ CallHold(t) \/ SaveHold(t) PROVE WinInv'
  BY <1>1, FlushWin, CallWin, SaveWin
<1>2. ASSUME NEW b \in Buyers, Age(b) PROVE WinInv'
  BY <1>2, SameWin DEF Age
<1>3. ASSUME NEW b \in Buyers, NEW n \in DOMAIN pays[b], Decide(b, n) \/ Lapse(b, n) \/ Notify(b, n)
      PROVE  WinInv'
  BY <1>3, MovesWin, NotifyWin
<1>4. CASE AskStatus \/ SaveStatus \/ ListOverdue \/ Expire
  BY <1>4, AskStatusWin, SaveStatusWin, ListOverdueWin, ExpireWin
<1>5. ASSUME NEW r \in Replicas, TakeCase(r) \/ TakeEnd(r) \/ CallCapture(r) \/ CallCancel(r)
                                   \/ SaveCapture(r) \/ SaveRelease(r)
      PROVE  WinInv'
  BY <1>5, TakesWin, CallsWin, SettledWin
<1> QED  BY <1>1, <1>2, <1>3, <1>4, <1>5 DEF GarantiaStep

LEMMA WinStep == WinInv /\ RowInv /\ ChargeInv /\ PostInv /\ [Next]_vars => WinInv'
<1> SUFFICES ASSUME WinInv, RowInv, ChargeTypes, PostInv, [Next]_vars PROVE WinInv'
  BY DEF ChargeInv
<1>1. CASE faults' # 0
  BY <1>1 DEF WinInv, Held, BidWith
<1>2. CASE faults = 0 /\ UNCHANGED <<plan, faults>>
  <2>1. CASE UNCHANGED <<sale, post, hold>>
    BY <1>2, <2>1, SameWin DEF hold, sale, post
  <2>2. CASE Shared
    BY <1>2, <2>2, EventsWin DEF Shared, post
  <2>3. CASE OnTheCase
    BY <1>2, <2>3, CaseWin DEF OnTheCase
  <2>4. CASE GarantiaStep /\ UNCHANGED <<sale, post>>
    BY <1>2, <2>4, HoldWin DEF sale, post
  <2>5. ASSUME NEW t, NEW b, AskHold(t, b), UNCHANGED <<sale, post>> PROVE WinInv'
    BY <1>2, <2>5, AskWin DEF sale, post
  <2>6. ASSUME NEW t, TabIsTold(t), UNCHANGED <<sale, post>> PROVE WinInv'
    <3>1. On(t, "create", "done") /\ UNCHANGED <<row, pays, queue, cases, opening>>
      BY <2>6 DEF TabIsTold, sale, post
    <3>2. CASE t \in Tasks
      <4>1. \A b : KnowsOne(Idle, b) /\ KnowsHeld(Idle, b)
        BY DEF KnowsOne, KnowsHeld
      <4>2. ASSUME NEW b, Prevents(t, b) PROVE Prevents(t, b)'
        <5>1. ~Capturing(t, b) /\ task'[t] = Idle
          BY <2>6, <3>1, <3>2 DEF Capturing, On, TabIsTold, Begin, ChargeTypes
        <5> QED  BY <3>1, <4>2, <5>1 DEF Prevents, InQueue, Lists
      <4> QED  BY <1>2, <2>6, <3>1, <3>2, <4>1, <4>2, WinTask DEF TabIsTold
    <3>3. CASE t \notin Tasks
      <4>1. \A u \in Tasks : task'[u] = task[u]
        BY <2>6, <3>3 DEF TabIsTold, Begin, ChargeTypes
      <4> QED  BY <1>2, <3>1, <4>1, SameWin
    <3> QED  BY <3>2, <3>3
  <2>7. CASE GarantiaFault
    BY <1>2, <2>7 DEF GarantiaFault, CallHoldFails, LoseEvent, SettleFails, Die, Fault
  <2>8. CASE Next
    BY <1>2, <2>1, <2>2, <2>3, <2>4, <2>5, <2>6, <2>7, <2>8
       DEF Next, OnTheHold, OtherTab, RoomAsks, RoomIsAnswered, InTheRoom
  <2> QED  BY <2>1, <2>8 DEF vars
<1>3. faults \in Nat
  BY DEF RowInv
<1> QED  BY <1>1, <1>2, <1>3, StepOrFault

\* The guarantee a buyer starts with is active, and its payment is held.
LEMMA WinInit == Init => WinInv
<1> SUFFICES ASSUME Init, NEW b \in Buyers, plan.start[b] = "active"
             PROVE  OnlyFits(b) /\ HeldFits(b) /\ Unannounced(b)
  BY DEF WinInv, Held, BidWith
<1>1. row[b] = [status |-> "active", pay |-> 1] /\ pays[b] = <<"authorized">> /\ cases[b] = NoCase
  BY DEF Init
<1>2. \A t \in Tasks : KnowsOne(task[t], b) /\ KnowsHeld(task[t], b)
  BY DEF Init, KnowsOne, KnowsHeld
<1> QED  BY <1>1, <1>2 DEF OnlyFits, HeldFits, Unannounced, Names

\* A release goes on to another buyer only when Mercado Pago answers.
LEMMA ReleasesByCancel ==
    ASSUME RowInv, ChargeTypes, faults = 0, Next, NEW r \in Replicas,
           On(r, "release", "call"), task'[r] # task[r], task'[r].op = "release"
    PROVE  CallCancel(r)
<1> SUFFICES ASSUME ~CallCancel(r) PROVE FALSE
  OBVIOUS
<1>1. /\ task[r] # Idle /\ task[r].op = "release" /\ task[r].pc = "call" /\ Idle.op = "idle"
      /\ r \in Tasks /\ r \notin Requests \cup {Hook, Clock} /\ DOMAIN task = Tasks
  BY TaskShapes DEF On, ChargeTypes
<1>2. \A w : Begin(r, w) => task'[r] = w
  BY <1>1 DEF Begin
<1>3. \A t, w : Begin(t, w) => t = r
  BY <1>1 DEF Begin
<1>4. ~GarantiaFault
  BY <1>1, <1>2, <1>3 DEF GarantiaFault, CallHoldFails, LoseEvent, SettleFails, Die, On
<1>5. ~GarantiaStep
  <2>1. ASSUME NEW t \in Requests PROVE ~FlushHold(t) /\ ~CallHold(t) /\ ~SaveHold(t)
    BY <1>1, <1>3 DEF FlushHold, CallHold, SaveHold
  <2>2. ASSUME NEW b, NEW n PROVE ~Age(b) /\ ~Decide(b, n) /\ ~Lapse(b, n) /\ ~Notify(b, n)
    BY <1>1, <1>3 DEF Age, Decide, Lapse, Notify
  <2>3. ~AskStatus /\ ~SaveStatus /\ ~ListOverdue /\ ~Expire
    BY <1>1, <1>3 DEF AskStatus, SaveStatus, ListOverdue, Expire
  <2>4. ASSUME NEW q PROVE ~TakeCase(q) /\ ~TakeEnd(q)
    BY <1>1 DEF TakeCase, TakeEnd, Takes
  <2>5. ASSUME NEW q PROVE ~CallCapture(q) /\ ~CallCancel(q) /\ ~SaveCapture(q) /\ ~SaveRelease(q)
    <3>1. CASE q = r
      BY <1>1, <3>1 DEF CallCapture, SaveCapture, SaveRelease, On
    <3>2. CASE q # r
      BY <1>3, <3>2 DEF CallCapture, CallCancel, SaveCapture, SaveRelease, Settled, Refused
    <3> QED  BY <3>1, <3>2
  <2> QED  BY <2>1, <2>2, <2>3, <2>4, <2>5 DEF GarantiaStep
<1>6. \A t, b : ~AskHold(t, b) /\ ~TabIsTold(t)
  BY <1>1, <1>3 DEF AskHold, TabIsTold, On
<1>7. ~(UNCHANGED task)
  OBVIOUS
<1>8. ~OnTheCase /\ ~Shared /\ ~InTheRoom
  BY <1>7 DEF OnTheCase, Shared, InTheRoom, hold, Announce, EndRemate
<1> QED  BY <1>4, <1>5, <1>6, <1>7, <1>8 DEF Next, OnTheHold, OtherTab, RoomAsks, RoomIsAnswered, hold

\* For every set of buyers, replicas and requests: a replica that was told of the case of a
\* buyer does not cancel the guarantee he bid with, however the others work on it.
THEOREM WinnersAreNotReleased == Spec => WinnerIsNotReleased
<1> DEFINE A == \A r \in Replicas, b \in Buyers :
                  /\ On(r, "release", "call") /\ task'[r] # task[r] /\ task'[r].op = "release"
                  /\ task'[r].buyer = b /\ plan.start[b] = "active"
                 => \/ faults > 0
                    \/ cases[b] = NoCase \/ \E q \in Replicas : opening[q] = <<b, "publish">>
                    \/ <<"case", b>> \in Range(queue[r])
                    \/ Len(pays[b]) > 1
<1>1. WinnerIsNotReleased <=> [][A]_vars
  BY PTL DEF WinnerIsNotReleased
<1>2. WinInv /\ RowInv /\ ChargeInv /\ [Next]_vars => [A]_vars
  <2> SUFFICES ASSUME WinInv, RowInv, ChargeTypes, Next, NEW r \in Replicas, NEW b \in Buyers,
                      On(r, "release", "call"), task'[r] # task[r], task'[r].op = "release",
                      task'[r].buyer = b, plan.start[b] = "active",
                      faults = 0, ~Unannounced(b), ~InQueue(r, b), Len(pays[b]) <= 1
               PROVE  FALSE
    <3> SUFFICES ASSUME WinInv, RowInv, ChargeInv, [Next]_vars, NEW r \in Replicas, NEW b \in Buyers,
                        On(r, "release", "call"), task'[r] # task[r], task'[r].op = "release",
                        task'[r].buyer = b, plan.start[b] = "active", ~(faults > 0),
                        ~(cases[b] = NoCase \/ \E q \in Replicas : opening[q] = <<b, "publish">>),
                        <<"case", b>> \notin Range(queue[r]), ~(Len(pays[b]) > 1)
                 PROVE  FALSE
      OBVIOUS
    <3>1. Next
      BY DEF vars, hold
    <3>2. faults = 0 /\ ~Unannounced(b)
      BY DEF RowInv, Unannounced
    <3>3. ChargeTypes /\ ~InQueue(r, b) /\ Len(pays[b]) <= 1
      <4>1. ChargeTypes /\ pays[b] \in Seq(PayStates)
        BY DEF ChargeInv, ChargeTypes
      <4>2. ~InQueue(r, b)
        BY DEF InQueue, Range
      <4> QED  BY <4>1, <4>2
    <3> QED  BY <3>1, <3>2, <3>3
  <2> USE TaskShapes
  <2>1. CallCancel(r)
    BY ReleasesByCancel
  <2>2. PICK x \in task[r].rest : (Cancels(x[1], x[2]) /\ Settled(r, x[1], x[2])) \/ Refused(r, x[1], x[2])
    BY <2>1 DEF CallCancel
  <2>3. task[r] # Idle /\ DOMAIN task[r] = WorkFields /\ r \in Tasks
    BY DEF On
  <2>4. Cancels(x[1], x[2]) /\ x[1] = b
    <3>1. ~Refused(r, x[1], x[2])
      BY <2>3 DEF Refused, Begin, ChargeTypes
    <3>2. task'[r] = [task[r] EXCEPT !.pc = "save", !.buyer = x[1],
                        !.seen = [status |-> "active", pay |-> x[2]], !.rest = @ \ {<<x[1], x[2]>>}]
      BY <2>2, <2>3, <3>1 DEF Settled, Begin, ChargeTypes
    <3>3. task'[r].buyer = x[1]
      BY <2>3, <3>2 DEF WorkFields
    <3> QED  BY <2>2, <3>1, <3>3
  <2>5. BidWith(b) /\ OnlyFits(b)
    BY DEF BidWith, WinInv
  <2>6. x[2] = 1
    BY <2>2, <2>3, <2>4, <2>5 DEF OnlyFits, KnowsOne
  <2>7. Held(b) /\ Prevents(r, b)
    BY <2>4, <2>5, <2>6 DEF Held, Cancels, Settles, WinInv
  <2>8. ~Capturing(r, b)
    BY DEF Capturing, On
  <2>9. Lists(task[r], b)
    BY <2>2, <2>3, <2>4 DEF Lists
  <2> QED  BY <2>7, <2>8, <2>9 DEF Prevents
<1> QED  BY <1>1, <1>2, WinInit, WinStep, RowInit, RowStep, ChargeInit, ChargeStep, PostInvariant, PTL DEF Spec

------------------------------------------------------------------------------
(* The dialog.                                                              *)

Forms    == 1..Mounts
Numbers  == Bins \cup {NoBin}
CardType == [bin : Numbers, method : Numbers]

\* The dialog, and what is in flight, are records with these fields.
IsDialog(d) ==
    d = [open |-> d.open, success |-> d.success, form |-> d.form, ready |-> d.ready,
         busy |-> d.busy, lost |-> d.lost]
IsFlight(f) ==
    /\ f.edited \in BOOLEAN
    /\ DOMAIN f = {"kind", "form", "bin", "method", "edited", "task", "attempt", "status"}

CardTypes ==
    /\ used \in Nat
    /\ IsDialog(dlg) /\ dlg.form \in 0..Mounts
    /\ card \in [Forms -> CardType]
    /\ \A q \in lookups : q[1] \in Numbers

\* The method a form knows is that of the number it shows.
MethodsFit == \A n \in Forms : card[n].method \in {NoBin, card[n].bin}

\* An unedited token was asked for the number its form still shows, and a request
\* carries the method of the number its token was asked for.
FlightFits(f) ==
    /\ IsFlight(f)
    /\ f.kind = "token" => f.form \in Forms /\ (f.edited \/ f.bin = card[f.form].bin)
    /\ f.kind = "post" => f.method = f.bin \/ f.edited

CardInv == CardTypes /\ MethodsFit /\ \A f \in flights : FlightFits(f)

\* The dialog after an answer has the form it had.
LEMMA StopsKeepsForm ==
    ASSUME IsDialog(dlg), NEW n
    PROVE  IsDialog(Stops(n)) /\ Stops(n).form = dlg.form
  BY DEF IsDialog, Stops

LEMMA ReportsKeepsForm ==
    ASSUME NEW d, IsDialog(d), d.form = dlg.form, NEW status, Reports(d, status)
    PROVE  IsDialog(dlg') /\ dlg'.form = dlg.form
  BY DEF IsDialog, Reports

\* A step that types no card and mounts no form, and sends nothing that does not fit.
LEMMA CardKept ==
    ASSUME CardInv, UNCHANGED <<card, lookups, used>>,
           IsDialog(dlg'), dlg'.form \in 0..Mounts,
           \A f \in flights' : f \in flights \/ FlightFits(f)
    PROVE  CardInv'
  BY DEF CardInv, CardTypes, MethodsFit, FlightFits

\* Polls and their timers are neither tokens nor requests.
LEMMA PollsFit ==
    ASSUME NEW f, IsFlight(f), f.kind \in {"poll", "timer"} PROVE FlightFits(f)
  BY DEF FlightFits

\* The dialog opens, closes, and mounts its form.
LEMMA DialogKeepsCards ==
    ASSUME CardInv,
           OpenDialog \/ Consent \/ FieldsReady \/ CloseModal \/ Unmount
             \/ FirstArrives \/ \E status : FirstAnswered(status)
    PROVE  CardInv'
<1>1. CASE OpenDialog \/ Unmount
  BY <1>1, CardKept, MountsAssumption
     DEF OpenDialog, Unmount, Closed, Dropped, IsDialog, CardInv, CardTypes
<1>2. CASE FieldsReady \/ CloseModal \/ FirstArrives \/ \E status : FirstAnswered(status)
  BY <1>2, CardKept DEF FieldsReady, CloseModal, FirstArrives, FirstAnswered, IsDialog, CardInv, CardTypes
<1>3. CASE Consent
  <2>1. /\ used + 1 <= Mounts /\ used' = used + 1 /\ dlg' = [dlg EXCEPT !.form = used + 1]
        /\ UNCHANGED <<card, lookups, flights>>
    BY <1>3 DEF Consent, Used
  <2>2. IsDialog(dlg') /\ dlg'.form \in 0..Mounts /\ used' \in Nat
    BY <2>1, MountsAssumption DEF CardInv, CardTypes, IsDialog
  <2> QED  BY <2>1, <2>2 DEF CardInv, CardTypes, MethodsFit, FlightFits
<1> QED  BY <1>1, <1>2, <1>3

\* Editing the number marks the tokens that are on their way.
LEMMA TypingKeepsCards ==
    ASSUME CardInv, NEW bin \in Numbers, TypeCard(bin)
    PROVE  CardInv'
<1>0. PICK n \in Forms : n = dlg.form
  BY MountsAssumption DEF TypeCard, Forms, CardInv, CardTypes
<1> DEFINE Edit(f) == [f EXCEPT !.edited = @ \/ (f.kind = "token" /\ f.form = n)]
<1>1. /\ used' = used + 1 /\ UNCHANGED dlg
      /\ card' = [card EXCEPT ![n] = [bin |-> bin, method |-> NoBin]]
      /\ lookups' \subseteq lookups \cup {<<bin, "method", n>>}
      /\ flights' = {Edit(f) : f \in flights}
  BY <1>0 DEF TypeCard, Used
<1>2. CardTypes' /\ MethodsFit'
  BY <1>1 DEF CardInv, CardTypes, CardType, Numbers, MethodsFit
<1>3. ASSUME NEW f \in flights PROVE FlightFits(Edit(f))'
  <2>1. /\ IsFlight(Edit(f)) /\ Edit(f).kind = f.kind /\ Edit(f).form = f.form
        /\ Edit(f).bin = f.bin /\ Edit(f).method = f.method
        /\ Edit(f).edited = (f.edited \/ (f.kind = "token" /\ f.form = n))
    BY <1>3 DEF CardInv, FlightFits, IsFlight
  <2>2. f.kind = "token" /\ f.form # n => card'[f.form] = card[f.form]
    BY <1>1 DEF CardInv, CardTypes, FlightFits
  <2>3. /\ f.kind = "token" => f.form \in Forms /\ (f.edited \/ f.bin = card[f.form].bin)
        /\ f.kind = "post" => f.method = f.bin \/ f.edited
    BY <1>3 DEF CardInv, FlightFits
  <2>4. f.kind = "token" => Edit(f).edited \/ Edit(f).bin = card'[Edit(f).form].bin
    BY <2>1, <2>2, <2>3
  <2>5. f.kind = "post" => Edit(f).method = Edit(f).bin \/ Edit(f).edited
    BY <2>1, <2>3
  <2> HIDE DEF Edit
  <2> QED  BY <2>1, <2>3, <2>4, <2>5 DEF FlightFits
<1> QED  BY <1>1, <1>2, <1>3 DEF CardInv

\* The method found for a number is kept only if the form still shows it.
LEMMA ResolvingKeepsCards ==
    ASSUME CardInv, NEW q \in lookups, Resolve(q)
    PROVE  CardInv'
<1> DEFINE n == q[3]
<1>1. /\ UNCHANGED <<dlg, flights, used>>
      /\ \A x \in lookups' : x \in lookups \/ x[1] = q[1]
      /\ card' = card \/ (q[1] = card[n].bin /\ card' = [card EXCEPT ![n].method = q[1]])
  BY DEF Resolve
<1>2. q[1] \in Numbers
  BY DEF CardInv, CardTypes
<1>3. CardTypes'
  BY <1>1, <1>2 DEF CardInv, CardTypes, CardType
<1>4. \A m \in Forms : card'[m].bin = card[m].bin /\ card'[m].method \in {card[m].method, card[m].bin}
  BY <1>1 DEF CardInv, CardTypes, CardType
<1>5. MethodsFit'
  BY <1>4 DEF CardInv, MethodsFit
<1>6. \A f \in flights' : FlightFits(f)'
  BY <1>1, <1>4 DEF CardInv, FlightFits
<1> QED  BY <1>3, <1>5, <1>6 DEF CardInv

\* A token is asked for with the number the form shows.
LEMMA SubmittingKeepsCards ==
    ASSUME CardInv, Submit
    PROVE  CardInv'
<1>1. PICK n \in Forms : n = dlg.form
  BY MountsAssumption DEF Submit, Forms, CardInv, CardTypes
<1>2. PICK bin : bin = card[n].bin
  OBVIOUS
<1> DEFINE f == [Flight("token", n) EXCEPT !.bin = bin]
<1>3. /\ flights' = flights \cup {f} /\ UNCHANGED <<card, lookups, used>>
      /\ dlg' = [dlg EXCEPT !.busy = TRUE, !.lost = FALSE]
  BY <1>1, <1>2 DEF Submit, Fly
<1>4. IsDialog(dlg') /\ dlg'.form = dlg.form
  BY <1>3 DEF IsDialog, CardInv, CardTypes
<1>5. IsFlight(f) /\ f.kind = "token" /\ f.form = n /\ f.bin = bin
  BY DEF Flight, IsFlight
<1> HIDE DEF f
<1>6. FlightFits(f)
  BY <1>2, <1>5 DEF FlightFits
<1> QED  BY <1>3, <1>4, <1>6, CardKept DEF CardInv, CardTypes

\* What a request carries is the method its form knows when the token arrives.
LEMMA PostingKeepsCards ==
    ASSUME CardInv, NEW f \in flights, NEW t, NEW status, PostHold(f, t, status)
    PROVE  CardInv'
<1> DEFINE g == [f EXCEPT !.kind = "post", !.method = MethodOf(f), !.task = t, !.status = status]
<1>1. /\ f.kind = "token" /\ MethodOf(f) # NoBin
      /\ flights' = (flights \ {f}) \cup {g} /\ UNCHANGED <<dlg, card, lookups, used>>
  BY DEF PostHold, Fly
<1>2. IsFlight(f) /\ f.form \in Forms /\ (f.edited \/ f.bin = card[f.form].bin)
  BY <1>1 DEF CardInv, FlightFits
<1>3. MethodOf(f) = card[f.form].bin
  BY <1>1, <1>2 DEF MethodOf, CardInv, MethodsFit
<1>4. /\ IsFlight(g) /\ g.kind = "post" /\ g.bin = f.bin /\ g.edited = f.edited
      /\ g.method = MethodOf(f)
  BY <1>2 DEF IsFlight
<1>5. FlightFits(g)
  BY <1>2, <1>3, <1>4 DEF FlightFits
<1> QED  BY <1>1, <1>5, CardKept DEF CardInv, CardTypes

\* Answers end what they answer, or start a poll.
LEMMA AnswersKeepCards ==
    ASSUME CardInv, NEW f \in flights,
           \/ NoToken(f) \/ PollArrives(f) \/ PollAgain(f) \/ PollFails(f)
           \/ \E status : PostAnswer(f, status) \/ PollServed(f, status)
    PROVE  CardInv'
<1>1. IsFlight(f) /\ IsDialog(dlg) /\ dlg.form \in 0..Mounts /\ UNCHANGED <<card, lookups, used>>
  BY DEF NoToken, PollArrives, PollAgain, PollFails, PostAnswer, PollServed, CardInv, CardTypes, FlightFits
<1>2. ASSUME NEW kind \in {"poll", "timer"}, NEW n
      PROVE  FlightFits([Flight(kind, f.form) EXCEPT !.attempt = n])
  <2> DEFINE g == [Flight(kind, f.form) EXCEPT !.attempt = n]
  <2>1. IsFlight(g) /\ g.kind = kind
    BY DEF Flight, IsFlight
  <2> HIDE DEF g
  <2>2. FlightFits(g)
    BY <2>1, PollsFit
  <2> QED  BY <2>2 DEF g
<1>3. ASSUME NEW status, f.kind = "poll" PROVE FlightFits([f EXCEPT !.status = status])
  BY <1>1, <1>3 DEF FlightFits, IsFlight
<1>4. FlightFits([f EXCEPT !.kind = "poll"])
  BY <1>1 DEF FlightFits, IsFlight
<1>5. \A g \in flights' : g \in flights \/ FlightFits(g)
  BY <1>2, <1>3, <1>4 DEF NoToken, PollArrives, PollAgain, PollFails, PostAnswer, PollServed, Fly
<1>6. IsDialog(dlg') /\ dlg'.form = dlg.form
  <2>1. CASE dlg' = dlg
    BY <1>1, <2>1
  <2>2. CASE dlg' = Stops(f.form)
    BY <1>1, <2>2, StopsKeepsForm
  <2>3. CASE \E status : Reports(Stops(f.form), status)
    BY <1>1, <2>3, StopsKeepsForm, ReportsKeepsForm
  <2>4. CASE PollFails(f)
    BY <1>1, <2>4 DEF PollFails, IsDialog
  <2> QED  BY <2>1, <2>2, <2>3, <2>4 DEF NoToken, PollArrives, PollAgain, PostAnswer, PollServed
<1> QED  BY <1>1, <1>5, <1>6, CardKept

\* The invariant of the cards is inductive.
LEMMA CardStep == CardInv /\ [Next]_vars => CardInv'
<1> SUFFICES ASSUME CardInv, [Next]_vars PROVE CardInv'
  OBVIOUS
<1>1. CASE UNCHANGED modal
  BY <1>1 DEF modal, CardInv, CardTypes, MethodsFit, FlightFits
<1>2. CASE InTheRoom
  BY <1>2, DialogKeepsCards, TypingKeepsCards, ResolvingKeepsCards, SubmittingKeepsCards,
     AnswersKeepCards DEF InTheRoom, Numbers
<1>3. ASSUME NEW f \in flights, RoomAsks(f) \/ RoomIsAnswered(f) \/ PollFails(f) PROVE CardInv'
  BY <1>3, PostingKeepsCards, AnswersKeepCards DEF RoomAsks, RoomIsAnswered
<1> QED  BY <1>1, <1>2, <1>3 DEF Next, vars, OnTheCase, Shared, OnTheHold, OtherTab

\* At first nothing is in flight and no card has been typed.
LEMMA CardInit == Init => CardInv
<1> SUFFICES ASSUME Init PROVE CardInv
  OBVIOUS
<1>1. CardTypes
  BY MountsAssumption DEF Init, CardTypes, Closed, IsDialog, CardType, NoCard, Numbers, Forms
<1> QED  BY <1>1 DEF Init, CardInv, MethodsFit, NoCard, Forms

\* Whatever the buyer types, closes or opens again while the token is on its way, and in
\* whatever order the lookups are answered, a token is sent with the method of its card,
\* unless its number was edited after it was asked for.
THEOREM TokenAlwaysMatchesCard == Spec => []TokenMatchesCard
<1>1. CardInv => TokenMatchesCard
  BY DEF CardInv, FlightFits, TokenMatchesCard
<1> QED  BY <1>1, CardInit, CardStep, PTL DEF Spec

==============================================================================
