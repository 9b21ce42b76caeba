-------------------------------- MODULE Session --------------------------------
(***************************************************************************)
(* The session of one user in the tabs of a browser: the store of tokens   *)
(* of each tab and its copy in localStorage, the requests of a tab with    *)
(* the interceptor that renews an expired access token and repeats them    *)
(* once, and the rotation of refresh tokens on the server.                 *)
(*                                                                         *)
(* A pair of tokens is a number, the order in which the server issued it;  *)
(* 0 is no session.  What a request asks and what it is answered are left  *)
(* to the modules that extend this one.                                    *)
(***************************************************************************)
EXTENDS Naturals, FiniteSets

CONSTANTS Tabs,     \* the tabs of the browser
          Slots,    \* the requests a tab may have in flight
          Nobody,   \* who waits for an answer whose page is gone
          Plans     \* how each run starts and what may happen in it

VARIABLES left,       \* what may still happen: the bounds of the run
          issued,     \* how many pairs the server has issued
          live,       \* pairs whose refresh token is not revoked
          aged,       \* pairs whose access token has expired
          store,      \* the pair each tab works with
          storage,    \* the pair in localStorage
          calls,      \* the requests of each tab
          exchanges,  \* refresh tokens on their way to be exchanged, and back
          byes,       \* pairs whose logout is on its way
          login,      \* the login each tab is waiting for
          sent,       \* (history) pairs this life of the tab has sent to be exchanged
          mixed       \* (history) a login or a logout met an exchange in flight, a
                      \* second tab worked, or something was lost

sessionVars == <<issued, live, aged, store, storage, exchanges, byes, login, sent, mixed>>
------------------------------------------------------------------------------
(* Requests.                                                               *)

Nothing == [op |-> "none"]
NoCall  == [what |-> Nothing, pair |-> 0, retried |-> FALSE, phase |-> "idle", ans |-> Nothing]
Fresh(what, p) == [what |-> what, pair |-> p, retried |-> FALSE, phase |-> "sent", ans |-> Nothing]

Denied == [op |-> "denied"]      \* 401
Failed == [op |-> "failed"]      \* any other failure, and what the caller hears in the end
Lost   == [op |-> "lost"]        \* a failure of which the caller cannot tell whether it was done
Done   == [op |-> "done"]
Heard(c) == c.phase = "back" /\ c.ans # Denied
Refusal(c) == c.ans \in {Failed, Lost}

HasRoom(t)  == \E s \in Slots : calls[t][s].phase = "idle"
FreeSlot(t) == CHOOSE s \in Slots : calls[t][s].phase = "idle"
Asking(t, what) == /\ HasRoom(t)
                   /\ calls' = [calls EXCEPT ![t][FreeSlot(t)] = Fresh(what, store[t])]

\* Call s of tab t goes on as c.
Goes(t, s, c) == calls' = [calls EXCEPT ![t][s] = c]
Answered(t, s, ans) == Goes(t, s, [calls[t][s] EXCEPT !.phase = "back", !.ans = ans])

\* The server knows who calls.
Welcome(c) == c.phase = "sent" /\ c.pair # 0 /\ c.pair \notin aged

Exchanging(t) == \E x \in exchanges : x.by = t
NoLogin == [phase |-> "none", got |-> 0]

Uses(what) == left[what] > 0
Spend(what) == left' = [left EXCEPT ![what] = @ - 1]
------------------------------------------------------------------------------
SessionInit ==
    /\ left \in Plans
    /\ issued = 1
    /\ live = {1}
    /\ aged = {}
    /\ store = [t \in Tabs |-> IF t \in left.tabs THEN 1 ELSE 0]
    /\ storage = 1
    /\ calls = [t \in Tabs |-> [s \in Slots |-> NoCall]]
    /\ exchanges = {}
    /\ byes = {}
    /\ login = [t \in Tabs |-> NoLogin]
    /\ sent = [t \in Tabs |-> {}]
    /\ mixed = (Cardinality(left.tabs) > 1)

\* A page asks for something to read.
Ask(t) ==
    /\ store[t] # 0 /\ Uses("asks") /\ Spend("asks")
    /\ Asking(t, [op |-> "read"])
    /\ UNCHANGED sessionVars

\* The half hour of an access token passes.
Age(p) ==
    /\ Uses("ages") /\ Spend("ages")
    /\ p \in {store[t] : t \in Tabs} \ (aged \cup {0})
    /\ aged' = aged \cup {p}
    /\ UNCHANGED <<issued, live, store, storage, calls, exchanges, byes, login, sent, mixed>>

(* get_current_user: an access token that does not validate is a 401.      *)
TurnAway(t, s) ==
    /\ calls[t][s].phase = "sent" /\ ~Welcome(calls[t][s])
    /\ Answered(t, s, Denied)
    /\ UNCHANGED <<left, sessionVars>>

ServeRead(t, s) ==
    /\ Welcome(calls[t][s]) /\ calls[t][s].what.op \in {"read", "me"}
    /\ Answered(t, s, Done)
    /\ UNCHANGED <<left, sessionVars>>

(* set() of the store is followed by the write of the whole state.         *)
Holds(t, p) == store' = [store EXCEPT ![t] = p] /\ storage' = p

\* The answer of a read ends it; login's own read of the user writes the store.
ReadArrives(t, s) ==
    LET c == calls[t][s] IN
    /\ Heard(c) /\ c.what.op \in {"read", "me"}
    /\ Goes(t, s, NoCall)
    /\ storage' = IF c.what.op = "me" /\ c.ans = Done THEN store[t] ELSE storage
    /\ UNCHANGED <<left, issued, live, aged, store, exchanges, byes, login, sent, mixed>>
------------------------------------------------------------------------------
(* The response interceptor.                                               *)

\* A 401 of a request that was already repeated, or of a tab without a session, is the
\* caller's: in the second case the failed renewal also empties the store once more.
GivesUp(t, s) ==
    LET c == calls[t][s] IN
    /\ c.phase = "back" /\ c.ans = Denied
    /\ c.retried \/ (store[t] = 0 /\ ~Exchanging(t))
    /\ Answered(t, s, Failed)
    /\ storage' = IF c.retried THEN storage ELSE 0
    /\ UNCHANGED <<left, issued, live, aged, store, exchanges, byes, login, sent, mixed>>

\* (variant) Every 401 starts a renewal of its own.
UnauthorizedAlone(t, s) ==
    LET c == calls[t][s] IN
    /\ c.phase = "back" /\ c.ans = Denied /\ ~c.retried /\ store[t] # 0
    /\ Goes(t, s, [c EXCEPT !.phase = "waits", !.retried = TRUE])
    /\ exchanges' = exchanges \cup {[by |-> t, slot |-> s, pair |-> store[t], phase |-> "asked",
                                     got |-> 0, again |-> store[t] \in sent[t]]}
    /\ sent' = [sent EXCEPT ![t] = @ \cup {store[t]}]
    /\ UNCHANGED <<left, issued, live, aged, store, storage, byes, login, mixed>>

\* The others wait for the renewal in flight, which the first of them starts.
Unauthorized(t, s) ==
    LET c == calls[t][s] IN
    /\ c.phase = "back" /\ c.ans = Denied /\ ~c.retried
    /\ Exchanging(t) \/ store[t] # 0
    /\ Goes(t, s, [c EXCEPT !.phase = "waits", !.retried = TRUE])
    /\ exchanges' = IF Exchanging(t) THEN exchanges
                    ELSE exchanges \cup {[by |-> t, slot |-> s, pair |-> store[t], phase |-> "asked",
                                          got |-> 0, again |-> store[t] \in sent[t]]}
    /\ sent' = IF Exchanging(t) THEN sent ELSE [sent EXCEPT ![t] = @ \cup {store[t]}]
    /\ UNCHANGED <<left, issued, live, aged, store, storage, byes, login, mixed>>

\* Who waits in tab t, and the requests of t once the wait is over.
Waiting(t) == {s \in Slots : calls[t][s].phase = "waits"}
AfterWait(t, c) == calls' = [calls EXCEPT ![t] =
                       [s \in Slots |-> IF s \in Waiting(t) THEN c[s] ELSE calls[t][s]]]

\* The new pair is kept and every waiting request is repeated with it.
Refreshed(x) ==
    LET t == x.by IN
    /\ x \in exchanges /\ t # Nobody /\ x.phase = "answer"
    /\ exchanges' = exchanges \ {x}
    /\ Holds(t, x.got)
    /\ AfterWait(t, [s \in Slots |-> [calls[t][s] EXCEPT !.phase = "sent", !.pair = x.got, !.ans = Nothing]])
    /\ mixed' = (mixed \/ store[t] # x.pair)
    /\ UNCHANGED <<left, issued, live, aged, byes, login, sent>>

\* (variant) Only a renewal without an answer is taken for a failure.
RefreshUnanswered(x) ==
    LET t == x.by IN
    /\ x \in exchanges /\ t # Nobody /\ x.phase = "lost"
    /\ exchanges' = exchanges \ {x}
    /\ Holds(t, 0)
    /\ byes' = byes \cup ({store[t]} \ {0})
    /\ AfterWait(t, [s \in Slots |-> [calls[t][s] EXCEPT !.phase = "back", !.ans = Failed]])
    /\ mixed' = (mixed \/ store[t] # x.pair)
    /\ UNCHANGED <<left, issued, live, aged, login, sent>>

\* No new pair: onRefreshFailed logs out with whatever the store holds by now, and the
\* waiting requests fail.
RefreshFailed(x) ==
    LET t == x.by IN
    /\ x \in exchanges /\ t # Nobody /\ x.phase \in {"refused", "lost"}
    /\ exchanges' = exchanges \ {x}
    /\ Holds(t, 0)
    /\ byes' = byes \cup ({store[t]} \ {0})
    /\ AfterWait(t, [s \in Slots |-> [calls[t][s] EXCEPT !.phase = "back", !.ans = Failed]])
    /\ mixed' = (mixed \/ store[t] # x.pair)
    /\ UNCHANGED <<left, issued, live, aged, login, sent>>

\* Nobody reads the answer of a page that was reloaded.
Unread(x) ==
    /\ x \in exchanges /\ x.by = Nobody /\ x.phase \in {"answer", "refused", "lost"}
    /\ exchanges' = exchanges \ {x}
    /\ UNCHANGED <<left, issued, live, aged, store, storage, calls, byes, login, sent, mixed>>
------------------------------------------------------------------------------
(* POST /auth/refresh, in its three steps.                                 *)

Becomes(x, y) == exchanges' = (exchanges \ {x}) \cup {y}

\* The row is read without a lock: a revoked one is refused.
Present(x) ==
    /\ x \in exchanges /\ x.phase = "asked"
    /\ Becomes(x, [x EXCEPT !.phase = IF x.pair \in live THEN "read" ELSE "refused"])
    /\ UNCHANGED <<left, issued, live, aged, store, storage, calls, byes, login, sent, mixed>>

\* (variant) The used row stays valid.
RevokeNothing(x) ==
    /\ x \in exchanges /\ x.phase = "read"
    /\ Becomes(x, [x EXCEPT !.phase = "spent"])
    /\ UNCHANGED <<left, issued, live, aged, store, storage, calls, byes, login, sent, mixed>>

\* The used row is revoked, in a transaction of its own.
Revoke(x) ==
    /\ x \in exchanges /\ x.phase = "read"
    /\ live' = live \ {x.pair}
    /\ Becomes(x, [x EXCEPT !.phase = "spent"])
    /\ UNCHANGED <<left, issued, aged, store, storage, calls, byes, login, sent, mixed>>

\* And a new one is issued in the next.
IssueTokens(x) ==
    /\ x \in exchanges /\ x.phase = "spent"
    /\ issued' = issued + 1
    /\ live' = live \cup {issued + 1}
    /\ Becomes(x, [x EXCEPT !.phase = "answer", !.got = issued + 1])
    /\ UNCHANGED <<left, aged, store, storage, calls, byes, login, sent, mixed>>
------------------------------------------------------------------------------
(* Logging out and in.                                                     *)

\* The store is emptied first; the server hears of it without anyone waiting.
Logout(t) ==
    /\ store[t] # 0 /\ Uses("logouts") /\ Spend("logouts")
    /\ Holds(t, 0)
    /\ byes' = byes \cup {store[t]}
    /\ mixed' = (mixed \/ Exchanging(t))
    /\ UNCHANGED <<issued, live, aged, calls, exchanges, login, sent>>

ServeLogout(p) ==
    /\ p \in byes
    /\ byes' = byes \ {p}
    /\ live' = live \ {p}
    /\ UNCHANGED <<left, issued, aged, store, storage, calls, exchanges, login, sent, mixed>>

AskLogin(t) ==
    /\ store[t] = 0 /\ login[t] = NoLogin /\ Uses("logins") /\ Spend("logins")
    /\ login' = [login EXCEPT ![t].phase = "asked"]
    /\ mixed' = (mixed \/ Exchanging(t))
    /\ UNCHANGED <<issued, live, aged, store, storage, calls, exchanges, byes, sent>>

ServeLogin(t) ==
    /\ login[t].phase = "asked"
    /\ issued' = issued + 1
    /\ live' = live \cup {issued + 1}
    /\ login' = [login EXCEPT ![t] = [phase |-> "answer", got |-> issued + 1]]
    /\ UNCHANGED <<left, aged, store, storage, calls, exchanges, byes, sent, mixed>>

\* The pair is kept and the user is asked for with it.
LoginArrives(t) ==
    /\ login[t].phase = "answer" /\ HasRoom(t)
    /\ login' = [login EXCEPT ![t] = NoLogin]
    /\ Holds(t, login[t].got)
    /\ Goes(t, FreeSlot(t), Fresh([op |-> "me"], login[t].got))
    /\ mixed' = (mixed \/ store[t] # 0)
    /\ UNCHANGED <<left, issued, live, aged, exchanges, byes, sent>>

\* A tab that is reloaded reads localStorage; what it was waiting for is forgotten.
Reload(t) ==
    /\ Uses("reloads") /\ Spend("reloads")
    /\ login[t] = NoLogin /\ \A s \in Slots : calls[t][s].phase # "read"
    /\ store' = [store EXCEPT ![t] = storage]
    /\ calls' = [calls EXCEPT ![t] = [s \in Slots |-> NoCall]]
    /\ exchanges' = {IF x.by = t THEN [x EXCEPT !.by = Nobody] ELSE x : x \in exchanges}
    /\ sent' = [sent EXCEPT ![t] = {}]
    /\ mixed' = (mixed \/ Exchanging(t) \/ store[t] # storage)
    /\ UNCHANGED <<issued, live, aged, storage, byes, login>>
------------------------------------------------------------------------------
(* What may be lost: a request or an answer, the second transaction of a   *)
(* rotation, the notice of a logout.                                       *)

LoseCall(t, s) ==
    LET c == calls[t][s] IN
    /\ c.phase = "sent" \/ (c.phase = "back" /\ c.ans \notin {Denied, Failed, Lost})
    /\ Uses("faults") /\ Spend("faults")
    /\ Answered(t, s, IF c.phase = "sent" THEN Failed ELSE Lost)
    /\ UNCHANGED sessionVars

LoseExchange(x) ==
    /\ x \in exchanges /\ x.phase \in {"asked", "spent", "answer"} /\ Uses("faults") /\ Spend("faults")
    /\ Becomes(x, [x EXCEPT !.phase = "lost"])
    /\ mixed' = TRUE
    /\ UNCHANGED <<issued, live, aged, store, storage, calls, byes, login, sent>>

LoseLogout(p) ==
    /\ p \in byes /\ Uses("faults") /\ Spend("faults")
    /\ byes' = byes \ {p}
    /\ mixed' = TRUE
    /\ UNCHANGED <<issued, live, aged, store, storage, calls, exchanges, login, sent>>

LoseLogin(t) ==
    /\ login[t].phase # "none" /\ Uses("faults") /\ Spend("faults")
    /\ login' = [login EXCEPT ![t] = NoLogin]
    /\ mixed' = TRUE
    /\ UNCHANGED <<issued, live, aged, store, storage, calls, exchanges, byes, sent>>
------------------------------------------------------------------------------
\* What the network and the server do by themselves.
SessionProgress ==
    \/ \E t \in Tabs, s \in Slots :
          TurnAway(t, s) \/ ServeRead(t, s) \/ ReadArrives(t, s) \/ GivesUp(t, s) \/ Unauthorized(t, s)
    \/ \E x \in exchanges :
          Refreshed(x) \/ RefreshFailed(x) \/ Unread(x) \/ Present(x) \/ Revoke(x) \/ IssueTokens(x)
    \/ \E p \in byes : ServeLogout(p)
    \/ \E t \in Tabs : ServeLogin(t) \/ LoginArrives(t)

\* What users, time and faults do.
SessionMoves ==
    \/ \E t \in Tabs : Ask(t) \/ Logout(t) \/ AskLogin(t) \/ LoseLogin(t)
    \/ \E t \in Tabs, s \in Slots : LoseCall(t, s)
    \/ \E p \in 1..issued : Age(p)
    \/ \E x \in exchanges : LoseExchange(x)
    \/ \E p \in byes : LoseLogout(p)

\* Nothing of the session is on its way.
SessionAtRest == exchanges = {} /\ byes = {} /\ \A t \in Tabs : login[t] = NoLogin
================================================================================
