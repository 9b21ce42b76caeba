---------------------------- MODULE StateMachines ----------------------------
(***************************************************************************)
(* The two transition tables every service consults before it writes a     *)
(* status: `ALLOWED_TRANSITIONS` of a remate and of a lote, as sets of     *)
(* <<from, to>> pairs.  `assert_transition_allowed(current, target)` is    *)
(* the test <<current, target>> \in RemateMoves (or LoteMoves).            *)
(***************************************************************************)

RemateStatus == {"DRAFT", "SCHEDULED", "LIVE", "PAUSED", "FINISHED", "CANCELLED"}

RemateMoves ==
    { <<"DRAFT", "SCHEDULED">>, <<"DRAFT", "CANCELLED">>,
      <<"SCHEDULED", "LIVE">>,  <<"SCHEDULED", "CANCELLED">>,
      <<"LIVE", "PAUSED">>,     <<"LIVE", "FINISHED">>, <<"LIVE", "CANCELLED">>,
      <<"PAUSED", "LIVE">>,     <<"PAUSED", "CANCELLED">> }

LoteStatus == {"PENDING", "OPEN", "CLOSED_SOLD", "CLOSED_UNSOLD", "CANCELLED"}

LoteMoves ==
    { <<"PENDING", "OPEN">>,     <<"PENDING", "CANCELLED">>,
      <<"OPEN", "CLOSED_SOLD">>, <<"OPEN", "CLOSED_UNSOLD">>, <<"OPEN", "CANCELLED">>,
      <<"CLOSED_UNSOLD", "PENDING">> }

==============================================================================
