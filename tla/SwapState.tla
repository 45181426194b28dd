----------------------------- MODULE SwapState -----------------------------
(***************************************************************************)
(* The pure swap finite-state machine of gravity/swap_state.py: its        *)
(* states, its events, the transition table, and the operators the         *)
(* coordinator and the watchtower ask of it.  The table is a set of        *)
(* <<state, event, target>> triples; a pair that is not in it is what      *)
(* advance() refuses.                                                      *)
(***************************************************************************)
SwapStates ==
  {"NEGOTIATED", "BTC_LOCKED", "BOTH_LOCKED", "SECRET_REVEALED", "COMPLETED",
   "PARAMS_MISMATCH", "MAKER_STALLS", "ASSET_VULNERABLE", "ABORTED",
   "MUTUAL_REFUND", "ASSET_REFUNDED_TAKER_ACTS", "ONE_SIDED_LOSS_TAKER"}

TerminalStates ==
  {"COMPLETED", "MUTUAL_REFUND", "ABORTED", "ASSET_REFUNDED_TAKER_ACTS",
   "ONE_SIDED_LOSS_TAKER"}

SwapEvents ==
  {"TAKER_FUNDS_BTC", "TAKER_NEVER_FUNDS", "MAKER_LOCKS_ASSET",
   "MAKER_NEVER_LOCKS_BTC_TIMEOUT", "MAKER_LOCKS_WRONG_PARAMS",
   "TAKER_REFUNDS_BTC", "MAKER_CLAIMS_BTC_REVEALS_P", "MAKER_STALL_DETECTED",
   "BOTH_TIMEOUTS_ELAPSE", "TAKER_REFUNDS_ASSET_PROACTIVELY",
   "TAKER_SCRAPES_P_CLAIMS_ASSET", "TAKER_OFFLINE_OR_PINNED",
   "MAKER_REFUNDS_ASSET_CSV"}

Transitions ==
  {<<"NEGOTIATED", "TAKER_FUNDS_BTC", "BTC_LOCKED">>,
   <<"NEGOTIATED", "TAKER_NEVER_FUNDS", "ABORTED">>,
   <<"BTC_LOCKED", "MAKER_LOCKS_ASSET", "BOTH_LOCKED">>,
   <<"BTC_LOCKED", "MAKER_NEVER_LOCKS_BTC_TIMEOUT", "ABORTED">>,
   <<"BTC_LOCKED", "MAKER_LOCKS_WRONG_PARAMS", "PARAMS_MISMATCH">>,
   <<"PARAMS_MISMATCH", "TAKER_REFUNDS_BTC", "ABORTED">>,
   <<"BOTH_LOCKED", "MAKER_CLAIMS_BTC_REVEALS_P", "SECRET_REVEALED">>,
   <<"BOTH_LOCKED", "MAKER_STALL_DETECTED", "MAKER_STALLS">>,
   <<"BOTH_LOCKED", "BOTH_TIMEOUTS_ELAPSE", "MUTUAL_REFUND">>,
   <<"MAKER_STALLS", "TAKER_REFUNDS_ASSET_PROACTIVELY",
     "ASSET_REFUNDED_TAKER_ACTS">>,
   <<"SECRET_REVEALED", "TAKER_SCRAPES_P_CLAIMS_ASSET", "COMPLETED">>,
   <<"SECRET_REVEALED", "TAKER_OFFLINE_OR_PINNED", "ASSET_VULNERABLE">>,
   <<"ASSET_VULNERABLE", "MAKER_REFUNDS_ASSET_CSV", "ONE_SIDED_LOSS_TAKER">>,
   <<"ASSET_VULNERABLE", "TAKER_SCRAPES_P_CLAIMS_ASSET", "COMPLETED">>}

CanTransition(s, e) == \E t \in SwapStates : <<s, e, t>> \in Transitions

AllowedTargets(s) == {t \in SwapStates : \E e \in SwapEvents : <<s, e, t>> \in Transitions}

IsTerminal(s) == s \in TerminalStates

(***************************************************************************)
(* advance(state, event): the target of the pair.  The coordinator only    *)
(* calls it on a pair that its own state guard admits; elsewhere it raises *)
(* and the callers below are not enabled.                                  *)
(***************************************************************************)
Advance(s, e) == CHOOSE t \in SwapStates : <<s, e, t>> \in Transitions

(* The reflexive-transitive closure of the table, by repeated squaring: no *)
(* path of the FSM is longer than eight events.                            *)
Compose(R) ==
  {<<pq[1][1], pq[2][2]>> : pq \in {x \in R \X R : x[1][2] = x[2][1]}}
Reach1 == {<<s, s>> : s \in SwapStates} \cup {<<t[1], t[3]>> : t \in Transitions}
Reach2 == Compose(Reach1)
Reach4 == Compose(Reach2)
Reach8 == Compose(Reach4)

(* Every state some sequence of legal events leads to from s, s included.  *)
ReachableFrom(s) == {t \in SwapStates : <<s, t>> \in Reach8}
=============================================================================
