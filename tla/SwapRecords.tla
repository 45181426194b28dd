---------------------------- MODULE SwapRecords ----------------------------
(***************************************************************************)
(* NegotiatedTerms and SwapRecord of gravity/swap_state.py: how terms are  *)
(* validated and normalised, how a record grows as the locks land, and its *)
(* JSON form, which is all that a restarted coordinator, the other host    *)
(* and the watchtower have of a swap.                                      *)
(*                                                                         *)
(* A constructor gives <<object>>, or <<>> where it raises.  Bytes that go *)
(* through hex unchanged are left out, but for the lengths and the         *)
(* placeholder that are checked.  A dict is a function on its keys.        *)
(***************************************************************************)
EXTENDS SwapState, ClaimFinality, Sequences

CONSTANTS
  SatsArgs, Values, Deadlines, \* btc_sats, value_amount, eth_timeout_unix_s
  TBtcs, TRxds,                \* the two timelocks
  LocatorAmounts,              \* amounts a locator may hold
  MaxRestarts

ASSUME ArgumentsAreInts ==
  SatsArgs \subseteq Int /\ Values \subseteq Int /\ Deadlines \subseteq Int

VARIABLES
  args,    \* what the caller passed to NegotiatedTerms
  rec,     \* the record in memory
  file,    \* the dict on disk, <<dict>>, or <<>>
  saved,   \* history: the record that was written to it
  restarts

recordsVars == <<args, rec, file, saved, restarts>>

Get(d, key, default) == IF key \in DOMAIN d THEN d[key] ELSE default

--------------------------------------------------------- (* the terms *)

Chains == {"btc", "eth"}
Variants == {"rxd", "ft", "nft"}

Arguments ==
  [counter_chain : Chains \cup {"other"}, btc_sats : SatsArgs, value_amount : Values,
   eth_timeout_unix_s : Deadlines, t_btc : TBtcs, t_rxd : TRxds,
   asset_variant : {"rxd", "nft"}, genesis_ref : BOOLEAN, credential_ref : {0, 36},
   xonly : {"zero", "key"}]

Agreed(a) ==
  /\ a.btc_sats > 0 /\ a.counter_chain \in Chains /\ a.asset_variant \in Variants
  /\ a.asset_variant \in {"ft", "nft"} => a.genesis_ref
  /\ a.credential_ref \in {0, 36}
  /\ a.t_rxd.unit = "BLOCKS"
  /\ a.t_btc.unit = a.t_rxd.unit => a.t_btc.value > a.t_rxd.value

(* Mutation: the sentinel stands for btc_sats on every chain.              *)
SentinelOnEveryChain(a) ==
  IF Agreed(a) /\ (a.counter_chain = "eth" <=> a.eth_timeout_unix_s # None)
     /\ (a.counter_chain = "eth" => a.xonly = "zero")
     /\ a.value_amount \in {0, a.btc_sats}
  THEN <<[a EXCEPT !.value_amount = a.btc_sats]>>
  ELSE <<>>

(* __post_init__.  Without a value_amount (0) a BTC swap takes btc_sats; a *)
(* number of wei has to be given.  A deadline and the placeholder keys are *)
(* what an ETH swap has and a BTC swap has not.                            *)
NegotiatedTerms(a) ==
  IF Agreed(a) /\ a.counter_chain = "btc" /\ a.value_amount \in {0, a.btc_sats}
     /\ a.eth_timeout_unix_s = None
  THEN <<[a EXCEPT !.value_amount = a.btc_sats]>>
  ELSE IF Agreed(a) /\ a.counter_chain = "eth" /\ a.value_amount > 0
          /\ a.eth_timeout_unix_s > 0 /\ a.xonly = "zero"
  THEN <<a>>
  ELSE <<>>

V1Keys ==
  {"btc_sats", "t_btc", "t_rxd", "asset_variant", "genesis_ref", "xonly"}

(* to_dict: what an ETH swap adds is written only where it differs from    *)
(* what a BTC swap has.                                                    *)
WrittenKeys(t) ==
  V1Keys
    \cup (IF t.counter_chain # "btc" THEN {"counter_chain"} ELSE {})
    \cup (IF t.value_amount # t.btc_sats THEN {"value_amount"} ELSE {})
    \cup (IF t.eth_timeout_unix_s # None THEN {"eth_timeout_unix_s"} ELSE {})
    \cup (IF t.credential_ref > 0 THEN {"credential_ref"} ELSE {})
TermsToDict(t) == [k \in WrittenKeys(t) |-> t[k]]

TermsFromDict(d) ==
  NegotiatedTerms(
    [counter_chain |-> Get(d, "counter_chain", "btc"), btc_sats |-> d.btc_sats,
     value_amount |-> Get(d, "value_amount", 0),
     eth_timeout_unix_s |-> Get(d, "eth_timeout_unix_s", None),
     t_btc |-> d.t_btc, t_rxd |-> d.t_rxd, asset_variant |-> d.asset_variant,
     genesis_ref |-> d.genesis_ref, credential_ref |-> Get(d, "credential_ref", 0),
     xonly |-> d.xonly])

-------------------------------------------------------- (* the record *)

(* A funded HTLC's locator, its chain and its amount.                      *)
Locator(chain, amount) == [chain |-> chain, amount |-> amount]
Locators == {Locator(chain, amount) : chain \in Chains, amount \in LocatorAmounts}

(* __post_init__: the locator is of the negotiated chain.                  *)
SwapRecord(state, terms, locator, covenant) ==
  IF \A i \in DOMAIN locator : locator[i].chain = terms.counter_chain
  THEN <<[state |-> state, terms |-> terms, locator |-> locator, covenant |-> covenant]>>
  ELSE <<>>

(* Mutation: every locator goes where the BTC one was.                     *)
BareToDict(r) ==
  [state |-> r.state, terms |-> TermsToDict(r.terms), covenant |-> r.covenant,
   btc_locator |-> r.locator]

(* to_dict: an ETH locator is tagged with its chain, anything else is in   *)
(* the form of before.                                                     *)
ToDict(r) ==
  IF r.locator # <<>> /\ r.locator[1].chain = "eth"
  THEN [state |-> r.state, terms |-> TermsToDict(r.terms), covenant |-> r.covenant,
        schema_version |-> 2, counterchain_locator |-> r.locator[1]]
  ELSE [state |-> r.state, terms |-> TermsToDict(r.terms), covenant |-> r.covenant,
        btc_locator |-> r.locator]

(* The bare form is always read as a BTC locator, which needs its scripts. *)
LocatorFromDict(d) ==
  IF "counterchain_locator" \in DOMAIN d THEN <<d.counterchain_locator>> ELSE d.btc_locator

FromDict(d) ==
  LET terms == TermsFromDict(d.terms)
      bare == "btc_locator" \in DOMAIN d
  IN  IF terms = <<>> \/ (bare /\ \E i \in DOMAIN d.btc_locator : d.btc_locator[i].chain # "btc")
      THEN <<>>
      ELSE SwapRecord(d.state, terms[1], LocatorFromDict(d), d.covenant)

------------------------------------------------------ (* a swap's life *)

RecordsInit ==
  /\ args \in Arguments
  /\ rec = (LET t == NegotiatedTerms(args)
            IN IF t = <<>> THEN <<>> ELSE SwapRecord("NEGOTIATED", t[1], <<>>, FALSE))
  /\ file = <<>> /\ saved = <<>> /\ restarts = 0

(* with_counter_lock and with_state, which make a new record of the old.   *)
CounterLock(locator) ==
  /\ rec # <<>> /\ rec[1].state = "NEGOTIATED"
  /\ LET r == SwapRecord("BTC_LOCKED", rec[1].terms, <<locator>>, rec[1].covenant)
     IN r # <<>> /\ rec' = r
  /\ UNCHANGED <<args, file, saved, restarts>>

(* with_radiant_lock: the covenant's outpoint and script.                  *)
RadiantLock ==
  /\ rec # <<>> /\ rec[1].state = "BTC_LOCKED"
  /\ rec' = SwapRecord("BOTH_LOCKED", rec[1].terms, rec[1].locator, TRUE)
  /\ UNCHANGED <<args, file, saved, restarts>>

(* with_state, wherever the coordinator's advance leads to.                *)
WithState(to) ==
  /\ rec # <<>> /\ to \in AllowedTargets(rec[1].state) \ {"BTC_LOCKED", "BOTH_LOCKED"}
  /\ rec' = SwapRecord(to, rec[1].terms, rec[1].locator, rec[1].covenant)
  /\ UNCHANGED <<args, file, saved, restarts>>

Save ==
  /\ rec # <<>> /\ rec # saved
  /\ file' = <<ToDict(rec[1])>> /\ saved' = rec
  /\ UNCHANGED <<args, rec, restarts>>

(* The process that reads the file has nothing else.                       *)
Restart ==
  /\ file # <<>> /\ restarts < MaxRestarts
  /\ rec' = FromDict(file[1]) /\ restarts' = restarts + 1
  /\ UNCHANGED <<args, file, saved>>

RecordsNext ==
  \/ \E l \in Locators : CounterLock(l)
  \/ RadiantLock \/ Save \/ Restart
  \/ \E to \in SwapStates : WithState(to)

RecordsSpec == RecordsInit /\ [][RecordsNext]_recordsVars

----------------------------------------------------------- (* properties *)

(* An ETH swap's wei are those that were agreed, whatever was saved, read  *)
(* and saved again since: they never become a number of satoshis           *)
(* (swap_state.py:281).                                                    *)
WeiStayWei ==
  rec # <<>> /\ args.counter_chain = "eth" =>
    rec[1].terms.value_amount = args.value_amount /\ args.value_amount > 0

(* What is read from a file is what was written to it, and would be        *)
(* written to it again; a file of a BTC swap has no key that older code    *)
(* does not know.  A file is refused only where the number of wei is the   *)
(* number in btc_sats, see RoundTrips.                                     *)
ReadsWhatWasWritten ==
  file # <<>> =>
    LET back == FromDict(file[1])
    IN  /\ \/ back = saved /\ ToDict(back[1]) = file[1]
           \/ back = <<>> /\ args.counter_chain = "eth" /\ args.value_amount = args.btc_sats
        /\ args.counter_chain = "btc" =>
             DOMAIN file[1].terms \subseteq V1Keys \cup {"credential_ref"}

(* A swap's record is read back from its file as it was written, with an   *)
(* ETH swap's wei as they were agreed.                                     *)
RecordsAreReadBack == WeiStayWei /\ ReadsWhatWasWritten

(* swap_state.py:414: a record "Round-trips to/from JSON via hex".  An ETH *)
(* swap whose number of wei is its btc_sats is written without             *)
(* value_amount, and cannot be read again.                                 *)
RoundTrips == file # <<>> => FromDict(file[1]) = saved
=============================================================================
