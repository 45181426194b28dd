----------------------------- MODULE LegProofs -----------------------------
(***************************************************************************)
(* What the coordinator of a swap stands on: its record, its two kinds of  *)
(* counter leg and the signatures on its Radiant transactions.             *)
(*                                                                         *)
(* The record (gravity/swap_state.py), for any amounts and timelocks: the  *)
(* dict leaves a value out exactly where the constructor puts it back.     *)
(*                                                                         *)
(* The Ethereum leg (eth_wallet/), for any chain with finality: an address *)
(* holds one contract because the nonces of its creator count, and what is *)
(* read in a finalized block is never undone.                              *)
(*                                                                         *)
(* The Bitcoin leg (btc_wallet/), for any timeouts and any chain without   *)
(* finality: the funding is mined once, a refund is late wherever it is,   *)
(* a reorganization that makes it early again takes it out of the pool,    *)
(* and every way to cut a claim short makes its readers fail together.     *)
(*                                                                         *)
(* The signatures (transaction/), for any flags and any inputs and outputs *)
(* in any order: two transactions have the same preimage exactly if they   *)
(* agree in all that the flag covers.                                      *)
(***************************************************************************)
EXTENDS SwapRecords, EthLeg, BtcLeg, Signing, FiniteSetTheorems, SequenceTheorems, TLAPS

------------------------------------------------------------ (* the record *)

(* Terms are arguments whose value may be another number.                  *)
TermsOf ==
  [counter_chain : Chains \cup {"other"}, btc_sats : Int, value_amount : Int,
   eth_timeout_unix_s : Int, t_btc : TBtcs, t_rxd : TRxds,
   asset_variant : {"rxd", "nft"}, genesis_ref : BOOLEAN, credential_ref : {0, 36},
   xonly : {"zero", "key"}]

(* A record may have no locator yet.                                       *)
LocatorOrNot == {<<>>} \cup {<<l>> : l \in Locators}

(* The records a swap can have: its terms are those that were agreed, and  *)
(* its locator is of their chain.                                          *)
RecordsOf(a) ==
  {r \in [state : SwapStates, terms : {NegotiatedTerms(a)[1]}, locator : LocatorOrNot,
          covenant : BOOLEAN] :
     NegotiatedTerms(a) # <<>> /\ (r.locator # <<>> => r.locator[1].chain = a.counter_chain)}
(* No record, or one of those of the arguments.                            *)
RecordOrNot(a) == {<<>>} \cup {<<r>> : r \in RecordsOf(a)}

(* The inductive invariant: the record in memory and the one that was      *)
(* saved are records of the same agreed terms, and the file is the         *)
(* latter's dict.                                                          *)
RecordsInv ==
  /\ args \in Arguments
  /\ rec \in RecordOrNot(args) /\ saved \in RecordOrNot(args)
  /\ file = IF saved = <<>> THEN <<>> ELSE <<ToDict(saved[1])>>

(* What a caller may pass has the types of the fields.                     *)
LEMMA ArgumentsAreTerms == Arguments \subseteq TermsOf
  BY ArgumentsAreInts DEF Arguments, TermsOf

(* __post_init__: a BTC swap's value is its btc_sats, everything else      *)
(* stays; and the terms are agreed on if the arguments are.                *)
LEMMA TermsAreNormal ==
  ASSUME NEW a \in TermsOf, NegotiatedTerms(a) # <<>>
  PROVE  LET T == NegotiatedTerms(a)[1] IN
         /\ NegotiatedTerms(a) = <<T>> /\ T \in TermsOf /\ Agreed(T)
         /\ T.counter_chain = a.counter_chain /\ T.btc_sats = a.btc_sats
         /\ \/ /\ T.counter_chain = "btc" /\ T.value_amount = T.btc_sats
               /\ T.eth_timeout_unix_s = None
            \/ /\ T.counter_chain = "eth" /\ T = a /\ T.value_amount > 0
               /\ T.eth_timeout_unix_s > 0 /\ T.xonly = "zero"
  <1> DEFINE n == [a EXCEPT !.value_amount = a.btc_sats]
  <1>1. CASE Agreed(a) /\ a.counter_chain = "btc" /\ a.value_amount \in {0, a.btc_sats}
             /\ a.eth_timeout_unix_s = None
    <2>1. NegotiatedTerms(a) = <<n>>
      BY <1>1 DEF NegotiatedTerms
    <2>2. /\ n \in TermsOf /\ n.value_amount = a.btc_sats /\ n.btc_sats = a.btc_sats
          /\ n.counter_chain = a.counter_chain /\ n.eth_timeout_unix_s = a.eth_timeout_unix_s
          /\ n.asset_variant = a.asset_variant /\ n.genesis_ref = a.genesis_ref
          /\ n.credential_ref = a.credential_ref /\ n.t_rxd = a.t_rxd /\ n.t_btc = a.t_btc
      BY DEF TermsOf
    <2> HIDE DEF n
    <2>3. Agreed(n)
      BY <1>1, <2>2 DEF Agreed
    <2> QED BY <1>1, <2>1, <2>2, <2>3
  <1>2. CASE ~(Agreed(a) /\ a.counter_chain = "btc" /\ a.value_amount \in {0, a.btc_sats}
               /\ a.eth_timeout_unix_s = None)
    <2>1. /\ Agreed(a) /\ a.counter_chain = "eth" /\ a.value_amount > 0
          /\ a.eth_timeout_unix_s > 0 /\ a.xonly = "zero" /\ NegotiatedTerms(a) = <<a>>
      BY <1>2 DEF NegotiatedTerms
    <2> QED BY <2>1
  <1> QED BY <1>1, <1>2

(* What from_dict passes to the constructor is what was written, but for a *)
(* value that equals btc_sats, which is left out and read as 0.            *)
LEMMA DictKeepsTerms ==
  ASSUME NEW T \in TermsOf
  PROVE  TermsFromDict(TermsToDict(T)) =
           NegotiatedTerms([T EXCEPT !.value_amount =
                              IF T.value_amount # T.btc_sats THEN T.value_amount ELSE 0])
  <1> DEFINE d == TermsToDict(T)
             v == IF T.value_amount # T.btc_sats THEN T.value_amount ELSE 0
  <1>1. DOMAIN d = WrittenKeys(T) /\ \A k \in WrittenKeys(T) : d[k] = T[k]
    BY DEF TermsToDict
  <1>2. V1Keys \subseteq WrittenKeys(T)
    BY DEF WrittenKeys
  <1>3. /\ d.btc_sats = T.btc_sats /\ d.t_btc = T.t_btc /\ d.t_rxd = T.t_rxd
        /\ d.asset_variant = T.asset_variant /\ d.genesis_ref = T.genesis_ref
        /\ d.xonly = T.xonly
    BY <1>1, <1>2 DEF V1Keys
  <1>4. Get(d, "counter_chain", "btc") = T.counter_chain
    <2>1. "counter_chain" \in WrittenKeys(T) <=> T.counter_chain # "btc"
      BY DEF WrittenKeys, V1Keys
    <2> QED BY <1>1, <2>1 DEF Get
  <1>5. Get(d, "value_amount", 0) = v
    <2>1. "value_amount" \in WrittenKeys(T) <=> T.value_amount # T.btc_sats
      BY DEF WrittenKeys, V1Keys
    <2> QED BY <1>1, <2>1 DEF Get
  <1>6. Get(d, "eth_timeout_unix_s", None) = T.eth_timeout_unix_s
    <2>1. "eth_timeout_unix_s" \in WrittenKeys(T) <=> T.eth_timeout_unix_s # None
      BY DEF WrittenKeys, V1Keys
    <2> QED BY <1>1, <2>1 DEF Get
  <1>7. Get(d, "credential_ref", 0) = T.credential_ref
    <2>1. "credential_ref" \in WrittenKeys(T) <=> T.credential_ref > 0
      BY DEF WrittenKeys, V1Keys
    <2>2. T.credential_ref \in {0, 36}
      BY DEF TermsOf
    <2>3. CASE T.credential_ref = 0
      BY <1>1, <2>1, <2>3 DEF Get
    <2>4. CASE T.credential_ref = 36
      BY <1>1, <2>1, <2>4 DEF Get
    <2> QED BY <2>2, <2>3, <2>4
  <1> HIDE DEF d, v
  <1>8. [T EXCEPT !.value_amount = v] =
          [counter_chain |-> T.counter_chain, btc_sats |-> T.btc_sats, value_amount |-> v,
           eth_timeout_unix_s |-> T.eth_timeout_unix_s, t_btc |-> T.t_btc, t_rxd |-> T.t_rxd,
           asset_variant |-> T.asset_variant, genesis_ref |-> T.genesis_ref,
           credential_ref |-> T.credential_ref, xonly |-> T.xonly]
    BY DEF TermsOf
  <1> QED BY <1>3, <1>4, <1>5, <1>6, <1>7, <1>8 DEF TermsFromDict, d, v

(* Terms that were agreed are read back, or refused: where an ETH swap's   *)
(* number of wei is its btc_sats.                                          *)
LEMMA TermsComeBack ==
  ASSUME NEW T \in TermsOf, Agreed(T),
         \/ /\ T.counter_chain = "btc" /\ T.value_amount = T.btc_sats
            /\ T.eth_timeout_unix_s = None
         \/ /\ T.counter_chain = "eth" /\ T.value_amount > 0
            /\ T.eth_timeout_unix_s > 0 /\ T.xonly = "zero"
  PROVE  \/ TermsFromDict(TermsToDict(T)) = <<T>>
         \/ /\ TermsFromDict(TermsToDict(T)) = <<>>
            /\ T.counter_chain = "eth" /\ T.value_amount = T.btc_sats
  <1> DEFINE v == IF T.value_amount # T.btc_sats THEN T.value_amount ELSE 0
             b == [T EXCEPT !.value_amount = v]
  <1>1. TermsFromDict(TermsToDict(T)) = NegotiatedTerms(b)
    BY DictKeepsTerms
  <1>2. v \in Int
    BY DEF TermsOf
  <1> HIDE DEF v
  <1>3. /\ b \in TermsOf /\ b.value_amount = v /\ b.btc_sats = T.btc_sats
        /\ b.counter_chain = T.counter_chain /\ b.eth_timeout_unix_s = T.eth_timeout_unix_s
        /\ b.asset_variant = T.asset_variant /\ b.genesis_ref = T.genesis_ref
        /\ b.credential_ref = T.credential_ref /\ b.t_rxd = T.t_rxd /\ b.t_btc = T.t_btc
        /\ b.xonly = T.xonly
    BY <1>2 DEF TermsOf
  <1>4. [b EXCEPT !.value_amount = T.value_amount] = T
    BY DEF TermsOf
  <1> HIDE DEF b
  <1>5. Agreed(b)
    BY <1>3 DEF Agreed
  <1>6. CASE T.counter_chain = "btc"
    <2>1. v = 0 /\ T.value_amount = T.btc_sats
      BY <1>6 DEF v
    <2>2. NegotiatedTerms(b) = <<[b EXCEPT !.value_amount = b.btc_sats]>>
      BY <1>3, <1>5, <1>6, <2>1 DEF NegotiatedTerms
    <2> QED BY <1>1, <1>3, <1>4, <2>1, <2>2
  <1>7. CASE T.counter_chain = "eth" /\ T.value_amount # T.btc_sats
    <2>1. v = T.value_amount /\ b = T
      BY <1>7 DEF v, b, TermsOf
    <2>2. NegotiatedTerms(T) = <<T>>
      BY <1>7 DEF NegotiatedTerms
    <2> QED BY <1>1, <2>1, <2>2
  <1>8. CASE T.counter_chain = "eth" /\ T.value_amount = T.btc_sats
    <2>1. v = 0
      BY <1>8 DEF v
    <2>2. NegotiatedTerms(b) = <<>>
      BY <1>3, <1>8, <2>1 DEF NegotiatedTerms
    <2> QED BY <1>1, <1>8, <2>2
  <1> QED BY <1>6, <1>7, <1>8

(* A whole record is read back as it was written, or refused for its terms.*)
LEMMA RecordComesBack ==
  ASSUME NEW a \in Arguments, NEW r \in RecordsOf(a)
  PROVE  \/ FromDict(ToDict(r)) = <<r>>
         \/ FromDict(ToDict(r)) = <<>> /\ a.counter_chain = "eth" /\ a.value_amount = a.btc_sats
  <1> DEFINE T == NegotiatedTerms(a)[1]
             d == ToDict(r)
  <1>1. a \in TermsOf /\ NegotiatedTerms(a) # <<>> /\ r.terms = T
    BY ArgumentsAreTerms DEF RecordsOf
  <1>2. /\ T \in TermsOf /\ Agreed(T) /\ T.counter_chain = a.counter_chain
        /\ T.btc_sats = a.btc_sats
        /\ \/ /\ T.counter_chain = "btc" /\ T.value_amount = T.btc_sats
              /\ T.eth_timeout_unix_s = None
           \/ /\ T.counter_chain = "eth" /\ T = a /\ T.value_amount > 0
              /\ T.eth_timeout_unix_s > 0 /\ T.xonly = "zero"
    BY <1>1, TermsAreNormal
  <1> HIDE DEF T
  <1>3. \/ TermsFromDict(TermsToDict(T)) = <<T>>
        \/ /\ TermsFromDict(TermsToDict(T)) = <<>>
           /\ a.counter_chain = "eth" /\ a.value_amount = a.btc_sats
    BY <1>2, TermsComeBack
  <1>4. /\ r = [state |-> r.state, terms |-> T, locator |-> r.locator, covenant |-> r.covenant]
        /\ r.locator \in LocatorOrNot
        /\ r.locator # <<>> => r.locator[1].chain = a.counter_chain
    BY <1>1 DEF RecordsOf, T
  <1>5. /\ d.state = r.state /\ d.covenant = r.covenant /\ d.terms = TermsToDict(T)
    BY <1>1 DEF ToDict
  <1>6. \A i \in DOMAIN r.locator : i = 1 /\ r.locator # <<>>
    BY <1>4 DEF LocatorOrNot
  <1>7. LocatorFromDict(d) = r.locator
        /\ ("btc_locator" \in DOMAIN d =>
              d.btc_locator = r.locator /\ \A i \in DOMAIN r.locator : r.locator[i].chain = "btc")
    <2>1. CASE r.locator # <<>> /\ r.locator[1].chain = "eth"
      <3>1. /\ DOMAIN d = {"state", "terms", "covenant", "schema_version", "counterchain_locator"}
            /\ d.counterchain_locator = r.locator[1]
        BY <2>1 DEF ToDict
      <3>2. r.locator = <<r.locator[1]>>
        BY <1>4, <2>1 DEF LocatorOrNot
      <3> QED BY <3>1, <3>2 DEF LocatorFromDict
    <2>2. CASE ~(r.locator # <<>> /\ r.locator[1].chain = "eth")
      <3>1. /\ DOMAIN d = {"state", "terms", "covenant", "btc_locator"}
            /\ d.btc_locator = r.locator
        BY <2>2 DEF ToDict
      <3>2. \A i \in DOMAIN r.locator : r.locator[i].chain = "btc"
        BY <1>2, <1>4, <1>6, <2>2
      <3> QED BY <3>1, <3>2 DEF LocatorFromDict
    <2> QED BY <2>1, <2>2
  <1>8. SwapRecord(r.state, T, r.locator, r.covenant) = <<r>>
    BY <1>2, <1>4, <1>6 DEF SwapRecord
  <1> HIDE DEF d
  <1>9. CASE TermsFromDict(TermsToDict(T)) = <<T>>
    <2>1. TermsFromDict(d.terms) # <<>> /\ TermsFromDict(d.terms)[1] = T
      BY <1>5, <1>9
    <2>2. FromDict(d) = SwapRecord(r.state, T, r.locator, r.covenant)
      BY <1>5, <1>7, <2>1 DEF FromDict
    <2> QED BY <1>8, <2>2 DEF d
  <1>10. CASE TermsFromDict(TermsToDict(T)) = <<>>
    <2>1. FromDict(d) = <<>>
      BY <1>5, <1>10 DEF FromDict
    <2> QED BY <1>3, <1>10, <2>1 DEF d
  <1> QED BY <1>3, <1>9, <1>10

(* A constructor that does not raise gives a record of the swap.           *)
LEMMA RecordIsMade ==
  ASSUME NEW a \in Arguments, NegotiatedTerms(a) # <<>>, NEW s \in SwapStates,
         NEW l \in LocatorOrNot, NEW c \in BOOLEAN,
         NEW T, T = NegotiatedTerms(a)[1],
         SwapRecord(s, T, l, c) # <<>>
  PROVE  SwapRecord(s, T, l, c) \in RecordOrNot(a)
  <1> DEFINE r == [state |-> s, terms |-> T, locator |-> l, covenant |-> c]
  <1>1. T.counter_chain = a.counter_chain
    BY ArgumentsAreTerms, TermsAreNormal
  <1>2. /\ SwapRecord(s, T, l, c) = <<r>>
        /\ \A i \in DOMAIN l : l[i].chain = T.counter_chain
    BY DEF SwapRecord
  <1>3. l # <<>> => 1 \in DOMAIN l
    BY DEF LocatorOrNot
  <1>4. r \in RecordsOf(a)
    BY <1>1, <1>2, <1>3 DEF RecordsOf
  <1> QED BY <1>2, <1>4 DEF RecordOrNot

(* A record that is there is a record of the swap.                         *)
LEMMA RecordIsThere ==
  ASSUME NEW a \in Arguments, NEW q \in RecordOrNot(a), q # <<>>
  PROVE  /\ q = <<q[1]>> /\ q[1] \in RecordsOf(a)
         /\ NegotiatedTerms(a) # <<>> /\ q[1].terms = NegotiatedTerms(a)[1]
         /\ q[1].state \in SwapStates /\ q[1].locator \in LocatorOrNot
         /\ q[1].covenant \in BOOLEAN
  BY DEF RecordOrNot, RecordsOf

(* Before the swap is negotiated there is neither record nor file.         *)
LEMMA RecordsInvInit == RecordsInit => RecordsInv
  <1> SUFFICES ASSUME RecordsInit PROVE RecordsInv
    OBVIOUS
  <1> DEFINE T == NegotiatedTerms(args)[1]
  <1>1. args \in Arguments /\ saved = <<>> /\ file = <<>>
    BY DEF RecordsInit
  <1>2. rec \in RecordOrNot(args)
    <2>1. CASE NegotiatedTerms(args) = <<>>
      BY <2>1 DEF RecordsInit, RecordOrNot
    <2>2. CASE NegotiatedTerms(args) # <<>>
      <3>1. rec = SwapRecord("NEGOTIATED", T, <<>>, FALSE)
        BY <2>2 DEF RecordsInit
      <3>2. "NEGOTIATED" \in SwapStates /\ <<>> \in LocatorOrNot
        BY DEF SwapStates, LocatorOrNot
      <3>3. SwapRecord("NEGOTIATED", T, <<>>, FALSE) # <<>>
        BY DEF SwapRecord
      <3> QED BY <1>1, <2>2, <3>1, <3>2, <3>3, RecordIsMade
    <2> QED BY <2>1, <2>2
  <1> QED BY <1>1, <1>2 DEF RecordsInv, RecordOrNot

(* Negotiating, setting the locator, advancing, saving and a restart.      *)
LEMMA RecordsInvNext == RecordsInv /\ [RecordsNext]_recordsVars => RecordsInv'
  <1> SUFFICES ASSUME RecordsInv, [RecordsNext]_recordsVars PROVE RecordsInv'
    OBVIOUS
  <1>1. /\ args \in Arguments /\ rec \in RecordOrNot(args) /\ saved \in RecordOrNot(args)
        /\ file = IF saved = <<>> THEN <<>> ELSE <<ToDict(saved[1])>>
    BY DEF RecordsInv
  <1>2. CASE UNCHANGED recordsVars
    BY <1>2 DEF RecordsInv, recordsVars
  <1>3. ASSUME args' = args /\ file' = file /\ saved' = saved, rec' \in RecordOrNot(args)
        PROVE  RecordsInv'
    BY <1>1, <1>3 DEF RecordsInv
  <1>4. ASSUME NEW l \in Locators, CounterLock(l) PROVE RecordsInv'
    <2>1. /\ rec # <<>> /\ rec' = SwapRecord("BTC_LOCKED", rec[1].terms, <<l>>, rec[1].covenant)
          /\ rec' # <<>> /\ args' = args /\ file' = file /\ saved' = saved
      BY <1>4 DEF CounterLock
    <2>2. "BTC_LOCKED" \in SwapStates /\ <<l>> \in LocatorOrNot
      BY DEF SwapStates, LocatorOrNot
    <2>3. rec' \in RecordOrNot(args)
      BY <1>1, <2>1, <2>2, RecordIsThere, RecordIsMade
    <2> QED BY <1>3, <2>1, <2>3
  <1>5. CASE RadiantLock
    <2>1. /\ rec # <<>> /\ rec' = SwapRecord("BOTH_LOCKED", rec[1].terms, rec[1].locator, TRUE)
          /\ args' = args /\ file' = file /\ saved' = saved
      BY <1>5 DEF RadiantLock
    <2>2. "BOTH_LOCKED" \in SwapStates
      BY DEF SwapStates
    <2>3. rec' \in RecordOrNot(args)
      BY <1>1, <2>1, <2>2, RecordIsThere, RecordIsMade DEF RecordOrNot
    <2> QED BY <1>3, <2>1, <2>3
  <1>6. ASSUME NEW to \in SwapStates, WithState(to) PROVE RecordsInv'
    <2>1. /\ rec # <<>>
          /\ rec' = SwapRecord(to, rec[1].terms, rec[1].locator, rec[1].covenant)
          /\ args' = args /\ file' = file /\ saved' = saved
      BY <1>6 DEF WithState
    <2>2. rec' \in RecordOrNot(args)
      BY <1>1, <2>1, RecordIsThere, RecordIsMade DEF RecordOrNot
    <2> QED BY <1>3, <2>1, <2>2
  <1>7. CASE Save
    BY <1>1, <1>7 DEF Save, RecordsInv
  <1>8. CASE Restart
    <2>1. /\ saved # <<>> /\ file = <<ToDict(saved[1])>> /\ rec' = FromDict(ToDict(saved[1]))
          /\ args' = args /\ file' = file /\ saved' = saved
      BY <1>1, <1>8 DEF Restart
    <2>2. saved = <<saved[1]>> /\ saved[1] \in RecordsOf(args)
      BY <1>1, <2>1, RecordIsThere
    <2>3. rec' = saved \/ rec' = <<>>
      BY <1>1, <2>1, <2>2, RecordComesBack
    <2> QED BY <1>1, <1>3, <2>1, <2>3 DEF RecordOrNot
  <1> QED BY <1>2, <1>4, <1>5, <1>6, <1>7, <1>8 DEF RecordsNext

(* The invariant gives the property: what the file gives back is the       *)
(* record whose dict it is.                                                *)
LEMMA RecordsInvSuffices == RecordsInv => RecordsAreReadBack
  <1> SUFFICES ASSUME RecordsInv PROVE RecordsAreReadBack
    OBVIOUS
  <1>1. /\ args \in Arguments /\ rec \in RecordOrNot(args) /\ saved \in RecordOrNot(args)
        /\ file = IF saved = <<>> THEN <<>> ELSE <<ToDict(saved[1])>>
    BY DEF RecordsInv
  <1>2. WeiStayWei
    <2> SUFFICES ASSUME rec # <<>>, args.counter_chain = "eth"
                 PROVE  rec[1].terms.value_amount = args.value_amount /\ args.value_amount > 0
      BY DEF WeiStayWei
    <2>1. NegotiatedTerms(args) # <<>> /\ rec[1].terms = NegotiatedTerms(args)[1]
      BY <1>1, RecordIsThere
    <2> QED BY <1>1, <2>1, ArgumentsAreTerms, TermsAreNormal
  <1>3. ReadsWhatWasWritten
    <2> SUFFICES ASSUME file # <<>> PROVE ReadsWhatWasWritten
      BY DEF ReadsWhatWasWritten
    <2>1. /\ saved # <<>> /\ file[1] = ToDict(saved[1]) /\ saved = <<saved[1]>>
          /\ saved[1] \in RecordsOf(args)
      BY <1>1, RecordIsThere
    <2>2. \/ FromDict(file[1]) = saved
          \/ /\ FromDict(file[1]) = <<>>
             /\ args.counter_chain = "eth" /\ args.value_amount = args.btc_sats
      BY <1>1, <2>1, RecordComesBack
    <2>3. ASSUME args.counter_chain = "btc"
          PROVE  DOMAIN file[1].terms \subseteq V1Keys \cup {"credential_ref"}
      <3> DEFINE T == saved[1].terms
      <3>1. file[1].terms = TermsToDict(T)
        BY <2>1 DEF ToDict
      <3>2. /\ T.counter_chain = "btc" /\ T.value_amount = T.btc_sats
            /\ T.eth_timeout_unix_s = None
        BY <1>1, <2>1, <2>3, RecordIsThere, ArgumentsAreTerms, TermsAreNormal
      <3> HIDE DEF T
      <3>3. DOMAIN TermsToDict(T) = WrittenKeys(T)
        BY DEF TermsToDict
      <3> QED BY <3>1, <3>2, <3>3 DEF WrittenKeys
    <2> QED BY <2>1, <2>2, <2>3 DEF ReadsWhatWasWritten
  <1> QED BY <1>2, <1>3 DEF RecordsAreReadBack

(* A swap's record (swap_state.py): what is read from its file is what was *)
(* written to it, and an ETH swap's wei stay what was agreed, for any      *)
(* amounts, timelocks, deadlines and number of restarts.                   *)
THEOREM RecordsReadBack == RecordsSpec => []RecordsAreReadBack
  <1>1. RecordsInit => RecordsInv
    BY RecordsInvInit
  <1>2. RecordsInv /\ [RecordsNext]_recordsVars => RecordsInv'
    BY RecordsInvNext
  <1>3. RecordsInv => RecordsAreReadBack
    BY RecordsInvSuffices
  <1> QED BY <1>1, <1>2, <1>3, PTL DEF RecordsSpec

------------------------------------------------------ (* the Ethereum leg *)

(* Transactions and blocks, and what the two parties and the verdict on a  *)
(* claim can be doing.                                                     *)
EthTxs ==
  [who : {"none", "taker", "maker"}, nonce : Nat, op : {"none", "deploy", "claim", "refund"},
   terms : {"none"} \cup Terms, at : Int]
EthBlocks == [hash : Nat, tx : EthTxs, ok : BOOLEAN]

LegPcs == {"idle", "failed", "receipt", "code", "immutables", "balance", "done"}
AskPcs == {"idle", "canonical", "finalized", "LIVE", "FINAL"}

(* The types of the state.                                                 *)
EthTypes ==
  /\ ethChain \in Seq(EthBlocks) /\ fin \in 0..Len(ethChain) /\ hashes \in Nat
  /\ ethPool \subseteq EthTxs /\ IsFiniteSet(ethPool) /\ relay \subseteq EthTxs
  /\ taker \in [pc : LegPcs, loc : Int, nonce : Nat, p : BOOLEAN]
  /\ maker \in [pc : LegPcs, at : Int, sent : SUBSET EthTxs]
  /\ ask \in [pc : AskPcs, tx : EthTxs, n : Nat, hash : Nat, reorged : BOOLEAN]

(* Only the taker deploys.                                                 *)
TakerDeploys == \A tx \in ethPool \cup relay : tx.op = "deploy" => tx.who = "taker"

(* The transactions of one sender before a height.                         *)
Before(blocks, i, who) == {k \in 1..(i - 1) : blocks[k].tx.who = who}

(* A deployment's nonce is the number of the taker's transactions below.   *)
NoncesCount ==
  \A i \in 1..Len(ethChain) : ethChain[i].tx.op = "deploy" =>
    /\ ethChain[i].tx.who = "taker"
    /\ ethChain[i].tx.nonce = Cardinality(Before(ethChain, i, "taker"))

(* A block that is found gets a hash no other block had.                   *)
HashesDiffer ==
  /\ \A i \in 1..Len(ethChain) : ethChain[i].hash \in 1..hashes
  /\ \A i, j \in 1..Len(ethChain) : ethChain[i].hash = ethChain[j].hash => i = j

(* Block i created the contract with the agreed terms at address a.        *)
AgreedAt(i, a) ==
  ethChain[i].tx.op = "deploy" /\ ethChain[i].tx.nonce = a /\ ethChain[i].tx.terms = "agreed"
(* What the maker's check has read so far it read in a finalized block.    *)
MakerBound == maker.pc \in {"balance", "done"} => \E i \in 1..fin : AgreedAt(i, maker.at)

(* A verdict under way knows a block hash under which the claim succeeded, *)
(* and from the canonical read on, as long as no block was undone since,   *)
(* the height at which the chain has it.                                   *)
AskBound ==
  /\ ask.pc \in {"canonical", "finalized", "FINAL"} =>
       /\ ask.n > 0 /\ ask.hash \in 1..hashes
       /\ \A i \in 1..Len(ethChain) :
            ethChain[i].hash = ask.hash => ethChain[i].tx = ask.tx /\ ethChain[i].ok
  /\ ask.pc \in {"finalized", "FINAL"} /\ ~ask.reorged =>
       ask.n <= Len(ethChain) /\ ethChain[ask.n].hash = ask.hash
  /\ ask.pc = "FINAL" => ask.n <= fin

(* The inductive invariant. That an address holds one contract needs the   *)
(* nonces: two deployments at one address would have as many transactions  *)
(* of the taker below them.                                                *)
EthInv == EthTypes /\ TakerDeploys /\ NoncesCount /\ HashesDiffer /\ MakerBound /\ AskBound

(* The values at the start are of these types.                             *)
LEMMA NoTxIsTx == NoTx \in EthTxs
  BY DEF NoTx, EthTxs

LEMMA IdleRecords ==
  /\ [pc |-> "idle", loc |-> -1, nonce |-> 0, p |-> FALSE] \in
       [pc : LegPcs, loc : Int, nonce : Nat, p : BOOLEAN]
  /\ [pc |-> "idle", at |-> 0, sent |-> {}] \in [pc : LegPcs, at : Int, sent : SUBSET EthTxs]
  /\ [pc |-> "idle", tx |-> NoTx, n |-> 0, hash |-> 0, reorged |-> FALSE] \in
       [pc : AskPcs, tx : EthTxs, n : Nat, hash : Nat, reorged : BOOLEAN]
  BY NoTxIsTx DEF LegPcs, AskPcs

(* The first n elements of a sequence.                                     *)
LEMMA PrefixIsSeq ==
  ASSUME NEW S, NEW s \in Seq(S), NEW n \in 0..Len(s)
  PROVE  /\ SubSeq(s, 1, n) \in Seq(S) /\ Len(SubSeq(s, 1, n)) = n
         /\ \A i \in 1..n : SubSeq(s, 1, n)[i] = s[i]
  <1>1. Len(s) \in Nat
    BY LenProperties
  <1>2. \A i \in 1..n : s[i] \in S
    BY <1>1, ElementOfSeq
  <1>3. /\ SubSeq(s, 1, n) \in Seq(S)
        /\ Len(SubSeq(s, 1, n)) = IF 1 <= n THEN n - 1 + 1 ELSE 0
        /\ \A i \in 1 .. n - 1 + 1 : SubSeq(s, 1, n)[i] = s[1 + i - 1]
    BY <1>1, <1>2, SubSeqProperties
  <1> QED BY <1>1, <1>3

(* They are finitely many.                                                 *)
LEMMA BeforeIsFinite ==
  ASSUME NEW blocks, NEW i \in Int, NEW who
  PROVE  /\ IsFiniteSet(Before(blocks, i, who))
         /\ Cardinality(Before(blocks, i, who)) \in Nat
  <1>1. IsFiniteSet(1..(i - 1))
    BY FS_Interval
  <1>2. Before(blocks, i, who) \subseteq 1..(i - 1)
    BY DEF Before
  <1> QED BY <1>1, <1>2, FS_Subset, FS_CardinalityType

(* eth_getTransactionCount counts the transactions below the next block.   *)
LEMMA SentIsBefore ==
  ASSUME EthTypes, NEW who
  PROVE  /\ SentBy(ethChain, who) = Cardinality(Before(ethChain, Len(ethChain) + 1, who))
         /\ SentBy(ethChain, who) \in Nat
  <1>1. Len(ethChain) \in Nat
    BY DEF EthTypes
  <1>2. {i \in 1..Len(ethChain) : ethChain[i].tx.who = who} =
          Before(ethChain, Len(ethChain) + 1, who)
    BY <1>1 DEF Before
  <1>3. Cardinality(Before(ethChain, Len(ethChain) + 1, who)) \in Nat
    <2> DEFINE m == Len(ethChain) + 1
    <2>1. m \in Int
      BY <1>1
    <2> HIDE DEF m
    <2>2. Cardinality(Before(ethChain, m, who)) \in Nat
      BY <2>1, BeforeIsFinite
    <2> QED BY <2>2 DEF m
  <1> QED BY <1>2, <1>3 DEF SentBy

(* One address, one deployment.                                            *)
LEMMA OneDeployment ==
  ASSUME EthTypes, NoncesCount, NEW i \in 1..Len(ethChain), NEW j \in 1..Len(ethChain),
         ethChain[i].tx.op = "deploy", ethChain[j].tx.op = "deploy",
         ethChain[i].tx.nonce = ethChain[j].tx.nonce
  PROVE  i = j
  <1>1. Len(ethChain) \in Nat
    BY DEF EthTypes
  <1>2. ASSUME NEW m \in 1..Len(ethChain), NEW n \in 1..Len(ethChain), m < n,
               ethChain[m].tx.op = "deploy", ethChain[n].tx.op = "deploy",
               ethChain[m].tx.nonce = ethChain[n].tx.nonce
        PROVE  FALSE
    <2> DEFINE M == Before(ethChain, m, "taker")
               N == Before(ethChain, n, "taker")
    <2>1. Cardinality(M) = Cardinality(N) /\ ethChain[m].tx.who = "taker"
      BY <1>2 DEF NoncesCount
    <2>2. M \subseteq N /\ m \in N /\ m \notin M
      BY <1>1, <1>2, <2>1 DEF Before
    <2>3. IsFiniteSet(N)
      BY <1>1, BeforeIsFinite
    <2> QED BY <2>1, <2>2, <2>3, FS_Subset
  <1> QED BY <1>1, <1>2

(* The invariant gives both halves of the property.                        *)
LEMMA EthInvSuffices == EthInv => EthLegIsTrue
  <1> SUFFICES ASSUME EthInv PROVE EthLegIsTrue
    OBVIOUS
  <1> USE DEF EthInv
  <1>1. VerifiedIsBound
    <2> SUFFICES ASSUME maker.pc = "done"
                 PROVE  Holds(ethChain, maker.at) /\ TermsAt(ethChain, maker.at) = "agreed"
      BY DEF VerifiedIsBound
    <2>1. PICK i \in 1..fin : AgreedAt(i, maker.at)
      BY DEF MakerBound
    <2>2. i \in DeployedAt(ethChain, maker.at)
      BY <2>1 DEF AgreedAt, DeployedAt, EthTypes
    <2>3. \A j \in DeployedAt(ethChain, maker.at) : j = i
      BY <2>1, <2>2, OneDeployment DEF DeployedAt
    <2>4. (CHOOSE j \in DeployedAt(ethChain, maker.at) : TRUE) = i
      BY <2>2, <2>3
    <2> QED BY <2>1, <2>2, <2>4 DEF Holds, TermsAt, AgreedAt
  <1>2. FinalClaimIsCanonical
    BY DEF FinalClaimIsCanonical, AskBound, EthTypes
  <1> QED BY <1>1, <1>2 DEF EthLegIsTrue

(* An empty chain, and nobody has done anything.                           *)
LEMMA EthInvInit == EthInit => EthInv
  <1> SUFFICES ASSUME EthInit PROVE EthInv
    OBVIOUS
  <1>1. EthTypes
    <2>1. IsFiniteSet(ethPool)
      BY FS_EmptySet DEF EthInit
    <2>2. ethChain = <<>> /\ Len(ethChain) = 0 /\ ethChain \in Seq(EthBlocks)
      BY EmptySeq DEF EthInit
    <2>3. /\ taker = [pc |-> "idle", loc |-> -1, nonce |-> 0, p |-> FALSE]
          /\ maker = [pc |-> "idle", at |-> 0, sent |-> {}]
          /\ ask = [pc |-> "idle", tx |-> NoTx, n |-> 0, hash |-> 0, reorged |-> FALSE]
      BY DEF EthInit, NoAddress
    <2>4. fin = 0 /\ hashes = 0 /\ ethPool = {} /\ relay = {}
      BY DEF EthInit
    <2> QED BY <2>1, <2>2, <2>3, <2>4, IdleRecords DEF EthTypes
  <1> QED BY <1>1 DEF EthInit, EthInv, TakerDeploys, NoncesCount, HashesDiffer, MakerBound,
       AskBound

(* A new block: its hash is new, and a deployment in it has the next       *)
(* nonce.                                                                  *)
LEMMA EthMineKeeps == EthInv /\ EthMine => EthInv'
  <1> SUFFICES ASSUME EthInv, EthMine PROVE EthInv'
    OBVIOUS
  <1> DEFINE n == Len(ethChain)
  <1>1. EthTypes /\ TakerDeploys /\ NoncesCount /\ HashesDiffer /\ MakerBound /\ AskBound
    BY DEF EthInv
  <1>2. PICK tx \in ethPool \cup relay \cup {NoTx} :
          /\ tx # NoTx => tx.nonce = SentBy(ethChain, tx.who)
          /\ ethChain' = Append(ethChain, [hash |-> hashes + 1, tx |-> tx,
                                            ok |-> Succeeds(ethChain, tx)])
          /\ ethPool' = ethPool \ {tx} /\ relay' = relay \ {tx}
    BY DEF EthMine
  <1>3. hashes' = hashes + 1 /\ fin' = fin /\ taker' = taker /\ maker' = maker /\ ask' = ask
    BY DEF EthMine
  <1> DEFINE b == [hash |-> hashes + 1, tx |-> tx, ok |-> Succeeds(ethChain, tx)]
  <1>4. tx \in EthTxs
    BY <1>1, NoTxIsTx DEF EthTypes
  <1>5. Succeeds(ethChain, tx) \in BOOLEAN
    BY DEF Succeeds
  <1>6. b \in EthBlocks /\ b.hash = hashes + 1 /\ b.tx = tx
    BY <1>1, <1>4, <1>5 DEF EthBlocks, EthTypes
  <1> HIDE DEF b
  <1>7. /\ n \in Nat /\ ethChain' \in Seq(EthBlocks) /\ Len(ethChain') = n + 1
        /\ \A i \in 1..n : ethChain'[i] = ethChain[i]
        /\ ethChain'[n + 1] = b
    BY <1>1, <1>2, <1>6 DEF EthTypes, b
  <1> HIDE DEF n
  <1>8. EthTypes'
    <2>1. fin' \in 0..Len(ethChain')
      BY <1>1, <1>3, <1>7 DEF EthTypes, n
    <2>2. IsFiniteSet(ethPool')
      BY <1>1, <1>2, FS_Subset DEF EthTypes
    <2> QED BY <1>1, <1>2, <1>3, <1>7, <2>1, <2>2 DEF EthTypes
  <1>9. TakerDeploys'
    BY <1>1, <1>2 DEF TakerDeploys
  <1>10. NoncesCount'
    <2> SUFFICES ASSUME NEW i \in 1..(n + 1), ethChain'[i].tx.op = "deploy"
                 PROVE  /\ ethChain'[i].tx.who = "taker"
                        /\ ethChain'[i].tx.nonce = Cardinality(Before(ethChain', i, "taker"))
      BY <1>7 DEF NoncesCount
    <2>1. Before(ethChain', i, "taker") = Before(ethChain, i, "taker")
      BY <1>7 DEF Before
    <2>2. CASE i \in 1..n
      BY <1>1, <1>7, <2>1, <2>2 DEF NoncesCount, n
    <2>3. CASE i = n + 1
      <3>1. tx.op = "deploy" /\ tx # NoTx /\ tx.who = "taker"
        BY <1>1, <1>2, <1>6, <1>7, <2>3 DEF NoTx, TakerDeploys
      <3>2. tx.nonce = Cardinality(Before(ethChain, n + 1, "taker"))
        BY <1>1, <1>2, <3>1, SentIsBefore DEF n
      <3> QED BY <1>6, <1>7, <2>1, <2>3, <3>1, <3>2
    <2> QED BY <1>7, <2>2, <2>3
  <1>11. HashesDiffer'
    <2>1. hashes \in Nat /\ \A i \in 1..n : ethChain[i].hash \in 1..hashes
      BY <1>1 DEF HashesDiffer, EthTypes, n
    <2>2. \A i \in 1..(n + 1) : i \in 1..n \/ i = n + 1
      BY <1>7
    <2>3. \A i \in 1..(n + 1) : ethChain'[i].hash \in 1..(hashes + 1)
      BY <1>6, <1>7, <2>1, <2>2
    <2>4. \A i, j \in 1..(n + 1) : ethChain'[i].hash = ethChain'[j].hash => i = j
      BY <1>1, <1>6, <1>7, <2>1, <2>2 DEF HashesDiffer, n
    <2> QED BY <1>3, <1>7, <2>3, <2>4 DEF HashesDiffer
  <1>12. MakerBound'
    <2> SUFFICES ASSUME maker.pc \in {"balance", "done"}
                 PROVE  \E i \in 1..fin : AgreedAt(i, maker.at)'
      BY <1>3 DEF MakerBound
    <2>1. PICK i \in 1..fin : AgreedAt(i, maker.at)
      BY <1>1 DEF MakerBound
    <2>2. i \in 1..n
      BY <1>1, <1>7 DEF EthTypes, n
    <2> QED BY <1>3, <1>7, <2>1, <2>2 DEF AgreedAt
  <1>13. AskBound'
    <2>1. hashes \in Nat /\ ask.n \in Nat
      BY <1>1 DEF EthTypes
    <2>2. ASSUME ask.pc \in {"canonical", "finalized", "FINAL"}, NEW i \in 1..(n + 1),
                 ethChain'[i].hash = ask.hash
          PROVE  ethChain'[i].tx = ask.tx /\ ethChain'[i].ok
      <3>1. ask.hash \in 1..hashes
        BY <1>1, <2>2 DEF AskBound
      <3>2. i # n + 1
        BY <1>6, <1>7, <2>1, <2>2, <3>1
      <3> QED BY <1>1, <1>7, <2>2, <3>2 DEF AskBound, n
    <2> QED BY <1>1, <1>3, <1>7, <2>1, <2>2 DEF AskBound, n
  <1> QED BY <1>8, <1>9, <1>10, <1>11, <1>12, <1>13 DEF EthInv

(* Blocks above the finalized one are undone, so what was read there       *)
(* stays.                                                                  *)
LEMMA EthReorgKeeps == EthInv /\ EthReorg => EthInv'
  <1> SUFFICES ASSUME EthInv, EthReorg PROVE EthInv'
    OBVIOUS
  <1> DEFINE n == Len(ethChain)
             last == ethChain[n]
  <1>1. EthTypes /\ TakerDeploys /\ NoncesCount /\ HashesDiffer /\ MakerBound /\ AskBound
    BY DEF EthInv
  <1>2. /\ n > fin /\ ethChain' = SubSeq(ethChain, 1, n - 1)
        /\ ethPool' = IF last.tx = NoTx THEN ethPool ELSE ethPool \cup {last.tx}
        /\ ask' = [ask EXCEPT !.reorged = TRUE]
        /\ fin' = fin /\ relay' = relay /\ taker' = taker /\ maker' = maker /\ hashes' = hashes
    BY DEF EthReorg, Prefix
  <1>3. /\ n \in Nat /\ n > 0 /\ fin \in 0..(n - 1) /\ last \in EthBlocks /\ last.tx \in EthTxs
    <2>1. n \in Nat /\ n > 0 /\ fin \in 0..(n - 1) /\ n \in 1..n
      BY <1>1, <1>2, LenProperties DEF EthTypes
    <2>2. last \in EthBlocks
      BY <1>1, <2>1, ElementOfSeq DEF EthTypes
    <2> HIDE DEF last
    <2>3. last.tx \in EthTxs
      BY <2>2 DEF EthBlocks
    <2> QED BY <2>1, <2>2, <2>3
  <1>4. /\ ethChain' \in Seq(EthBlocks) /\ Len(ethChain') = n - 1
        /\ \A i \in 1..(n - 1) : ethChain'[i] = ethChain[i]
    <2> DEFINE m == n - 1
    <2>1. m \in 0..Len(ethChain) /\ ethChain \in Seq(EthBlocks)
      BY <1>1, <1>3 DEF EthTypes
    <2>2. ethChain' = SubSeq(ethChain, 1, m)
      BY <1>2
    <2> HIDE DEF m
    <2>3. ethChain' \in Seq(EthBlocks) /\ Len(ethChain') = m
          /\ \A i \in 1..m : ethChain'[i] = ethChain[i]
      BY <2>1, <2>2, PrefixIsSeq
    <2> QED BY <2>3 DEF m
  <1>5. /\ ask' \in [pc : AskPcs, tx : EthTxs, n : Nat, hash : Nat, reorged : BOOLEAN]
        /\ ask'.pc = ask.pc /\ ask'.tx = ask.tx /\ ask'.n = ask.n /\ ask'.hash = ask.hash
        /\ ask'.reorged = TRUE
    BY <1>1, <1>2 DEF EthTypes
  <1>6. EthTypes'
    <2>1. IsFiniteSet(ethPool')
      BY <1>1, <1>2, FS_AddElement DEF EthTypes
    <2>2. fin' \in 0..Len(ethChain') /\ hashes' \in Nat
      BY <1>1, <1>2, <1>3, <1>4 DEF EthTypes
    <2>3. ethPool' \subseteq EthTxs /\ relay' \subseteq EthTxs
      BY <1>1, <1>2, <1>3 DEF EthTypes
    <2> QED BY <1>1, <1>2, <1>4, <1>5, <2>1, <2>2, <2>3 DEF EthTypes
  <1> HIDE DEF n
  <1>7. TakerDeploys'
    BY <1>1, <1>2, <1>3 DEF TakerDeploys, NoncesCount, n
  <1>8. NoncesCount'
    <2> SUFFICES ASSUME NEW i \in 1..(n - 1), ethChain'[i].tx.op = "deploy"
                 PROVE  /\ ethChain'[i].tx.who = "taker"
                        /\ ethChain'[i].tx.nonce = Cardinality(Before(ethChain', i, "taker"))
      BY <1>4 DEF NoncesCount
    <2>1. Before(ethChain', i, "taker") = Before(ethChain, i, "taker")
      BY <1>3, <1>4 DEF Before
    <2> QED BY <1>1, <1>3, <1>4, <2>1 DEF NoncesCount, n
  <1>9. HashesDiffer'
    <2>1. \A i \in 1..(n - 1) : i \in 1..n
      BY <1>3
    <2>2. hashes' = hashes /\ Len(ethChain') = n - 1
      BY <1>2, <1>4
    <2>3. \A i \in 1..n : ethChain[i].hash \in 1..hashes
      BY <1>1 DEF HashesDiffer, n
    <2>4. \A i, j \in 1..n : ethChain[i].hash = ethChain[j].hash => i = j
      BY <1>1 DEF HashesDiffer, n
    <2>5. \A i \in 1..(n - 1) : ethChain'[i].hash \in 1..hashes
      BY <1>4, <2>1, <2>3
    <2>6. \A i, j \in 1..(n - 1) : ethChain'[i].hash = ethChain'[j].hash => i = j
      BY <1>4, <2>1, <2>4
    <2> QED BY <2>2, <2>5, <2>6 DEF HashesDiffer
  <1>10. MakerBound'
    BY <1>1, <1>2, <1>3, <1>4 DEF MakerBound, AgreedAt, n
  <1>11. AskBound'
    BY <1>1, <1>2, <1>3, <1>4, <1>5 DEF AskBound, n
  <1> QED BY <1>6, <1>7, <1>8, <1>9, <1>10, <1>11 DEF EthInv

(* A step that leaves the chain alone keeps what is true of the chain.     *)
LEMMA EthRestKeeps ==
  ASSUME EthInv, ethChain' = ethChain, hashes' = hashes, EthTypes', TakerDeploys',
         MakerBound', AskBound'
  PROVE  EthInv'
  BY DEF EthInv, NoncesCount, HashesDiffer, Before

(* The nonce a sender takes is a number.                                   *)
LEMMA NonceIsNat ==
  ASSUME EthTypes, NEW who
  PROVE  Nonce(who) \in Nat
  <1>1. {tx \in ethPool : tx.who = who} \subseteq ethPool /\ IsFiniteSet(ethPool)
    BY DEF EthTypes
  <1>2. Cardinality({tx \in ethPool : tx.who = who}) \in Nat
    BY <1>1, FS_Subset, FS_CardinalityType
  <1>3. SentBy(ethChain, who) \in Nat
    BY SentIsBefore
  <1> QED BY <1>2, <1>3 DEF Nonce

(* Sending a transaction adds it to the pool or to the relay.              *)
LEMMA SendKeeps ==
  ASSUME EthTypes, TakerDeploys, NEW tx \in EthTxs, NEW secret \in BOOLEAN,
         tx.op = "deploy" => tx.who = "taker", SignAndSend(tx, secret)
  PROVE  ethPool' \subseteq EthTxs /\ IsFiniteSet(ethPool') /\ relay' \subseteq EthTxs
         /\ TakerDeploys'
  <1>1. \/ relay' = relay \cup {tx} /\ ethPool' = ethPool
        \/ ethPool' = ethPool \cup {tx} /\ relay' = relay
    BY DEF SignAndSend, SubmitRaw, SendRaw
  <1>2. IsFiniteSet(ethPool')
    BY <1>1, FS_AddElement DEF EthTypes
  <1> QED BY <1>1, <1>2 DEF EthTypes, TakerDeploys

(* What verify_funded's next read leads to.                                *)
LEMMA VerifyStepTypes ==
  ASSUME NEW pc \in {"code", "immutables", "balance"}, NEW blocks, NEW a
  PROVE  /\ VerifyStep(pc, blocks, a) \in LegPcs
         /\ VerifyStep(pc, blocks, a) \in {"balance", "done"} =>
              pc = "balance" \/ (pc = "immutables" /\ ReadImmutables(blocks, a))
  <1>1. CASE pc = "code"
    BY <1>1 DEF VerifyStep, LegPcs
  <1>2. CASE pc = "immutables"
    BY <1>2 DEF VerifyStep, LegPcs
  <1>3. CASE pc = "balance"
    BY <1>3 DEF VerifyStep, LegPcs
  <1> QED BY <1>1, <1>2, <1>3

(* The deployment that immutables were read of is a finalized one.         *)
LEMMA ImmutablesAreFinal ==
  ASSUME EthTypes, NEW a, ReadImmutables(Finalized, a)
  PROVE  \E i \in 1..fin : AgreedAt(i, a)
  <1> DEFINE F == SubSeq(ethChain, 1, fin)
             i == CHOOSE j \in DeployedAt(F, a) : TRUE
  <1>1. Finalized = F
    BY DEF Finalized, Prefix
  <1>2. Len(F) = fin /\ \A j \in 1..fin : F[j] = ethChain[j]
    BY PrefixIsSeq DEF EthTypes
  <1> HIDE DEF F
  <1>3. DeployedAt(F, a) # {} /\ F[i].tx.terms = "agreed"
    BY <1>1 DEF ReadImmutables, Holds, TermsAt
  <1>4. i \in DeployedAt(F, a)
    BY <1>3
  <1> HIDE DEF i
  <1>5. i \in 1..fin /\ F[i].tx.op = "deploy" /\ F[i].tx.nonce = a
    BY <1>2, <1>4 DEF DeployedAt
  <1>6. AgreedAt(i, a)
    BY <1>2, <1>3, <1>5 DEF AgreedAt
  <1> QED BY <1>5, <1>6

(* The taker's steps, and what is external.                                *)
LEMMA TakerKeeps ==
  ASSUME EthInv,
         Finalize \/ ForeignDeploy \/ FundDeploy \/ FundReceipt \/ FundVerify \/ RefundEth
         \/ ScrapeClaim
  PROVE  EthInv'
  <1>1. EthTypes /\ TakerDeploys /\ MakerBound /\ AskBound
    BY DEF EthInv
  <1>2. ethChain' = ethChain /\ hashes' = hashes /\ maker' = maker /\ ask' = ask
    BY DEF Finalize, ForeignDeploy, FundDeploy, FundReceipt, FundVerify, RefundEth, ScrapeClaim
  <1>3. taker \in [pc : LegPcs, loc : Int, nonce : Nat, p : BOOLEAN]
    BY <1>1 DEF EthTypes
  <1>4. ASSUME fin' = fin, ethPool' \subseteq EthTxs, IsFiniteSet(ethPool'),
               relay' \subseteq EthTxs, TakerDeploys',
               taker' \in [pc : LegPcs, loc : Int, nonce : Nat, p : BOOLEAN]
        PROVE  EthInv'
    <2>1. EthTypes'
      BY <1>1, <1>2, <1>4 DEF EthTypes
    <2>2. MakerBound' /\ AskBound'
      BY <1>1, <1>2, <1>4 DEF MakerBound, AskBound, AgreedAt
    <2> QED BY <1>2, <1>4, <2>1, <2>2, EthRestKeeps
  <1>5. ASSUME fin' = fin, ethPool' = ethPool, relay' = relay,
               taker' \in [pc : LegPcs, loc : Int, nonce : Nat, p : BOOLEAN]
        PROVE  EthInv'
    BY <1>1, <1>4, <1>5 DEF EthTypes, TakerDeploys
  <1>6. CASE Finalize
    <2>1. PICK n \in fin + 1..Len(ethChain) : fin' = n
      BY <1>6 DEF Finalize
    <2>2. ethPool' = ethPool /\ relay' = relay /\ taker' = taker
      BY <1>6 DEF Finalize
    <2>3. fin \in Nat /\ fin' \in 0..Len(ethChain) /\ fin' > fin
      BY <1>1, <2>1 DEF EthTypes
    <2>4. EthTypes'
      BY <1>1, <1>2, <2>2, <2>3 DEF EthTypes
    <2>5. TakerDeploys'
      BY <1>1, <2>2 DEF TakerDeploys
    <2>6. MakerBound'
      <3> SUFFICES ASSUME maker.pc \in {"balance", "done"}
                   PROVE  \E i \in 1..fin' : AgreedAt(i, maker.at)'
        BY <1>2 DEF MakerBound
      <3>1. PICK i \in 1..fin : AgreedAt(i, maker.at)
        BY <1>1 DEF MakerBound
      <3>2. i \in 1..fin'
        BY <2>3
      <3> QED BY <1>2, <3>1, <3>2 DEF AgreedAt
    <2>7. AskBound'
      <3>1. ask.n \in Nat
        BY <1>1 DEF EthTypes
      <3> QED BY <1>1, <1>2, <2>3, <3>1 DEF AskBound
    <2> QED BY <1>2, <2>4, <2>5, <2>6, <2>7, EthRestKeeps
  <1>7. CASE ForeignDeploy
    <2> DEFINE offer(terms) == [who |-> "taker", nonce |-> 0, op |-> "deploy", terms |-> terms,
                                at |-> NoAddress]
    <2>1. PICK terms \in Terms : ethPool' = ethPool \cup {offer(terms)}
      BY <1>7 DEF ForeignDeploy
    <2>2. fin' = fin /\ relay' = relay /\ taker' = taker
      BY <1>7 DEF ForeignDeploy
    <2>3. offer(terms) \in EthTxs /\ offer(terms).who = "taker"
      BY DEF EthTxs, NoAddress
    <2> HIDE DEF offer
    <2>4. IsFiniteSet(ethPool')
      BY <1>1, <2>1, FS_AddElement DEF EthTypes
    <2>5. TakerDeploys'
      BY <1>1, <2>1, <2>2, <2>3 DEF TakerDeploys
    <2> QED BY <1>1, <1>3, <1>4, <2>1, <2>2, <2>3, <2>4, <2>5 DEF EthTypes
  <1>8. CASE FundDeploy
    <2> DEFINE m == Nonce("taker")
               tx == [who |-> "taker", nonce |-> m, op |-> "deploy", terms |-> "agreed",
                      at |-> NoAddress]
    <2>1. m \in Nat
      BY <1>1, NonceIsNat
    <2>2. SignAndSend(tx, FALSE) /\ fin' = fin
      BY <1>8 DEF FundDeploy
    <2>3. \E answered \in BOOLEAN :
            taker' = [taker EXCEPT !.pc = IF answered THEN "receipt" ELSE "failed", !.nonce = m]
      BY <1>8 DEF FundDeploy
    <2> HIDE DEF m
    <2>4. tx \in EthTxs /\ tx.who = "taker"
      BY <2>1 DEF EthTxs, NoAddress, Terms
    <2>5. PICK q \in {"receipt", "failed"} : taker' = [taker EXCEPT !.pc = q, !.nonce = m]
      BY <2>3
    <2>6. taker' \in [pc : LegPcs, loc : Int, nonce : Nat, p : BOOLEAN]
      BY <1>3, <2>1, <2>5 DEF LegPcs
    <2> HIDE DEF tx
    <2> QED BY <1>1, <1>4, <2>2, <2>4, <2>6, SendKeeps
  <1>9. CASE FundReceipt
    <2>1. fin' = fin /\ ethPool' = ethPool /\ relay' = relay
      BY <1>9 DEF FundReceipt
    <2>2. \/ taker' = [taker EXCEPT !.pc = "code", !.loc = taker.nonce]
          \/ taker' = [taker EXCEPT !.pc = "failed"]
      BY <1>9 DEF FundReceipt
    <2>3. "code" \in LegPcs /\ "failed" \in LegPcs /\ taker.nonce \in Int
      BY <1>3 DEF LegPcs
    <2>4. CASE taker' = [taker EXCEPT !.pc = "code", !.loc = taker.nonce]
      BY <1>3, <1>5, <2>1, <2>3, <2>4
    <2>5. CASE taker' = [taker EXCEPT !.pc = "failed"]
      BY <1>3, <1>5, <2>1, <2>3, <2>5
    <2> QED BY <2>2, <2>4, <2>5
  <1>10. CASE FundVerify
    <2>1. fin' = fin /\ ethPool' = ethPool /\ relay' = relay
      BY <1>10 DEF FundVerify
    <2>2. PICK q \in LegPcs : taker' = [taker EXCEPT !.pc = q]
      BY <1>10, VerifyStepTypes DEF FundVerify
    <2>3. taker' \in [pc : LegPcs, loc : Int, nonce : Nat, p : BOOLEAN]
      BY <1>3, <2>2
    <2> QED BY <1>5, <2>1, <2>3
  <1>11. CASE RefundEth
    <2> DEFINE m == Nonce("taker")
               tx == [who |-> "taker", nonce |-> m, op |-> "refund", terms |-> "none",
                      at |-> taker.loc]
    <2>1. m \in Nat /\ taker.loc \in Int
      BY <1>1, <1>3, NonceIsNat
    <2>2. SignAndSend(tx, FALSE) /\ fin' = fin /\ taker' = taker
      BY <1>11 DEF RefundEth
    <2> HIDE DEF m
    <2>3. tx \in EthTxs /\ tx.who = "taker"
      BY <2>1 DEF EthTxs
    <2> HIDE DEF tx
    <2> QED BY <1>1, <1>3, <1>4, <2>2, <2>3, SendKeeps
  <1>12. CASE ScrapeClaim
    <2>1. fin' = fin /\ ethPool' = ethPool /\ relay' = relay
      BY <1>12 DEF ScrapeClaim
    <2>2. taker' = [taker EXCEPT !.p = TRUE]
      BY <1>12 DEF ScrapeClaim
    <2>3. taker' \in [pc : LegPcs, loc : Int, nonce : Nat, p : BOOLEAN]
      BY <1>3, <2>2
    <2> QED BY <1>5, <2>1, <2>3
  <1> QED BY <1>6, <1>7, <1>8, <1>9, <1>10, <1>11, <1>12

(* The maker's steps.                                                      *)
LEMMA MakerKeeps ==
  ASSUME EthInv, MakerVerifyStart \/ MakerVerify \/ ClaimEth
  PROVE  EthInv'
  <1>1. EthTypes /\ TakerDeploys /\ MakerBound /\ AskBound
    BY DEF EthInv
  <1>2. ethChain' = ethChain /\ hashes' = hashes /\ taker' = taker /\ ask' = ask /\ fin' = fin
    BY DEF MakerVerifyStart, MakerVerify, ClaimEth
  <1>3. maker \in [pc : LegPcs, at : Int, sent : SUBSET EthTxs]
    BY <1>1 DEF EthTypes
  <1>4. AskBound'
    BY <1>1, <1>2 DEF AskBound
  <1>5. ASSUME ethPool' \subseteq EthTxs, IsFiniteSet(ethPool'), relay' \subseteq EthTxs,
               TakerDeploys', maker' \in [pc : LegPcs, at : Int, sent : SUBSET EthTxs],
               maker'.pc \in {"balance", "done"} => \E i \in 1..fin : AgreedAt(i, maker'.at)
        PROVE  EthInv'
    <2>1. EthTypes'
      BY <1>1, <1>2, <1>5 DEF EthTypes
    <2>2. MakerBound'
      BY <1>2, <1>5 DEF MakerBound, AgreedAt
    <2> QED BY <1>2, <1>4, <1>5, <2>1, <2>2, EthRestKeeps
  <1>6. ASSUME ethPool' = ethPool, relay' = relay,
               maker' \in [pc : LegPcs, at : Int, sent : SUBSET EthTxs],
               maker'.pc \in {"balance", "done"} => \E i \in 1..fin : AgreedAt(i, maker'.at)
        PROVE  EthInv'
    BY <1>1, <1>5, <1>6 DEF EthTypes, TakerDeploys
  <1>7. CASE MakerVerifyStart
    <2>1. PICK a \in 0..MaxNonce : maker' = [maker EXCEPT !.pc = "code", !.at = a]
      BY <1>7 DEF MakerVerifyStart
    <2>2. "code" \in LegPcs /\ a \in Int
      BY DEF LegPcs
    <2>3. maker' \in [pc : LegPcs, at : Int, sent : SUBSET EthTxs] /\ maker'.pc = "code"
      BY <1>3, <2>1, <2>2
    <2>4. ethPool' = ethPool /\ relay' = relay
      BY <1>7 DEF MakerVerifyStart
    <2> QED BY <1>6, <2>3, <2>4
  <1>8. CASE MakerVerify
    <2> DEFINE q == VerifyStep(maker.pc, Finalized, maker.at)
    <2>1. /\ maker.pc \in {"code", "immutables", "balance"} /\ maker' = [maker EXCEPT !.pc = q]
          /\ ethPool' = ethPool /\ relay' = relay
      BY <1>8 DEF MakerVerify, VerifiedBlock
    <2>2. /\ q \in LegPcs
          /\ q \in {"balance", "done"} =>
               maker.pc = "balance" \/ ReadImmutables(Finalized, maker.at)
      BY <2>1, VerifyStepTypes
    <2> HIDE DEF q
    <2>3. /\ maker' \in [pc : LegPcs, at : Int, sent : SUBSET EthTxs]
          /\ maker'.pc = q /\ maker'.at = maker.at
      BY <1>3, <2>1, <2>2
    <2>4. q \in {"balance", "done"} => \E i \in 1..fin : AgreedAt(i, maker.at)
      BY <1>1, <2>2, ImmutablesAreFinal DEF MakerBound
    <2> QED BY <1>6, <2>1, <2>3, <2>4
  <1>9. CASE ClaimEth
    <2> DEFINE m == Nonce("maker")
               tx == [who |-> "maker", nonce |-> m, op |-> "claim", terms |-> "none",
                      at |-> maker.at]
    <2>1. m \in Nat /\ maker.at \in Int
      BY <1>1, <1>3, NonceIsNat
    <2>2. SignAndSend(tx, TRUE) /\ maker' = [maker EXCEPT !.sent = @ \cup {tx}]
      BY <1>9 DEF ClaimEth
    <2> HIDE DEF m
    <2>3. tx \in EthTxs /\ tx.op = "claim"
      BY <2>1 DEF EthTxs
    <2> HIDE DEF tx
    <2>4. /\ maker' \in [pc : LegPcs, at : Int, sent : SUBSET EthTxs]
          /\ maker'.pc = maker.pc /\ maker'.at = maker.at
      BY <1>3, <2>2, <2>3
    <2>5. maker'.pc \in {"balance", "done"} => \E i \in 1..fin : AgreedAt(i, maker'.at)
      BY <1>1, <2>4 DEF MakerBound
    <2>6. ethPool' \subseteq EthTxs /\ IsFiniteSet(ethPool') /\ relay' \subseteq EthTxs
          /\ TakerDeploys'
      BY <1>1, <2>2, <2>3, SendKeeps
    <2> QED BY <1>5, <2>4, <2>5, <2>6
  <1> QED BY <1>7, <1>8, <1>9

(* The three reads of a finality verdict.                                  *)
LEMMA AskKeeps ==
  ASSUME EthInv, AskReceipt \/ AskCanonical \/ AskFinalized
  PROVE  EthInv'
  <1> DEFINE Asks == [pc : AskPcs, tx : EthTxs, n : Nat, hash : Nat, reorged : BOOLEAN]
  <1>1. EthTypes /\ TakerDeploys /\ MakerBound /\ AskBound /\ HashesDiffer
    BY DEF EthInv
  <1>2. /\ ethChain' = ethChain /\ hashes' = hashes /\ taker' = taker /\ maker' = maker
        /\ fin' = fin /\ ethPool' = ethPool /\ relay' = relay
    BY DEF AskReceipt, AskCanonical, AskFinalized
  <1>3. ask \in Asks
    BY <1>1 DEF EthTypes
  <1>4. ASSUME ask' \in Asks, AskBound' PROVE EthInv'
    <2>1. EthTypes'
      BY <1>1, <1>2, <1>4 DEF EthTypes
    <2>2. MakerBound' /\ TakerDeploys'
      BY <1>1, <1>2 DEF MakerBound, AgreedAt, TakerDeploys
    <2> QED BY <1>2, <1>4, <2>1, <2>2, EthRestKeeps
  <1>5. Len(ethChain) \in Nat /\ fin \in Nat /\ ask.n \in Nat /\ hashes \in Nat
    BY <1>1 DEF EthTypes
  <1>6. CASE AskReceipt
    <2>1. PICK tx \in maker.sent :
            /\ HeightOf(tx) > 0
            /\ ask' = [pc |-> IF ethChain[HeightOf(tx)].ok THEN "canonical" ELSE "LIVE",
                       tx |-> tx, n |-> HeightOf(tx), hash |-> ethChain[HeightOf(tx)].hash,
                       reorged |-> FALSE]
      BY <1>6 DEF AskReceipt
    <2> DEFINE h == HeightOf(tx)
               q == IF ethChain[h].ok THEN "canonical" ELSE "LIVE"
    <2>2. h \in 1..Len(ethChain) /\ ethChain[h].tx = tx
      BY <1>5, <2>1 DEF HeightOf
    <2>3. tx \in EthTxs
      BY <1>1 DEF EthTypes
    <2>4. ethChain[h] \in EthBlocks
      BY <1>1, <2>2, ElementOfSeq DEF EthTypes
    <2> HIDE DEF h
    <2>5. ethChain[h].hash \in Nat
      BY <2>4 DEF EthBlocks
    <2>6. q \in AskPcs /\ (q = "canonical" => ethChain[h].ok) /\ q \in {"canonical", "LIVE"}
      BY DEF AskPcs
    <2>7. /\ ask' = [pc |-> q, tx |-> tx, n |-> h, hash |-> ethChain[h].hash, reorged |-> FALSE]
      BY <2>1 DEF h
    <2> HIDE DEF q
    <2>8. h \in Nat /\ h > 0
      BY <1>5, <2>2
    <2>9. ask' \in Asks
      BY <2>3, <2>5, <2>6, <2>7, <2>8
    <2>10. /\ ask'.pc = q /\ ask'.tx = tx /\ ask'.n = h /\ ask'.hash = ethChain[h].hash
      BY <2>7
    <2> HIDE DEF Asks
    <2>11. q = "canonical" => ask'.hash \in 1..hashes /\
             \A i \in 1..Len(ethChain) :
               ethChain[i].hash = ask'.hash => ethChain[i].tx = ask'.tx /\ ethChain[i].ok
      BY <1>1, <2>2, <2>6, <2>10 DEF HashesDiffer
    <2>12. AskBound'
      BY <1>2, <2>6, <2>8, <2>10, <2>11 DEF AskBound
    <2> QED BY <1>4, <2>9, <2>12
  <1>7. CASE AskCanonical
    <2> DEFINE q == IF CanonicalHash(ask.n) = ask.hash THEN "finalized" ELSE "LIVE"
    <2>1. ask.pc = "canonical" /\ ask' = [ask EXCEPT !.reorged = FALSE, !.pc = q]
      BY <1>7 DEF AskCanonical
    <2>2. q \in {"finalized", "LIVE"} /\ (q = "finalized" => CanonicalHash(ask.n) = ask.hash)
      OBVIOUS
    <2> HIDE DEF q
    <2>3. /\ ask' \in Asks /\ ask'.pc = q /\ ask'.tx = ask.tx /\ ask'.n = ask.n
          /\ ask'.hash = ask.hash
      BY <1>3, <2>1, <2>2 DEF AskPcs
    <2> HIDE DEF Asks
    <2>4. ask.n > 0 /\ ask.hash \in 1..hashes
          /\ \A i \in 1..Len(ethChain) :
               ethChain[i].hash = ask.hash => ethChain[i].tx = ask.tx /\ ethChain[i].ok
      BY <1>1, <2>1 DEF AskBound
    <2>5. q = "finalized" => ask.n <= Len(ethChain) /\ ethChain[ask.n].hash = ask.hash
      BY <1>5, <2>2, <2>4 DEF CanonicalHash
    <2>6. AskBound'
      BY <1>2, <2>2, <2>3, <2>4, <2>5 DEF AskBound
    <2> QED BY <1>4, <2>3, <2>6
  <1>8. CASE AskFinalized
    <2> DEFINE q == IF ask.n <= fin THEN "FINAL" ELSE "LIVE"
    <2>1. ask.pc = "finalized" /\ ask' = [ask EXCEPT !.pc = q]
      BY <1>8 DEF AskFinalized, FinalizedNumber
    <2>2. q \in {"FINAL", "LIVE"} /\ (q = "FINAL" => ask.n <= fin)
      OBVIOUS
    <2> HIDE DEF q
    <2>3. /\ ask' \in Asks /\ ask'.pc = q /\ ask'.tx = ask.tx /\ ask'.n = ask.n
          /\ ask'.hash = ask.hash /\ ask'.reorged = ask.reorged
      BY <1>3, <2>1, <2>2 DEF AskPcs
    <2> HIDE DEF Asks
    <2>4. AskBound'
      BY <1>1, <1>2, <2>1, <2>2, <2>3 DEF AskBound
    <2> QED BY <1>4, <2>3, <2>4
  <1> QED BY <1>6, <1>7, <1>8

(* Every step of the chain, the two parties and the verdict.               *)
LEMMA EthInvNext == EthInv /\ [EthNext]_ethVars => EthInv'
  <1> SUFFICES ASSUME EthInv, [EthNext]_ethVars PROVE EthInv'
    OBVIOUS
  <1>1. CASE UNCHANGED ethVars
    <2> USE <1>1 DEF ethVars
    <2>1. EthTypes'
      BY DEF EthInv, EthTypes
    <2>2. TakerDeploys'
      BY DEF EthInv, TakerDeploys
    <2>3. MakerBound'
      BY DEF EthInv, MakerBound, AgreedAt
    <2>4. AskBound'
      BY DEF EthInv, AskBound
    <2> QED BY <2>1, <2>2, <2>3, <2>4, EthRestKeeps
  <1> QED BY <1>1, EthMineKeeps, EthReorgKeeps, TakerKeeps, MakerKeeps, AskKeeps DEF EthNext

(* The Ethereum leg (eth_wallet/htlc_leg.py): what the maker verified      *)
(* stays bound on every later chain, and a FINAL verdict names a           *)
(* finalized, successful claim, for any timeout, number of blocks,         *)
(* reorganizations above finality and nonces.                              *)
THEOREM EthLegHolds == EthSpec => []EthLegIsTrue
  <1>1. EthInit => EthInv
    BY EthInvInit
  <1>2. EthInv /\ [EthNext]_ethVars => EthInv'
    BY EthInvNext
  <1>3. EthInv => EthLegIsTrue
    BY EthInvSuffices
  <1> QED BY <1>1, <1>2, <1>3, PTL DEF EthSpec

------------------------------------------------------- (* the Bitcoin leg *)

(* The node's chain is a sequence of blocks; block i has a transaction of  *)
(* kind k.                                                                 *)
IsSeq(s) == \E S : s \in Seq(S)
HasKind(chain, i, k) == \E x \in chain[i].txs : x.kind = k

(* The units a timeout is encoded by.                                      *)
Units(l) == ToNSequence(l).n

(* The block after block m is late enough to refund what block i funded.   *)
Late(l, chain, i, m) ==
  IF l.unit = "blocks" THEN m + 1 - i >= Units(l)
  ELSE chain[m].time - chain[i].time >= Units(l) * Granularity

(* Sequences, whatever they are of: they have a length, and Append and a   *)
(* prefix do to them what is expected.                                     *)
LEMMA IsSeqHas ==
  ASSUME NEW s, IsSeq(s)
  PROVE  Len(s) \in Nat
  BY LenProperties DEF IsSeq

LEMMA AppendIsSeq ==
  ASSUME NEW s, IsSeq(s), NEW e
  PROVE  /\ IsSeq(Append(s, e)) /\ Len(Append(s, e)) = Len(s) + 1
         /\ \A i \in 1..Len(s) : Append(s, e)[i] = s[i]
         /\ Append(s, e)[Len(s) + 1] = e
  <1>1. PICK S : s \in Seq(S)
    BY DEF IsSeq
  <1> DEFINE T == S \cup {e}
  <1>2. s \in Seq(T) /\ e \in T
    BY <1>1
  <1> HIDE DEF T
  <1> QED BY <1>2, AppendProperties DEF IsSeq

LEMMA ShortIsSeq ==
  ASSUME NEW s, IsSeq(s), NEW n \in 0..Len(s)
  PROVE  /\ IsSeq(SubSeq(s, 1, n)) /\ Len(SubSeq(s, 1, n)) = n
         /\ \A i \in 1..n : SubSeq(s, 1, n)[i] = s[i]
  <1>1. PICK S : s \in Seq(S)
    BY DEF IsSeq
  <1>2. Len(s) \in Nat
    BY <1>1, LenProperties
  <1>3. \A i \in 1..n : s[i] \in S
    BY <1>1, <1>2, ElementOfSeq
  <1>4. /\ SubSeq(s, 1, n) \in Seq(S)
        /\ Len(SubSeq(s, 1, n)) = IF 1 <= n THEN n - 1 + 1 ELSE 0
        /\ \A i \in 1 .. n - 1 + 1 : SubSeq(s, 1, n)[i] = s[1 + i - 1]
    BY <1>2, <1>3, SubSeqProperties
  <1> QED BY <1>2, <1>4 DEF IsSeq

(* seconds rounded down to units lose less than one unit.                  *)
LEMMA UnitsRoundDown ==
  ASSUME NEW v \in Nat, NEW g \in Nat \ {0}
  PROVE  (v \div g) \in Nat /\ (v \div g) * g > v - g
  OBVIOUS

(* to_nsequence masks nothing of a timeout that passed its check: blocks   *)
(* stay blocks, and seconds lose less than one unit.                       *)
LEMMA LockIsKept ==
  ASSUME NEW l \in Timeouts, TimelockOk(l)
  PROVE  /\ Units(l) \in Nat /\ ToNSequence(l).unit # "none" /\ ToNSequence(l).unit = l.unit
         /\ l.unit = "blocks" => Units(l) = l.value
         /\ l.unit # "blocks" => Units(l) * Granularity > l.value - Granularity
  <1>1. /\ l.value \in Nat /\ l.unit \in {"blocks", "seconds"} /\ MaxUnits \in Nat
        /\ Granularity \in Nat \ {0}
    BY LocksAreCounted DEF TimelockOk
  <1>2. ASSUME NEW n \in Nat, n <= MaxUnits PROVE n % (MaxUnits + 1) = n
    BY <1>1, <1>2
  <1>3. CASE l.unit = "blocks"
    <2>1. l.value <= MaxUnits
      BY <1>3 DEF TimelockOk
    <2> QED BY <1>1, <1>2, <1>3, <2>1 DEF ToNSequence, Units
  <1>4. CASE l.unit # "blocks"
    <2>1. l.value \div Granularity <= MaxUnits
      BY <1>4 DEF TimelockOk
    <2>2. /\ (l.value \div Granularity) \in Nat
          /\ (l.value \div Granularity) * Granularity > l.value - Granularity
      BY <1>1, UnitsRoundDown
    <2>3. Units(l) = (l.value \div Granularity) % (MaxUnits + 1) /\ ToNSequence(l).unit = "seconds"
      BY <1>4 DEF ToNSequence, Units
    <2>4. Units(l) = l.value \div Granularity
      BY <1>2, <2>1, <2>2, <2>3
    <2> QED BY <1>1, <1>4, <2>2, <2>3, <2>4
  <1> QED BY <1>3, <1>4

(* A byte after the end changes none of the nine tokens.                   *)
LEMMA OneMoreToken ==
  ASSUME NEW s, IsSeq(s), NEW e
  PROVE  Len(s) = 9 =>
           Len(Append(s, e)) = 10 /\ \A i \in 1..9 : Append(s, e)[i] = s[i]
  <1>1. /\ Len(Append(s, e)) = Len(s) + 1
        /\ \A i \in 1..Len(s) : Append(s, e)[i] = s[i]
    BY AppendIsSeq
  <1> QED BY <1>1

(* The tokens of a claim that has its witness, up to where it was cut or   *)
(* beyond its end.                                                         *)
SegwitForm(raw, x) ==
  /\ Len(raw) \in 3..10
  /\ \A i \in 1..9 : i <= Len(raw) => raw[i] = Raw(x)[i]

(* What ClaimFormsAgree says of one form.                                  *)
FormAgrees(raw) ==
  /\ TxidReads(raw) => SpendFieldsRead(raw) /\ (IsSegwit(raw) => ScrapeFinds(raw))
  /\ ScrapeFinds(raw) => InputsRead(raw) /\ Outpoint \in InputOutpoints(raw)

(* The tokens of a claim.                                                  *)
LEMMA RawTokens ==
  ASSUME NEW x
  PROVE  /\ Len(Raw(x)) = 9 /\ IsSeq(Raw(x))
         /\ Raw(x)[1] = <<"version", 2>>
         /\ Raw(x)[2] = <<"byte", 0>> /\ Raw(x)[3] = <<"byte", 1>> /\ Raw(x)[4] = <<"count", 1>>
         /\ Raw(x)[5] = <<"input", Outpoint>> /\ Raw(x)[6] = <<"count", 1>>
         /\ Raw(x)[7] = <<"output", x.out>>
         /\ Raw(x)[8] = <<"stack", << <<"sig", x.sighash>>, <<"p", x.reveals>>,
                                      <<"script", x.leaf>> >> >>
         /\ Raw(x)[9] = <<"locktime", 0>>
  <1>1. IsSeq(Raw(x))
    <2> DEFINE S == {Raw(x)[i] : i \in 1..9}
    <2>1. Raw(x) \in Seq(S)
      BY DEF Raw
    <2> QED BY <2>1 DEF IsSeq
  <1> QED BY <1>1 DEF Raw

(* With its witness a claim is read alike by all readers, however much of  *)
(* it is there: those that need a token past the cut all fail.             *)
LEMMA SegwitFormAgrees ==
  ASSUME NEW x, x.reveals = Preimage, NEW raw, SegwitForm(raw, x)
  PROVE  FormAgrees(raw)
  <1> DEFINE n == Len(raw)
  <1> DEFINE R == Raw(x)
             stack == << <<"sig", x.sighash>>, <<"p", x.reveals>>, <<"script", x.leaf>> >>
  <1>r. /\ R[2] = <<"byte", 0>> /\ R[3] = <<"byte", 1>> /\ R[4] = <<"count", 1>>
        /\ R[5] = <<"input", Outpoint>> /\ R[6] = <<"count", 1>> /\ R[8] = <<"stack", stack>>
    BY RawTokens
  <1>n. n \in 3..10 /\ \A i \in 1..9 : i <= n => raw[i] = R[i]
    BY DEF SegwitForm
  <1> HIDE DEF n, R, stack
  <1>m. /\ raw[2] = R[2] /\ raw[3] = R[3] /\ (n >= 4 => raw[4] = R[4])
        /\ (n >= 5 => raw[5] = R[5]) /\ (n >= 6 => raw[6] = R[6]) /\ (n >= 8 => raw[8] = R[8])
    BY <1>n
  <1>1. n \in 3..10 /\ IsSegwit(raw)
    BY <1>r, <1>n, <1>m DEF IsSegwit, n
  <1>2. InPos(raw) = 4
    BY <1>1 DEF InPos
  <1>3. n >= 4 => raw[4] = <<"count", 1>>
    BY <1>r, <1>m
  <1>4. n >= 5 => raw[5] = <<"input", Outpoint>>
    BY <1>r, <1>m
  <1>5. n >= 6 => raw[6] = <<"count", 1>>
    BY <1>r, <1>m
  <1>6. n >= 8 => raw[8] = <<"stack", stack>>
    BY <1>r, <1>m
  <1>7. InputsRead(raw) <=> n >= 5
    <2>1. CASE n >= 5
      <3>1. raw[4][1] = "count" /\ raw[4][2] = 1
        BY <1>1, <1>3, <2>1
      <3> QED BY <1>1, <1>2, <2>1, <3>1 DEF InputsRead, n
    <2>2. CASE n = 4
      <3>1. raw[4][2] = 1
        BY <1>3, <2>2
      <3> QED BY <1>2, <2>2, <3>1 DEF InputsRead, n
    <2>3. CASE n < 4
      BY <1>1, <1>2, <2>3 DEF InputsRead, n
    <2> QED BY <1>1, <2>1, <2>2, <2>3
  <1>8. n >= 5 => OutPos(raw) = 6 /\ InputOutpoints(raw) = {Outpoint}
    <2> SUFFICES ASSUME n >= 5 PROVE OutPos(raw) = 6 /\ InputOutpoints(raw) = {Outpoint}
      OBVIOUS
    <2>1. raw[4][2] = 1 /\ raw[5][2] = Outpoint
      BY <1>1, <1>3, <1>4
    <2>2. InputOutpoints(raw) = {raw[4 + i][2] : i \in 1..1}
      BY <1>2, <2>1 DEF InputOutpoints
    <2>3. OutPos(raw) = 6
      BY <1>2, <2>1 DEF OutPos
    <2> QED BY <2>1, <2>2, <2>3
  <1>9. OutputsRead(raw) <=> n >= 7
    <2>1. CASE n >= 6
      <3>1. raw[6][2] = 1
        BY <1>5, <2>1
      <3> QED BY <1>1, <1>7, <1>8, <2>1, <3>1 DEF OutputsRead, n
    <2>2. CASE n < 6
      BY <1>1, <1>7, <1>8, <2>2 DEF OutputsRead, n
    <2> QED BY <1>1, <2>1, <2>2
  <1>10. n >= 7 => WitPos(raw) = 8 /\ LockPos(raw) = 9 /\ raw[OutPos(raw)][2] = 1
    <2> SUFFICES ASSUME n >= 7
                 PROVE  WitPos(raw) = 8 /\ LockPos(raw) = 9 /\ raw[OutPos(raw)][2] = 1
      OBVIOUS
    <2>1. raw[6][2] = 1 /\ raw[4][2] = 1
      BY <1>1, <1>3, <1>5
    <2> QED BY <1>1, <1>2, <1>8, <2>1 DEF WitPos, LockPos
  <1>11. n >= 9 => ScrapeFinds(raw)
    <2> SUFFICES ASSUME n >= 9 PROVE ScrapeFinds(raw)
      OBVIOUS
    <2>1. raw[8][2] = stack
      BY <1>1, <1>6
    <2>2. 8 \in {j \in WitPos(raw)..LockPos(raw) - 1 : j <= Len(raw)}
      BY <1>1, <1>10 DEF n
    <2>3. stack \in WitnessStacks(raw)
      BY <1>1, <1>9, <2>1, <2>2 DEF WitnessStacks
    <2>4. Len(stack) = 3 /\ stack[2] = <<"p", Preimage>>
      BY DEF stack
    <2> QED BY <2>3, <2>4 DEF ScrapeFinds
  <1>12. TxidReads(raw) => n = 9
    BY <1>1, <1>9, <1>10 DEF TxidReads, n
  <1>13. ScrapeFinds(raw) => n >= 7
    BY <1>9 DEF ScrapeFinds, WitnessStacks
  <1> QED BY <1>1, <1>7, <1>8, <1>10, <1>11, <1>12, <1>13 DEF FormAgrees, SpendFieldsRead

(* What is cut before the marker of a witness cannot be read at all.       *)
LEMMA ShortFormAgrees ==
  ASSUME NEW x, NEW raw, Len(raw) \in 0..2, Len(raw) = 2 => raw[2] = Raw(x)[2]
  PROVE  FormAgrees(raw)
  <1>1. ~IsSegwit(raw) /\ InPos(raw) = 2
    BY DEF IsSegwit, InPos
  <1>2. ~InputsRead(raw)
    <2>1. CASE Len(raw) = 2
      <3>1. raw[2] = <<"byte", 0>>
        BY <2>1, RawTokens
      <3>2. raw[2][1] = "byte"
        BY <3>1
      <3> QED BY <1>1, <3>2 DEF InputsRead
    <2>2. CASE Len(raw) < 2
      BY <1>1, <2>2 DEF InputsRead
    <2> QED BY <2>1, <2>2
  <1> QED BY <1>1, <1>2 DEF FormAgrees, TxidReads, OutputsRead, ScrapeFinds, WitnessStacks

(* Without its witness a claim has an id and no secret.                    *)
LEMMA StrippedAgrees ==
  ASSUME NEW x
  PROVE  FormAgrees(Stripped(Raw(x)))
  <1> DEFINE raw == Stripped(Raw(x))
  <1>1. Len(raw) = 6 /\ raw[2] = <<"count", 1>> /\ raw[4] = <<"count", 1>>
    <2> DEFINE R == Raw(x)
               A == SubSeq(R, 1, 1)
               B == SubSeq(R, 4, 7)
               C == SubSeq(R, 9, 9)
    <2>1. PICK S : R \in Seq(S)
      BY RawTokens DEF IsSeq
    <2>2. \A i \in 1..9 : R[i] \in S
      BY <2>1, RawTokens, ElementOfSeq
    <2>r. /\ R[1] = <<"version", 2>> /\ R[4] = <<"count", 1>>
          /\ R[5] = <<"input", Outpoint>> /\ R[6] = <<"count", 1>>
          /\ R[7] = <<"output", x.out>> /\ R[9] = <<"locktime", 0>>
      BY RawTokens
    <2>s. raw = (A \o B) \o C
      BY DEF Stripped
    <2> HIDE DEF R, raw
    <2>3. A \in Seq(S) /\ Len(A) = 1 /\ A[1] = R[1]
      <3>1. /\ A \in Seq(S) /\ Len(A) = IF 1 <= 1 THEN 1 - 1 + 1 ELSE 0
            /\ \A i \in 1 .. 1 - 1 + 1 : A[i] = R[1 + i - 1]
        BY <2>2, SubSeqProperties
      <3> QED BY <3>1
    <2>4. B \in Seq(S) /\ Len(B) = 4 /\ \A i \in 1..4 : B[i] = R[3 + i]
      <3>1. /\ B \in Seq(S) /\ Len(B) = IF 4 <= 7 THEN 7 - 4 + 1 ELSE 0
            /\ \A i \in 1 .. 7 - 4 + 1 : B[i] = R[4 + i - 1]
        BY <2>2, SubSeqProperties
      <3> QED BY <3>1
    <2>5. C \in Seq(S) /\ Len(C) = 1 /\ C[1] = R[9]
      <3>1. /\ C \in Seq(S) /\ Len(C) = IF 9 <= 9 THEN 9 - 9 + 1 ELSE 0
            /\ \A i \in 1 .. 9 - 9 + 1 : C[i] = R[9 + i - 1]
        BY <2>2, SubSeqProperties
      <3> QED BY <3>1
    <2> HIDE DEF A, B, C
    <2>6. A \o B \in Seq(S) /\ Len(A \o B) = 5 /\ (A \o B)[1] = A[1]
          /\ \A i \in 2..5 : (A \o B)[i] = B[i - 1]
      <3>1. /\ A \o B \in Seq(S) /\ Len(A \o B) = Len(A) + Len(B)
            /\ \A i \in 1 .. Len(A) + Len(B) :
                 (A \o B)[i] = IF i <= Len(A) THEN A[i] ELSE B[i - Len(A)]
        BY <2>3, <2>4, ConcatProperties
      <3> QED BY <2>3, <2>4, <3>1
    <2> DEFINE D == A \o B
    <2>7. Len(raw) = 6 /\ (\A i \in 1..5 : raw[i] = D[i]) /\ raw[6] = C[1]
          /\ raw \in Seq(S)
      <3>1. D \in Seq(S) /\ Len(D) = 5 /\ raw = D \o C
        BY <2>6, <2>s
      <3> HIDE DEF D
      <3>2. /\ raw \in Seq(S) /\ Len(raw) = Len(D) + Len(C)
            /\ \A i \in 1 .. Len(D) + Len(C) :
                 raw[i] = IF i <= Len(D) THEN D[i] ELSE C[i - Len(D)]
        BY <2>5, <3>1, ConcatProperties
      <3> QED BY <2>5, <3>1, <3>2
    <2>8. /\ raw[1] = R[1] /\ raw[2] = R[4] /\ raw[3] = R[5] /\ raw[4] = R[6]
          /\ raw[5] = R[7] /\ raw[6] = R[9]
      BY <2>3, <2>4, <2>5, <2>6, <2>7
    <2> QED BY <2>7, <2>8, <2>r
  <1> HIDE DEF raw
  <1>3. raw[2][1] = "count" /\ raw[2][2] = 1 /\ raw[4][2] = 1 /\ raw[2] # <<"byte", 0>>
    BY <1>1
  <1>4. ~IsSegwit(raw) /\ InPos(raw) = 2
    BY <1>3 DEF IsSegwit, InPos
  <1>5. OutPos(raw) = 4
    BY <1>3, <1>4 DEF OutPos
  <1>6. FormAgrees(raw)
    BY <1>1, <1>3, <1>4, <1>5
       DEF FormAgrees, SpendFieldsRead, ScrapeFinds, WitnessStacks
  <1> QED BY <1>6 DEF raw

(* The forms are prefixes, the one without the witness and the one with a  *)
(* byte after it.                                                          *)
LEMMA EveryFormAgrees ==
  ASSUME NEW x, x.reveals = Preimage, NEW raw \in Forms(Raw(x))
  PROVE  FormAgrees(raw)
  <1>1. CASE \E n \in 0..Len(Raw(x)) : raw = SubSeq(Raw(x), 1, n)
    <2>1. PICK n \in 0..Len(Raw(x)) : raw = SubSeq(Raw(x), 1, n)
      BY <1>1
    <2>2. n \in 0..9 /\ Len(raw) = n /\ \A i \in 1..n : raw[i] = Raw(x)[i]
      BY <2>1, RawTokens, ShortIsSeq
    <2>3. CASE n >= 3
      <3>1. SegwitForm(raw, x)
        BY <2>2, <2>3 DEF SegwitForm
      <3> QED BY <3>1, SegwitFormAgrees
    <2>4. CASE n < 3
      <3>1. Len(raw) \in 0..2 /\ (Len(raw) = 2 => raw[2] = Raw(x)[2])
        BY <2>2, <2>4
      <3> QED BY <3>1, ShortFormAgrees
    <2> QED BY <2>2, <2>3, <2>4
  <1>2. CASE raw = Stripped(Raw(x))
    BY <1>2, StrippedAgrees
  <1>3. CASE raw = Append(Raw(x), <<"byte", 0>>)
    <2>1. Len(raw) = 10 /\ \A i \in 1..9 : raw[i] = Raw(x)[i]
      <3>1. IsSeq(Raw(x)) /\ Len(Raw(x)) = 9
        BY RawTokens
      <3> QED BY <1>3, <3>1, OneMoreToken
    <2>2. SegwitForm(raw, x)
      BY <2>1 DEF SegwitForm
    <2> QED BY <2>2, SegwitFormAgrees
  <1> QED BY <1>1, <1>2, <1>3 DEF Forms

(* The transactions of any chain.                                          *)
MinedIn(chain) == UNION {chain[i].txs : i \in 1..Len(chain)}

(* A lock that the node finds reached, on any chain.                       *)
LockOn(chain, lock) ==
  \/ lock.unit = "none"
  \/ /\ \E x \in MinedIn(chain) : x.kind = "fund"
     /\ LET i == CHOOSE i \in 1..Len(chain) : HasKind(chain, i, "fund")
        IN IF lock.unit = "blocks" THEN Len(chain) + 1 - i >= lock.n
           ELSE chain[Len(chain)].time - chain[i].time >= lock.n * Granularity

(* The funding is in a block, and the block after m is late enough.        *)
FundedAndLate(l, chain, m) ==
  \E i \in 1..m : HasKind(chain, i, "fund") /\ Late(l, chain, i, m)

(* Blocks have a time.                                                     *)
ChainOk ==
  /\ IsSeq(btcChain) /\ Len(btcChain) > 0
  /\ \A i \in 1..Len(btcChain) : btcChain[i].time \in Int

(* Transactions are as the two parties build them, and the node has seen   *)
(* them.                                                                   *)
TxsOk ==
  \A x \in Mined \cup btcPool :
    /\ TxId(x) \in seen
    /\ x.kind = "fund" => x = BuildPaymentTx
    /\ x.kind = "refund" => x.lock = ToNSequence(t)
    /\ x.kind = "claim" => x.reveals = Preimage

(* The HTLC is funded once: the node takes no second payment while it      *)
(* knows the first.                                                        *)
OneFunding ==
  /\ \A i, j \in 1..Len(btcChain) :
       HasKind(btcChain, i, "fund") /\ HasKind(btcChain, j, "fund") => i = j
  /\ (\E x \in btcPool : x.kind = "fund") =>
       \A i \in 1..Len(btcChain) : ~HasKind(btcChain, i, "fund")

(* A refund on the chain or in the pool is past its lock.                  *)
RefundsAreLate ==
  /\ \A j \in 1..Len(btcChain) :
       HasKind(btcChain, j, "refund") => FundedAndLate(t, btcChain, j - 1)
  /\ (\E x \in btcPool : x.kind = "refund") => FundedAndLate(t, btcChain, Len(btcChain))

(* A party that was told "ok", or waits for its funding, has sent          *)
(* something that the node took.                                           *)
PartiesOk ==
  /\ DOMAIN party = Parties
  /\ \A who \in Parties :
       /\ DOMAIN party[who] = {"pc", "tx", "loc", "polls", "tries"}
       /\ party[who].pc \in {"ok", "read"} => party[who].tx \in seen

(* The inductive invariant.                                                *)
BtcInv ==
  /\ t \in Timeouts /\ TimelockOk(t)
  /\ ChainOk /\ TxsOk /\ OneFunding /\ RefundsAreLate /\ PartiesOk

(* A lock that the node finds reached is late enough for the block it      *)
(* mines next.                                                             *)
LEMMA LockGives ==
  ASSUME NEW chain, IsSeq(chain), NEW l \in Timeouts, TimelockOk(l),
         LockOn(chain, ToNSequence(l))
  PROVE  FundedAndLate(l, chain, Len(chain))
  <1> DEFINE lock == ToNSequence(l)
             n == Len(chain)
             i == CHOOSE k \in 1..n : HasKind(chain, k, "fund")
  <1>1. n \in Nat
    BY IsSeqHas
  <1>2. lock.unit # "none" /\ lock.unit = l.unit /\ lock.n = Units(l)
    BY LockIsKept DEF Units
  <1>3. \E x \in MinedIn(chain) : x.kind = "fund"
    BY <1>2 DEF LockOn
  <1>4. \E k \in 1..n : HasKind(chain, k, "fund")
    BY <1>3 DEF MinedIn, HasKind
  <1>5. i \in 1..n /\ HasKind(chain, i, "fund")
    BY <1>4
  <1>6. IF lock.unit = "blocks" THEN n + 1 - i >= lock.n
        ELSE chain[n].time - chain[i].time >= lock.n * Granularity
    BY <1>2 DEF LockOn
  <1> HIDE DEF i, n, lock
  <1>7. Late(l, chain, i, n)
    BY <1>2, <1>6 DEF Late
  <1> QED BY <1>5, <1>7 DEF FundedAndLate, n

(* The invariant gives the three parts of the property.                    *)
LEMMA BtcInvSuffices == BtcInv => BtcLegIsTrue
  <1> SUFFICES ASSUME BtcInv PROVE BtcLegIsTrue
    OBVIOUS
  <1>1. OkMeansPublished
    BY DEF BtcInv, PartiesOk, OkMeansPublished
  <1>2. RefundNotEarly
    <2> SUFFICES ASSUME IsMined("refund") PROVE RefundNotEarly
      BY DEF RefundNotEarly
    <2> DEFINE n == Len(btcChain)
               i == BlockOf("fund")
               j == BlockOf("refund")
    <2>1. n \in Nat
      BY IsSeqHas DEF BtcInv, ChainOk
    <2>2. \E k \in 1..n : \E x \in btcChain[k].txs : x.kind = "refund"
      BY DEF IsMined, Mined
    <2>3. j \in 1..n /\ HasKind(btcChain, j, "refund")
      BY <2>2 DEF BlockOf, HasKind
    <2> HIDE DEF j
    <2>4. PICK k \in 1..(j - 1) : HasKind(btcChain, k, "fund") /\ Late(t, btcChain, k, j - 1)
      BY <2>3 DEF BtcInv, RefundsAreLate, FundedAndLate
    <2>5. k \in 1..n
      BY <2>1, <2>3
    <2>6. i \in 1..n /\ HasKind(btcChain, i, "fund")
      BY <2>4, <2>5 DEF BlockOf, HasKind
    <2> HIDE DEF i
    <2>7. i = k
      BY <2>4, <2>5, <2>6 DEF BtcInv, OneFunding
    <2>8. Late(t, btcChain, i, j - 1)
      BY <2>4, <2>7
    <2>9. CASE t.unit = "blocks"
      <3>1. Units(t) = t.value /\ j - 1 + 1 - i >= t.value
        BY <2>8, <2>9, LockIsKept DEF BtcInv, Late
      <3>2. j - i >= t.value
        BY <2>3, <2>6, <3>1
      <3> QED BY <2>9, <3>2 DEF RefundNotEarly, i, j
    <2>10. CASE t.unit # "blocks"
      <3>1. j - 1 \in 1..n
        BY <2>1, <2>3, <2>4
      <3>2. btcChain[j - 1].time \in Int /\ btcChain[i].time \in Int
        BY <2>6, <3>1 DEF BtcInv, ChainOk
      <3>3. /\ btcChain[j - 1].time - btcChain[i].time >= Units(t) * Granularity
            /\ Units(t) * Granularity > t.value - Granularity
            /\ Units(t) * Granularity \in Int
        BY <2>8, <2>10, LockIsKept, LocksAreCounted DEF BtcInv, Late
      <3>4. t.value \in Int /\ Granularity \in Int
        BY LocksAreCounted DEF BtcInv
      <3>5. btcChain[j - 1].time - btcChain[i].time > t.value - Granularity
        BY <3>2, <3>3, <3>4
      <3> QED BY <2>10, <3>5 DEF RefundNotEarly, i, j
    <2> QED BY <2>9, <2>10
  <1>3. ClaimFormsAgree
    <2> SUFFICES ASSUME NEW x \in Mined \cup btcPool, x.kind = "claim",
                        NEW raw \in Forms(Raw(x))
                 PROVE  FormAgrees(raw)
      BY DEF ClaimFormsAgree, FormAgrees
    <2> QED BY EveryFormAgrees DEF BtcInv, TxsOk
  <1> QED BY <1>1, <1>2, <1>3 DEF BtcLegIsTrue

(* An empty chain, an agreed timeout, and nobody has done anything.        *)
LEMMA BtcInvInit == BtcInit => BtcInv
  <1> SUFFICES ASSUME BtcInit PROVE BtcInv
    OBVIOUS
  <1> DEFINE b == [time |-> 0, txs |-> {}]
  <1>1. btcChain = <<b>> /\ btcPool = {}
    BY DEF BtcInit
  <1>2. IsSeq(btcChain) /\ Len(btcChain) = 1 /\ btcChain[1] = b
    <2>1. <<b>> \in Seq({b}) /\ Len(<<b>>) = 1
      OBVIOUS
    <2> QED BY <1>1, <2>1 DEF IsSeq
  <1>3. b.time = 0 /\ b.txs = {}
    OBVIOUS
  <1> HIDE DEF b
  <1>4. ChainOk
    BY <1>2, <1>3 DEF ChainOk
  <1>5. \A i \in 1..Len(btcChain) : btcChain[i].txs = {}
    BY <1>2, <1>3
  <1>6. Mined = {}
    BY <1>5 DEF Mined
  <1>7. TxsOk /\ OneFunding /\ RefundsAreLate
    BY <1>1, <1>5, <1>6 DEF TxsOk, OneFunding, RefundsAreLate, HasKind
  <1>8. PartiesOk
    BY DEF BtcInit, PartiesOk
  <1> QED BY <1>4, <1>7, <1>8 DEF BtcInit, BtcInv

(* Mining: the funding block is the first one, or the new one.             *)
LEMMA BtcMineKeeps == BtcInv /\ BtcMine => BtcInv'
  <1> SUFFICES ASSUME BtcInv, BtcMine PROVE BtcInv'
    OBVIOUS
  <1> DEFINE n == Len(btcChain)
  <1>1. PICK dt \in Intervals, txs \in SUBSET btcPool :
          /\ btcChain' = Append(btcChain, [time |-> btcChain[n].time + dt, txs |-> txs])
          /\ btcPool' = btcPool \ txs
    BY DEF BtcMine
  <1>2. t' = t /\ seen' = seen /\ party' = party
    BY DEF BtcMine
  <1> DEFINE b == [time |-> btcChain[n].time + dt, txs |-> txs]
  <1>3. b.time = btcChain[n].time + dt /\ b.txs = txs /\ dt \in Nat
    BY LocksAreCounted
  <1> HIDE DEF b
  <1>4. /\ n \in Nat /\ n > 0 /\ IsSeq(btcChain) /\ btcChain[n].time \in Int
        /\ \A i \in 1..n : btcChain[i].time \in Int
    BY IsSeqHas DEF BtcInv, ChainOk
  <1>5. /\ IsSeq(btcChain') /\ Len(btcChain') = n + 1
        /\ \A i \in 1..n : btcChain'[i] = btcChain[i]
        /\ btcChain'[n + 1] = b
    <2>1. btcChain' = Append(btcChain, b)
      BY <1>1 DEF b
    <2> QED BY <1>4, <2>1, AppendIsSeq
  <1>6. \A i \in 1..(n + 1) : i \in 1..n \/ i = n + 1
    BY <1>4
  <1>7. ChainOk'
    BY <1>3, <1>4, <1>5, <1>6 DEF ChainOk
  <1>8. Mined' = Mined \cup txs
    <2>1. Mined = UNION {btcChain[i].txs : i \in 1..n}
      BY DEF Mined
    <2>2. Mined' = UNION {btcChain'[i].txs : i \in 1..(n + 1)}
      BY <1>5 DEF Mined
    <2>3. \A x : x \in Mined' <=> x \in Mined \/ x \in txs
      BY <1>3, <1>4, <1>5, <1>6, <2>1, <2>2
    <2> QED BY <2>3
  <1>9. TxsOk'
    <2>1. BuildPaymentTx' = BuildPaymentTx /\ ToNSequence(t)' = ToNSequence(t)
      BY <1>2 DEF BuildPaymentTx, ToNSequence
    <2>2. Mined' \cup btcPool' \subseteq Mined \cup btcPool
      BY <1>1, <1>8
    <2> QED BY <1>2, <2>1, <2>2 DEF BtcInv, TxsOk
  <1> HIDE DEF n
  <1>10. \A i \in 1..n : \A k \in {"fund", "refund"} :
           HasKind(btcChain', i, k) <=> HasKind(btcChain, i, k)
    BY <1>5 DEF HasKind
  <1>11. \A k \in {"fund", "refund"} :
           HasKind(btcChain', n + 1, k) <=> \E x \in txs : x.kind = k
    BY <1>3, <1>5 DEF HasKind
  <1>12. OneFunding'
    <2>1. ASSUME NEW x \in txs, x.kind = "fund" PROVE ~\E y \in btcPool' : y.kind = "fund"
      BY <1>1, <2>1 DEF BtcInv, TxsOk
    <2>2. (\E x \in txs : x.kind = "fund") =>
            \A i \in 1..n : ~HasKind(btcChain', i, "fund")
      BY <1>1, <1>10 DEF BtcInv, OneFunding, n
    <2>3. \A i, j \in 1..(n + 1) :
            HasKind(btcChain', i, "fund") /\ HasKind(btcChain', j, "fund") => i = j
      BY <1>6, <1>10, <1>11, <2>2 DEF BtcInv, OneFunding, n
    <2>4. (\E y \in btcPool' : y.kind = "fund") =>
            \A i \in 1..(n + 1) : ~HasKind(btcChain', i, "fund")
      <3> SUFFICES ASSUME NEW y \in btcPool', y.kind = "fund", NEW i \in 1..(n + 1)
                   PROVE  ~HasKind(btcChain', i, "fund")
        OBVIOUS
      <3>1. CASE i \in 1..n
        BY <1>1, <1>10, <3>1 DEF BtcInv, OneFunding, n
      <3>2. CASE i = n + 1
        BY <1>11, <2>1, <3>2
      <3> QED BY <1>6, <3>1, <3>2
    <2> QED BY <1>5, <2>3, <2>4 DEF OneFunding
  <1>13. Units(t) \in Nat /\ Granularity \in Nat
    BY LockIsKept, LocksAreCounted DEF BtcInv
  <1>14. ASSUME NEW m \in 0..n, FundedAndLate(t, btcChain, m)
         PROVE  FundedAndLate(t, btcChain', m)
    <2>1. PICK i \in 1..m : HasKind(btcChain, i, "fund") /\ Late(t, btcChain, i, m)
      BY <1>14 DEF FundedAndLate
    <2>2. i \in 1..n /\ m \in 1..n
      BY <1>4, <2>1
    <2>3. HasKind(btcChain', i, "fund")
      BY <1>10, <2>1, <2>2
    <2>4. btcChain'[i] = btcChain[i] /\ btcChain'[m] = btcChain[m]
      BY <1>5, <2>2
    <2>5. Late(t, btcChain', i, m)
      BY <2>1, <2>4 DEF Late
    <2> QED BY <2>3, <2>5 DEF FundedAndLate
  <1>15. ASSUME FundedAndLate(t, btcChain, n)
         PROVE  FundedAndLate(t, btcChain', n + 1)
    <2>1. PICK i \in 1..n : HasKind(btcChain, i, "fund") /\ Late(t, btcChain, i, n)
      BY <1>15 DEF FundedAndLate
    <2>2. i \in 1..(n + 1)
      BY <1>4, <2>1
    <2>3. HasKind(btcChain', i, "fund")
      BY <1>10, <2>1
    <2>4. /\ btcChain'[i] = btcChain[i] /\ btcChain'[n + 1].time = btcChain[n].time + dt
          /\ btcChain[i].time \in Int /\ btcChain[n].time \in Int
      BY <1>3, <1>4, <1>5
    <2>5. CASE t.unit = "blocks"
      <3>1. n + 1 - i >= Units(t)
        BY <2>1, <2>5 DEF Late
      <3>2. n + 1 + 1 - i >= Units(t)
        BY <1>4, <1>13, <3>1
      <3>3. Late(t, btcChain', i, n + 1)
        BY <2>5, <3>2 DEF Late
      <3> QED BY <2>2, <2>3, <3>3 DEF FundedAndLate
    <2>6. CASE t.unit # "blocks"
      <3>1. btcChain[n].time - btcChain[i].time >= Units(t) * Granularity
        BY <2>1, <2>6 DEF Late
      <3>2. btcChain'[n + 1].time - btcChain'[i].time >= Units(t) * Granularity
        BY <1>3, <1>13, <2>4, <3>1
      <3>3. Late(t, btcChain', i, n + 1)
        BY <2>6, <3>2 DEF Late
      <3> QED BY <2>2, <2>3, <3>3 DEF FundedAndLate
    <2> QED BY <2>5, <2>6
  <1>16. RefundsAreLate'
    <2>1. ASSUME NEW j \in 1..(n + 1), HasKind(btcChain', j, "refund")
          PROVE  FundedAndLate(t, btcChain', j - 1)
      <3>1. CASE j \in 1..n
        <4>1. FundedAndLate(t, btcChain, j - 1) /\ j - 1 \in 0..n
          BY <1>4, <1>10, <2>1, <3>1 DEF BtcInv, RefundsAreLate, n
        <4> QED BY <1>14, <4>1
      <3>2. CASE j = n + 1
        <4>1. \E x \in btcPool : x.kind = "refund"
          BY <1>1, <1>11, <2>1, <3>2
        <4>2. FundedAndLate(t, btcChain, n)
          BY <4>1 DEF BtcInv, RefundsAreLate, n
        <4>3. j - 1 = n /\ n \in 0..n
          BY <1>4, <3>2
        <4> QED BY <1>14, <4>2, <4>3
      <3> QED BY <1>6, <3>1, <3>2
    <2>2. ASSUME NEW x \in btcPool', x.kind = "refund"
          PROVE  FundedAndLate(t, btcChain', n + 1)
      BY <1>1, <1>15, <2>2 DEF BtcInv, RefundsAreLate, n
    <2> QED BY <1>2, <1>5, <2>1, <2>2 DEF RefundsAreLate
  <1>17. PartiesOk'
    BY <1>2 DEF BtcInv, PartiesOk
  <1>18. (t \in Timeouts /\ TimelockOk(t))'
    BY <1>2 DEF BtcInv, TimelockOk
  <1> QED BY <1>7, <1>9, <1>12, <1>16, <1>17, <1>18 DEF BtcInv

(* What the node accepts is new to it, and a refund it accepts is due.     *)
LEMMA Accepted ==
  ASSUME NEW x, NodeAnswer(x) = "accepted"
  PROVE  /\ ~\E y \in Mined \cup btcPool : TxId(y) = TxId(x)
         /\ x.kind # "fund" => LockReached(x.lock)
  <1>1. ~\E y \in Mined : TxId(y) = TxId(x)
    BY DEF NodeAnswer
  <1>2. x \notin btcPool
    BY <1>1 DEF NodeAnswer
  <1>3. ~\E y \in btcPool : TxId(y) = TxId(x)
    BY <1>1, <1>2 DEF NodeAnswer
  <1>4. x.kind # "fund" => LockReached(x.lock)
    BY <1>1, <1>2, <1>3 DEF NodeAnswer
  <1> QED BY <1>1, <1>3, <1>4

(* An answer that reports it as known is about a transaction it has.       *)
LEMMA KnownIsThere ==
  ASSUME NEW x, AlreadyKnown(NodeAnswer(x))
  PROVE  \E y \in Mined \cup btcPool : TxId(y) = TxId(x)
  <1>1. CASE \E y \in Mined : TxId(y) = TxId(x)
    BY <1>1
  <1>2. CASE x \in btcPool
    BY <1>2
  <1>3. CASE ~(\E y \in Mined : TxId(y) = TxId(x)) /\ x \notin btcPool
    <2>1. NodeAnswer(x) \in {"txn-same-nonwitness-data", "accepted", "missing-inputs",
                             "mempool-conflict", "non-BIP68-final", "script-failed"}
      BY <1>3 DEF NodeAnswer
    <2> QED BY <2>1 DEF AlreadyKnown, Markers
  <1> QED BY <1>1, <1>2, <1>3

(* The node checks a lock on its own chain.                                *)
LEMMA LockReachedOn ==
  ASSUME NEW lock, LockReached(lock)
  PROVE  LockOn(btcChain, lock)
  BY DEF LockReached, LockOn, IsMined, Mined, MinedIn, BlockOf, HasKind

(* Sending a transaction: what is waited for or answered was taken.        *)
LEMMA BroadcastKeeps ==
  ASSUME BtcInv, NEW who \in Parties, NEW x, NEW p, Broadcast(who, x, p),
         x.kind = "fund" => x = BuildPaymentTx,
         x.kind = "refund" => x.lock = ToNSequence(t),
         x.kind = "claim" => x.reveals = Preimage,
         t' = t, btcChain' = btcChain
  PROVE  BtcInv'
  <1>1. t \in Timeouts /\ TimelockOk(t) /\ ChainOk /\ TxsOk /\ OneFunding /\ RefundsAreLate
        /\ PartiesOk
    BY DEF BtcInv
  <1>2. (t \in Timeouts /\ TimelockOk(t))'
    BY <1>1 DEF TimelockOk
  <1>3. ChainOk' /\ Mined' = Mined
    BY <1>1 DEF ChainOk, Mined
  <1>4. Submit(x)
    BY DEF Broadcast
  <1>5. seen \subseteq seen' /\ (NodeAnswer(x) = "accepted" => TxId(x) \in seen')
    BY <1>4 DEF Submit
  <1>6. BroadcastOk(x) => TxId(x) \in seen'
    <2>1. CASE NodeAnswer(x) = "accepted"
      BY <1>5, <2>1
    <2>2. CASE AlreadyKnown(NodeAnswer(x))
      BY <1>1, <1>5, <2>2, KnownIsThere DEF TxsOk
    <2> QED BY <2>1, <2>2 DEF BroadcastOk
  <1>7. PartiesOk'
    <2>1. PICK answered \in BOOLEAN :
            party' = [party EXCEPT ![who].tries = @ + 1, ![who].tx = TxId(x),
                        ![who].pc = IF answered /\ BroadcastOk(x) THEN p ELSE "failed"]
      BY DEF Broadcast
    <2> DEFINE q == IF answered /\ BroadcastOk(x) THEN p ELSE "failed"
               i == TxId(x)
    <2>2. q \in {"ok", "read"} => i \in seen'
      BY <1>6
    <2>3. party' = [party EXCEPT ![who].tries = @ + 1, ![who].tx = i, ![who].pc = q]
      BY <2>1
    <2> HIDE DEF q, i
    <2>4. /\ DOMAIN party' = Parties
          /\ \A w \in Parties \ {who} : party'[w] = party[w]
          /\ DOMAIN party'[who] = {"pc", "tx", "loc", "polls", "tries"}
          /\ party'[who].pc = q /\ party'[who].tx = i
      BY <1>1, <2>3 DEF PartiesOk
    <2> QED BY <1>1, <1>5, <2>2, <2>4 DEF PartiesOk
  <1>8. CASE btcPool' = btcPool
    <2>1. TxsOk'
      BY <1>1, <1>3, <1>5, <1>8 DEF TxsOk, BuildPaymentTx, ToNSequence
    <2>2. OneFunding' /\ RefundsAreLate'
      BY <1>1, <1>8 DEF OneFunding, RefundsAreLate
    <2> QED BY <1>2, <1>3, <1>7, <2>1, <2>2 DEF BtcInv
  <1>9. CASE NodeAnswer(x) = "accepted" /\ btcPool' = btcPool \cup {x}
    <2>1. TxsOk'
      <3>1. BuildPaymentTx' = BuildPaymentTx /\ ToNSequence(t)' = ToNSequence(t)
        BY DEF BuildPaymentTx, ToNSequence
      <3> QED BY <1>1, <1>3, <1>5, <1>9, <3>1 DEF TxsOk
    <2>2. OneFunding'
      <3>1. x.kind = "fund" => \A i \in 1..Len(btcChain) : ~HasKind(btcChain, i, "fund")
        <4> SUFFICES ASSUME x.kind = "fund", NEW i \in 1..Len(btcChain),
                            HasKind(btcChain, i, "fund")
                     PROVE  FALSE
          OBVIOUS
        <4>1. PICK y \in btcChain[i].txs : y.kind = "fund"
          BY DEF HasKind
        <4>2. y \in Mined /\ y = x
          BY <1>1, <4>1 DEF Mined, TxsOk
        <4> QED BY <1>9, <4>2, Accepted
      <3> QED BY <1>1, <1>9, <3>1 DEF OneFunding
    <2>3. RefundsAreLate'
      <3>1. x.kind = "refund" => FundedAndLate(t, btcChain, Len(btcChain))
        <4> SUFFICES ASSUME x.kind = "refund" PROVE FundedAndLate(t, btcChain, Len(btcChain))
          OBVIOUS
        <4>1. LockReached(ToNSequence(t))
          BY <1>9, Accepted
        <4>2. LockOn(btcChain, ToNSequence(t))
          BY <4>1, LockReachedOn
        <4> QED BY <1>1, <4>2, LockGives DEF ChainOk
      <3> QED BY <1>1, <1>9, <3>1 DEF RefundsAreLate
    <2> QED BY <1>2, <1>3, <1>7, <2>1, <2>2, <2>3 DEF BtcInv
  <1> QED BY <1>4, <1>8, <1>9 DEF Submit

(* A step of a party that leaves the node alone.                           *)
LEMMA PartyKeeps ==
  ASSUME BtcInv, PartiesOk', t' = t, btcChain' = btcChain, btcPool' = btcPool, seen' = seen
  PROVE  BtcInv'
  <1>1. (t \in Timeouts /\ TimelockOk(t))'
    BY DEF BtcInv, TimelockOk
  <1>2. ChainOk' /\ Mined' = Mined
    BY DEF BtcInv, ChainOk, Mined
  <1>3. TxsOk'
    BY <1>2 DEF BtcInv, TxsOk, BuildPaymentTx, ToNSequence
  <1>4. OneFunding' /\ RefundsAreLate'
    BY DEF BtcInv, OneFunding, RefundsAreLate
  <1> QED BY <1>1, <1>2, <1>3, <1>4 DEF BtcInv

(* A build that fails sends nothing.                                       *)
LEMMA RefuseKeeps ==
  ASSUME BtcInv, NEW who \in Parties, Refuse(who), t' = t, btcChain' = btcChain,
         btcPool' = btcPool, seen' = seen
  PROVE  BtcInv'
  <1>1. party' = [party EXCEPT ![who].pc = "failed", ![who].tries = @ + 1]
    BY DEF Refuse
  <1>2. /\ DOMAIN party' = Parties
        /\ \A w \in Parties \ {who} : party'[w] = party[w]
        /\ DOMAIN party'[who] = {"pc", "tx", "loc", "polls", "tries"}
        /\ party'[who].pc = "failed"
    BY <1>1 DEF BtcInv, PartiesOk
  <1>3. PartiesOk'
    BY <1>2 DEF BtcInv, PartiesOk
  <1> QED BY <1>3, PartyKeeps

(* read_funded_amount waits, finds the funding or gives up.                *)
LEMMA PollKeeps == BtcInv /\ ReadFundedAmount => BtcInv'
  <1> SUFFICES ASSUME BtcInv, ReadFundedAmount PROVE BtcInv'
    OBVIOUS
  <1> DEFINE K == {"pc", "tx", "loc", "polls", "tries"}
  <1>1. /\ party["taker"].pc = "read" /\ t' = t /\ btcChain' = btcChain /\ btcPool' = btcPool
        /\ seen' = seen
    BY DEF ReadFundedAmount
  <1>2. "taker" \in Parties /\ party["taker"].tx \in seen /\ DOMAIN party["taker"] = K
        /\ DOMAIN party = Parties
    BY <1>1 DEF BtcInv, PartiesOk, Parties
  <1>3. /\ DOMAIN party' = Parties /\ DOMAIN party'["taker"] = K
        /\ \A w \in Parties \ {"taker"} : party'[w] = party[w]
        /\ party'["taker"].tx = party["taker"].tx
    <2>1. \/ party' = [party EXCEPT !["taker"].pc = "ok",
                                    !["taker"].loc = WithFunding(BuildHtlc(t), FundTx.out)]
          \/ party' = [party EXCEPT !["taker"] =
               IF @.polls < MaxPolls THEN [@ EXCEPT !.polls = @ + 1] ELSE [@ EXCEPT !.pc = "failed"]]
          \/ party' = [party EXCEPT !["taker"].pc = "failed"]
      BY DEF ReadFundedAmount
    <2>2. CASE party' = [party EXCEPT !["taker"].pc = "ok",
                                    !["taker"].loc = WithFunding(BuildHtlc(t), FundTx.out)]
      BY <1>2, <2>2
    <2>3. CASE party' = [party EXCEPT !["taker"] =
               IF @.polls < MaxPolls THEN [@ EXCEPT !.polls = @ + 1] ELSE [@ EXCEPT !.pc = "failed"]]
      BY <1>2, <2>3
    <2>4. CASE party' = [party EXCEPT !["taker"].pc = "failed"]
      BY <1>2, <2>4
    <2> QED BY <2>1, <2>2, <2>3, <2>4
  <1>4. PartiesOk'
    BY <1>1, <1>2, <1>3 DEF BtcInv, PartiesOk
  <1> QED BY <1>1, <1>4, PartyKeeps

(* What a spend carries of what it is built from.                          *)
LEMMA SpendsAreBuilt ==
  ASSUME NEW loc, NEW which, NEW lock, NEW reveals, NEW wit
  PROVE  /\ SpendTx(loc, which, lock, reveals, wit).kind = which
         /\ SpendTx(loc, which, lock, reveals, wit).lock = lock
         /\ SpendTx(loc, which, lock, reveals, wit).reveals = reveals
  BY DEF SpendTx

(* The payment funds the HTLC.                                             *)
LEMMA PaymentIsBuilt == BuildPaymentTx.kind = "fund"
  BY DEF BuildPaymentTx, Tx0

(* fund, claim and refund: what they build is what the invariant says of a *)
(* transaction on its way.                                                 *)
LEMMA FundKeeps == BtcInv /\ Fund => BtcInv'
  <1> SUFFICES ASSUME BtcInv, Fund PROVE BtcInv'
    OBVIOUS
  <1>1. "taker" \in Parties /\ t' = t /\ btcChain' = btcChain
    BY DEF Parties, Fund
  <1>2. CASE PaymentBuilds
    <2>1. Broadcast("taker", BuildPaymentTx, "read")
      BY <1>2 DEF Fund
    <2> QED BY <1>1, <2>1, PaymentIsBuilt, BroadcastKeeps
  <1>3. CASE ~PaymentBuilds
    <2>1. Refuse("taker") /\ btcPool' = btcPool /\ seen' = seen
      BY <1>3 DEF Fund
    <2> QED BY <1>1, <2>1, RefuseKeeps
  <1> QED BY <1>2, <1>3

LEMMA ClaimKeeps == BtcInv /\ Claim => BtcInv'
  <1> SUFFICES ASSUME BtcInv, Claim PROVE BtcInv'
    OBVIOUS
  <1> DEFINE loc == party["taker"].loc
             x == BuildClaimTx(loc, Preimage, party["maker"].tries)
  <1>1. "maker" \in Parties /\ t' = t /\ btcChain' = btcChain
    BY DEF Parties, Claim
  <1>2. x.kind = "claim" /\ x.reveals = Preimage
    BY SpendsAreBuilt DEF BuildClaimTx
  <1>3. \/ Broadcast("maker", x, "ok")
        \/ Refuse("maker") /\ btcPool' = btcPool /\ seen' = seen
    BY DEF Claim
  <1> HIDE DEF x
  <1>4. CASE Broadcast("maker", x, "ok")
    BY <1>1, <1>2, <1>4, BroadcastKeeps
  <1>5. CASE Refuse("maker") /\ btcPool' = btcPool /\ seen' = seen
    BY <1>1, <1>5, RefuseKeeps
  <1> QED BY <1>3, <1>4, <1>5

LEMMA RefundKeeps == BtcInv /\ Refund => BtcInv'
  <1> SUFFICES ASSUME BtcInv, Refund PROVE BtcInv'
    OBVIOUS
  <1> DEFINE loc == party["taker"].loc
             x == BuildRefundTx(loc, t, party["taker"].tries)
  <1>1. "taker" \in Parties /\ t' = t /\ btcChain' = btcChain
    BY DEF Parties, Refund
  <1>2. x.kind = "refund" /\ x.lock = ToNSequence(t)
    BY SpendsAreBuilt DEF BuildRefundTx
  <1>3. \/ Broadcast("taker", x, "ok")
        \/ Refuse("taker") /\ btcPool' = btcPool /\ seen' = seen
    BY DEF Refund
  <1> HIDE DEF x
  <1>4. CASE Broadcast("taker", x, "ok")
    BY <1>1, <1>2, <1>4, BroadcastKeeps
  <1>5. CASE Refuse("taker") /\ btcPool' = btcPool /\ seen' = seen
    BY <1>1, <1>5, RefuseKeeps
  <1> QED BY <1>3, <1>4, <1>5

(* A reorganization returns transactions to the pool, and a refund only    *)
(* while its lock is still reached on the shorter chain.                   *)
LEMMA BtcReorgKeeps == BtcInv /\ BtcReorg => BtcInv'
  <1> SUFFICES ASSUME BtcInv, BtcReorg PROVE BtcInv'
    OBVIOUS
  <1> DEFINE n == Len(btcChain)
             back == btcChain[n].txs \cup btcPool
  <1>1. /\ n > 1 /\ btcChain' = SubSeq(btcChain, 1, n - 1)
        /\ t' = t /\ seen' = seen /\ party' = party
    BY DEF BtcReorg
  <1>2. btcPool' \subseteq back /\ \A x \in btcPool' : x.kind = "refund" => LockReached(x.lock)'
    BY DEF BtcReorg
  <1>3. n \in Nat /\ IsSeq(btcChain) /\ \A i \in 1..n : btcChain[i].time \in Int
    BY IsSeqHas DEF BtcInv, ChainOk
  <1>4. /\ IsSeq(btcChain') /\ Len(btcChain') = n - 1
        /\ \A i \in 1..(n - 1) : btcChain'[i] = btcChain[i]
    <2> DEFINE m == n - 1
    <2>1. m \in 0..Len(btcChain) /\ btcChain' = SubSeq(btcChain, 1, m)
      BY <1>1, <1>3
    <2> HIDE DEF m
    <2>2. /\ IsSeq(btcChain') /\ Len(btcChain') = m
          /\ \A i \in 1..m : btcChain'[i] = btcChain[i]
      BY <1>3, <2>1, ShortIsSeq
    <2> QED BY <2>2 DEF m
  <1>5. n \in 1..n /\ \A i \in 1..(n - 1) : i \in 1..n /\ i # n
    BY <1>1, <1>3
  <1>6. ChainOk'
    BY <1>1, <1>3, <1>4, <1>5 DEF ChainOk
  <1>7. Mined' \cup btcPool' \subseteq Mined \cup btcPool
    <2>1. Mined = UNION {btcChain[i].txs : i \in 1..n}
      BY DEF Mined
    <2>2. Mined' = UNION {btcChain'[i].txs : i \in 1..(n - 1)}
      BY <1>4 DEF Mined
    <2>3. \A x \in Mined' : x \in Mined
      BY <1>4, <1>5, <2>1, <2>2
    <2>4. \A x \in btcChain[n].txs : x \in Mined
      BY <1>5, <2>1
    <2> QED BY <1>2, <2>3, <2>4
  <1>8. TxsOk'
    <2>1. BuildPaymentTx' = BuildPaymentTx /\ ToNSequence(t)' = ToNSequence(t)
      BY <1>1 DEF BuildPaymentTx, ToNSequence
    <2> QED BY <1>1, <1>7, <2>1 DEF BtcInv, TxsOk
  <1> HIDE DEF n
  <1>9. \A i \in 1..(n - 1) : \A k \in {"fund", "refund"} :
          HasKind(btcChain', i, k) <=> HasKind(btcChain, i, k)
    BY <1>4 DEF HasKind
  <1>10. OneFunding'
    <2>1. \A i, j \in 1..(n - 1) :
            HasKind(btcChain', i, "fund") /\ HasKind(btcChain', j, "fund") => i = j
      BY <1>5, <1>9 DEF BtcInv, OneFunding, n
    <2>2. ASSUME NEW y \in btcPool', y.kind = "fund", NEW i \in 1..(n - 1),
                 HasKind(btcChain', i, "fund")
          PROVE  FALSE
      <3>1. HasKind(btcChain, i, "fund")
        BY <1>9, <2>2
      <3>2. CASE y \in btcPool
        BY <1>5, <2>2, <3>1, <3>2 DEF BtcInv, OneFunding, n
      <3>3. CASE y \in btcChain[n].txs
        <4>1. HasKind(btcChain, n, "fund")
          BY <2>2, <3>3 DEF HasKind
        <4> QED BY <1>5, <3>1, <4>1 DEF BtcInv, OneFunding, n
      <3> QED BY <1>2, <2>2, <3>2, <3>3
    <2> QED BY <1>4, <2>1, <2>2 DEF OneFunding
  <1>11. ASSUME NEW m \in 0..(n - 1), FundedAndLate(t, btcChain, m)
         PROVE  FundedAndLate(t, btcChain', m)
    <2>1. PICK i \in 1..m : HasKind(btcChain, i, "fund") /\ Late(t, btcChain, i, m)
      BY <1>11 DEF FundedAndLate
    <2>2. i \in 1..(n - 1) /\ m \in 1..(n - 1)
      BY <1>3, <2>1
    <2>3. HasKind(btcChain', i, "fund")
      BY <1>9, <2>1, <2>2
    <2>4. btcChain'[i] = btcChain[i] /\ btcChain'[m] = btcChain[m]
      BY <1>4, <2>2
    <2>5. Late(t, btcChain', i, m)
      BY <2>1, <2>4 DEF Late
    <2> QED BY <2>3, <2>5 DEF FundedAndLate
  <1>12. RefundsAreLate'
    <2>1. ASSUME NEW j \in 1..(n - 1), HasKind(btcChain', j, "refund")
          PROVE  FundedAndLate(t, btcChain', j - 1)
      <3>1. FundedAndLate(t, btcChain, j - 1)
        BY <1>5, <1>9, <2>1 DEF BtcInv, RefundsAreLate, n
      <3>2. j - 1 \in 0..(n - 1)
        BY <1>3, <2>1
      <3> QED BY <1>11, <3>1, <3>2
    <2>2. ASSUME NEW x \in btcPool', x.kind = "refund"
          PROVE  FundedAndLate(t, btcChain', Len(btcChain'))
      <3>1. x.lock = ToNSequence(t)
        BY <1>1, <1>7, <2>2 DEF BtcInv, TxsOk
      <3>2. LockReached(x.lock)'
        BY <1>2, <2>2
      <3>3. LockOn(btcChain', x.lock)
        BY <3>2 DEF LockReached, LockOn, IsMined, Mined, MinedIn, BlockOf, HasKind
      <3> QED BY <1>4, <3>1, <3>3, LockGives DEF BtcInv
    <2> QED BY <1>1, <1>4, <2>1, <2>2 DEF RefundsAreLate
  <1>13. PartiesOk'
    BY <1>1 DEF BtcInv, PartiesOk
  <1>14. (t \in Timeouts /\ TimelockOk(t))'
    BY <1>1 DEF BtcInv, TimelockOk
  <1> QED BY <1>6, <1>8, <1>10, <1>12, <1>13, <1>14 DEF BtcInv

(* Every step of the two parties and of the chain.                         *)
LEMMA BtcInvNext == BtcInv /\ [BtcNext]_btcVars => BtcInv'
  <1> SUFFICES ASSUME BtcInv, [BtcNext]_btcVars PROVE BtcInv'
    OBVIOUS
  <1>1. CASE UNCHANGED btcVars
    <2>1. PartiesOk' /\ t' = t /\ btcChain' = btcChain /\ btcPool' = btcPool /\ seen' = seen
      BY <1>1 DEF btcVars, BtcInv, PartiesOk
    <2> QED BY <2>1, PartyKeeps
  <1>2. CASE BtcNext
    BY <1>2, FundKeeps, PollKeeps, ClaimKeeps, RefundKeeps, BtcMineKeeps, BtcReorgKeeps
       DEF BtcNext
  <1> QED BY <1>1, <1>2

(* The Bitcoin leg (btc_wallet/htlc_leg.py, taproot.py): a transaction id  *)
(* that is returned is one the node took, no refund is mined before the    *)
(* agreed timeout less a unit, and every reader of a claim agrees on it,   *)
(* for any timeouts, granularity, amounts, blocks and reorganizations.     *)
THEOREM BtcLegHolds == BtcSpec => []BtcLegIsTrue
  <1>1. BtcInit => BtcInv
    BY BtcInvInit
  <1>2. BtcInv /\ [BtcNext]_btcVars => BtcInv'
    BY BtcInvNext
  <1>3. BtcInv => BtcLegIsTrue
    BY BtcInvSuffices
  <1> QED BY <1>1, <1>2, <1>3, PTL DEF BtcSpec

------------------------------------------------------------- (* signatures *)

(* A list of whatever it holds.                                            *)
IsList(s) == s \in Seq({s[k] : k \in DOMAIN s})

(* A transaction as signatures see it.                                     *)
IsTx(tx) == IsList(tx.ins) /\ IsList(tx.outs)

(* The one preimage that all of the preimage functions compute.            *)
PreimageOf(tx, i, flag) ==
  [prevouts |-> IF flag.acp THEN Zero ELSE HashPrevouts(tx),
   coin |-> tx.ins[i].coin, seq |-> tx.ins[i].seq,
   sequence |-> IF flag.acp \/ flag.base # "all" THEN Zero ELSE HashSequence(tx),
   outputs |-> IF flag.base = "all" THEN HashOutputs(tx.outs)
               ELSE IF flag.base = "single" /\ i \in DOMAIN tx.outs
                 THEN HashOutputs(<<tx.outs[i]>>)
               ELSE Zero,
   flag |-> flag]

(* An input: its flags, and a signature over what was there when it was    *)
(* made.                                                                   *)
InputStands(in, i) ==
  /\ DOMAIN in = {"coin", "value", "kind", "seq", "flag", "wants", "sig"}
  /\ in.flag \in Sighashes /\ in.wants \in Sighashes
  /\ in.sig # <<>> =>
       LET sig == in.sig[1]
       IN IsTx(sig.of) /\ i \in DOMAIN sig.of.ins /\ sig.pre = PreimageOf(sig.of, i, in.flag)

SigningInv ==
  /\ IsList(ins) /\ IsList(outs)
  /\ \A i \in DOMAIN ins : InputStands(ins[i], i)

------------------------------------------ (* a preimage and what it covers *)

LEMMA ListIsFunction ==
  ASSUME NEW s, IsList(s)
  PROVE  /\ Len(s) \in Nat /\ DOMAIN s = 1 .. Len(s)
         /\ s = [k \in DOMAIN s |-> s[k]]
BY DEF IsList

LEMMA SameList ==
  ASSUME NEW s, NEW r, IsList(s), IsList(r), DOMAIN s = DOMAIN r,
         \A k \in DOMAIN s : s[k] = r[k]
  PROVE  s = r
BY ListIsFunction

(* The outputs that a flag covers, and the parts of what it covers.        *)
CoveredOutputs(tx, i, flag) ==
  IF flag.base = "all" THEN DOMAIN tx.outs
  ELSE IF flag.base = "single" THEN DOMAIN tx.outs \cap {i} ELSE {}
OwnPart(tx, i) == {<<"own", tx.ins[i].coin, tx.ins[i].seq>>}
CoinPart(tx, flag) ==
  IF flag.acp THEN {} ELSE {<<"coin", j, tx.ins[j].coin>> : j \in DOMAIN tx.ins}
SeqPart(tx, flag) ==
  IF flag.acp \/ flag.base # "all" THEN {}
  ELSE {<<"seq", j, tx.ins[j].seq>> : j \in DOMAIN tx.ins}
OutPart(tx, i, flag) == {<<"out", k, tx.outs[k]>> : k \in CoveredOutputs(tx, i, flag)}

LEMMA CoveredParts ==
  ASSUME NEW tx, NEW i, NEW flag
  PROVE  Covered(tx, i, flag) =
           OwnPart(tx, i) \cup CoinPart(tx, flag) \cup SeqPart(tx, flag) \cup OutPart(tx, i, flag)
BY DEF Covered, CoveredOutputs, OwnPart, CoinPart, SeqPart, OutPart

(* The parts are told apart by their tags.                                 *)
LEMMA PartsAreEqual ==
  ASSUME NEW tx, NEW ux, NEW i, NEW flag, Covered(tx, i, flag) = Covered(ux, i, flag)
  PROVE  /\ OwnPart(tx, i) = OwnPart(ux, i) /\ CoinPart(tx, flag) = CoinPart(ux, flag)
         /\ SeqPart(tx, flag) = SeqPart(ux, flag) /\ OutPart(tx, i, flag) = OutPart(ux, i, flag)
<1>1. ASSUME NEW x, NEW r, NEW f
      PROVE  /\ x \in OwnPart(r, i) => x[1] = "own" /\ x \in Covered(r, i, f)
             /\ x \in CoinPart(r, f) => x[1] = "coin" /\ x \in Covered(r, i, f)
             /\ x \in SeqPart(r, f) => x[1] = "seq" /\ x \in Covered(r, i, f)
             /\ x \in OutPart(r, i, f) => x[1] = "out" /\ x \in Covered(r, i, f)
  BY CoveredParts DEF OwnPart, CoinPart, SeqPart, OutPart
<1>2. ASSUME NEW x, NEW r, NEW f, x \in Covered(r, i, f)
      PROVE  \/ x \in OwnPart(r, i) \/ x \in CoinPart(r, f) \/ x \in SeqPart(r, f)
             \/ x \in OutPart(r, i, f)
  BY <1>2, CoveredParts
<1>3. \A x : x \in OwnPart(tx, i) <=> x \in OwnPart(ux, i)
  BY <1>1, <1>2
<1>4. \A x : x \in CoinPart(tx, flag) <=> x \in CoinPart(ux, flag)
  BY <1>1, <1>2
<1>5. \A x : x \in SeqPart(tx, flag) <=> x \in SeqPart(ux, flag)
  BY <1>1, <1>2
<1>6. \A x : x \in OutPart(tx, i, flag) <=> x \in OutPart(ux, i, flag)
  BY <1>1, <1>2
<1> QED
  BY <1>3, <1>4, <1>5, <1>6

(* Tagged graphs of functions.                                             *)
Graph(tag, f) == {<<tag, j, f[j]>> : j \in DOMAIN f}

LEMMA SameGraph ==
  ASSUME NEW f, NEW g, NEW tag, Graph(tag, f) = Graph(tag, g)
  PROVE  DOMAIN f = DOMAIN g /\ \A j \in DOMAIN f : f[j] = g[j]
<1>1. ASSUME NEW j \in DOMAIN f PROVE j \in DOMAIN g /\ f[j] = g[j]
  <2>1. <<tag, j, f[j]>> \in {<<tag, k, g[k]>> : k \in DOMAIN g}
    BY DEF Graph
  <2> QED
    BY <2>1
<1>2. ASSUME NEW j \in DOMAIN g PROVE j \in DOMAIN f
  <2>1. <<tag, j, g[j]>> \in {<<tag, k, f[k]>> : k \in DOMAIN f}
    BY DEF Graph
  <2> QED
    BY <2>1
<1> QED
  BY <1>1, <1>2

(* A signature's flag covers the same of two transactions exactly if they  *)
(* have the same preimage.                                                 *)
LEMMA PreimageIsExact ==
  ASSUME NEW tx, NEW ux, NEW i \in Nat, NEW flag \in Sighashes, IsTx(tx), IsTx(ux),
         i \in DOMAIN tx.ins, i \in DOMAIN ux.ins
  PROVE  PreimageOf(tx, i, flag) = PreimageOf(ux, i, flag)
           <=> Covered(tx, i, flag) = Covered(ux, i, flag)
<1> DEFINE SameOwn == tx.ins[i].coin = ux.ins[i].coin /\ tx.ins[i].seq = ux.ins[i].seq
           SameCoins == /\ DOMAIN tx.ins = DOMAIN ux.ins
                        /\ \A j \in DOMAIN tx.ins : tx.ins[j].coin = ux.ins[j].coin
           SameSeqs == /\ DOMAIN tx.ins = DOMAIN ux.ins
                       /\ \A j \in DOMAIN tx.ins : tx.ins[j].seq = ux.ins[j].seq
           SameOuts == /\ CoveredOutputs(tx, i, flag) = CoveredOutputs(ux, i, flag)
                       /\ \A k \in CoveredOutputs(tx, i, flag) : tx.outs[k] = ux.outs[k]
           Same == /\ SameOwn /\ (~flag.acp => SameCoins)
                   /\ (~flag.acp /\ flag.base = "all" => SameSeqs) /\ SameOuts
           P(r) == IF flag.acp THEN Zero ELSE HashPrevouts(r)
           Q(r) == IF flag.acp \/ flag.base # "all" THEN Zero ELSE HashSequence(r)
           O(r) == IF flag.base = "all" THEN HashOutputs(r.outs)
                   ELSE IF flag.base = "single" /\ i \in DOMAIN r.outs
                   THEN HashOutputs(<<r.outs[i]>>) ELSE Zero
<1>1. PreimageOf(tx, i, flag) = PreimageOf(ux, i, flag)
        <=> P(tx) = P(ux) /\ SameOwn /\ Q(tx) = Q(ux) /\ O(tx) = O(ux)
  BY DEF PreimageOf
<1>2. P(tx) = P(ux) <=> (~flag.acp => SameCoins)
  <2>1. HashPrevouts(tx) = HashPrevouts(ux) <=> SameCoins
    BY DEF HashPrevouts
  <2> QED
    BY <2>1
<1>3. Q(tx) = Q(ux) <=> (~flag.acp /\ flag.base = "all" => SameSeqs)
  <2>1. HashSequence(tx) = HashSequence(ux) <=> SameSeqs
    BY DEF HashSequence
  <2> QED
    BY <2>1
<1>4. O(tx) = O(ux) <=> SameOuts
  <2>1. CASE flag.base = "all"
    <3>1. IsList(tx.outs) /\ IsList(ux.outs)
      BY DEF IsTx
    <3>2. HashOutputs(tx.outs) = HashOutputs(ux.outs) <=> tx.outs = ux.outs
      BY DEF HashOutputs
    <3>3. SameOuts <=> tx.outs = ux.outs
      BY <2>1, <3>1, SameList DEF CoveredOutputs
    <3> QED
      BY <2>1, <3>2, <3>3
  <2>2. CASE flag.base = "single"
    <3>1. O(tx) = O(ux) <=> /\ i \in DOMAIN tx.outs <=> i \in DOMAIN ux.outs
                            /\ i \in DOMAIN tx.outs => tx.outs[i] = ux.outs[i]
      BY <2>2 DEF HashOutputs, Zero
    <3>2. SameOuts <=> /\ i \in DOMAIN tx.outs <=> i \in DOMAIN ux.outs
                       /\ i \in DOMAIN tx.outs => tx.outs[i] = ux.outs[i]
      BY <2>2 DEF CoveredOutputs
    <3> QED
      BY <3>1, <3>2
  <2>3. CASE flag.base = "none"
    BY <2>3 DEF CoveredOutputs
  <2> QED
    BY <2>1, <2>2, <2>3 DEF Sighashes
<1>5. Same => Covered(tx, i, flag) = Covered(ux, i, flag)
  <2> SUFFICES ASSUME Same PROVE Covered(tx, i, flag) = Covered(ux, i, flag)
    OBVIOUS
  <2>1. OwnPart(tx, i) = OwnPart(ux, i)
    BY DEF OwnPart
  <2>2. CoinPart(tx, flag) = CoinPart(ux, flag)
    BY DEF CoinPart
  <2>3. SeqPart(tx, flag) = SeqPart(ux, flag)
    BY DEF SeqPart
  <2>4. OutPart(tx, i, flag) = OutPart(ux, i, flag)
    BY DEF OutPart
  <2> QED
    BY <2>1, <2>2, <2>3, <2>4, CoveredParts
<1>6. Covered(tx, i, flag) = Covered(ux, i, flag) => Same
  <2> SUFFICES ASSUME Covered(tx, i, flag) = Covered(ux, i, flag) PROVE Same
    OBVIOUS
  <2>1. /\ OwnPart(tx, i) = OwnPart(ux, i) /\ CoinPart(tx, flag) = CoinPart(ux, flag)
        /\ SeqPart(tx, flag) = SeqPart(ux, flag) /\ OutPart(tx, i, flag) = OutPart(ux, i, flag)
    BY PartsAreEqual
  <2>2. SameOwn
    <3>1. <<"own", tx.ins[i].coin, tx.ins[i].seq>> = <<"own", ux.ins[i].coin, ux.ins[i].seq>>
      BY <2>1 DEF OwnPart
    <3> QED
      BY <3>1
  <2>3. ASSUME ~flag.acp PROVE SameCoins
    <3> DEFINE f == [j \in DOMAIN tx.ins |-> tx.ins[j].coin]
               g == [j \in DOMAIN ux.ins |-> ux.ins[j].coin]
    <3>1. Graph("coin", f) = Graph("coin", g)
      BY <2>1, <2>3 DEF CoinPart, Graph
    <3>2. DOMAIN f = DOMAIN g /\ \A j \in DOMAIN f : f[j] = g[j]
      <4> HIDE DEF f, g
      <4> QED
        BY <3>1, SameGraph
    <3> QED
      BY <3>2
  <2>4. ASSUME ~flag.acp, flag.base = "all" PROVE SameSeqs
    <3> DEFINE f == [j \in DOMAIN tx.ins |-> tx.ins[j].seq]
               g == [j \in DOMAIN ux.ins |-> ux.ins[j].seq]
    <3>1. Graph("seq", f) = Graph("seq", g)
      BY <2>1, <2>4 DEF SeqPart, Graph
    <3>2. DOMAIN f = DOMAIN g /\ \A j \in DOMAIN f : f[j] = g[j]
      <4> HIDE DEF f, g
      <4> QED
        BY <3>1, SameGraph
    <3> QED
      BY <3>2
  <2>5. SameOuts
    <3> DEFINE f == [k \in CoveredOutputs(tx, i, flag) |-> tx.outs[k]]
               g == [k \in CoveredOutputs(ux, i, flag) |-> ux.outs[k]]
    <3>1. Graph("out", f) = Graph("out", g)
      BY <2>1 DEF OutPart, Graph
    <3>2. DOMAIN f = DOMAIN g /\ \A j \in DOMAIN f : f[j] = g[j]
      <4> HIDE DEF f, g
      <4> QED
        BY <3>1, SameGraph
    <3> QED
      BY <3>2
  <2> QED
    BY <2>2, <2>3, <2>4, <2>5
<1> QED
  BY <1>1, <1>2, <1>3, <1>4, <1>5, <1>6

------------------------------------------------- (* the preimage functions *)

LEMMA TxPreimageIs ==
  ASSUME NEW tx, IsList(tx.outs), NEW i \in Nat \ {0}, tx.ins[i].flag \in Sighashes
  PROVE  TxPreimage(tx, i) = PreimageOf(tx, i, tx.ins[i].flag)
<1> DEFINE flag == tx.ins[i].flag
<1>1. i <= Len(tx.outs) <=> i \in DOMAIN tx.outs
  BY ListIsFunction
<1>2. flag.base \in {"all", "none", "single"}
  BY DEF Sighashes
<1> QED
  BY <1>1, <1>2 DEF TxPreimage, InputPreimage, PreimageOf

LEMMA TxPreimagesAre ==
  ASSUME NEW tx, IsTx(tx), NEW i \in DOMAIN tx.ins, tx.ins[i].flag \in Sighashes
  PROVE  TxPreimages(tx)[i] = PreimageOf(tx, i, tx.ins[i].flag)
<1> DEFINE flag == tx.ins[i].flag
<1>1. i \in Nat \ {0} /\ (i <= Len(tx.outs) <=> i \in DOMAIN tx.outs)
  BY ListIsFunction DEF IsTx
<1>2. flag.base \in {"all", "none", "single"}
  BY DEF Sighashes
<1> QED
  BY <1>1, <1>2 DEF TxPreimages, InputPreimage, PreimageOf

--------------------------------------------------------------- (* the steps *)

LEMMA FunctionIsList ==
  ASSUME NEW n \in Nat, NEW f, f = [k \in 1 .. n |-> f[k]]
  PROVE  IsList(f) /\ DOMAIN f = 1 .. n
<1>1. DOMAIN f = 1 .. n
  OBVIOUS
<1>2. f \in [1 .. n -> {f[k] : k \in DOMAIN f}]
  BY <1>1
<1> QED
  BY <1>1, <1>2 DEF IsList

LEMMA AppendIsList ==
  ASSUME NEW s, IsList(s), NEW x
  PROVE  /\ IsList(Append(s, x)) /\ DOMAIN Append(s, x) = 1 .. Len(s) + 1
         /\ \A k \in DOMAIN s : Append(s, x)[k] = s[k]
         /\ Append(s, x)[Len(s) + 1] = x
<1>1. s \in Seq({s[k] : k \in DOMAIN s} \cup {x}) /\ Len(s) \in Nat
  BY DEF IsList
<1>2. /\ DOMAIN Append(s, x) = 1 .. Len(s) + 1
      /\ \A k \in DOMAIN s : Append(s, x)[k] = s[k]
      /\ Append(s, x)[Len(s) + 1] = x
  BY <1>1
<1>3. \A e \in {s[k] : k \in DOMAIN s} \cup {x} :
        \E k \in DOMAIN Append(s, x) : Append(s, x)[k] = e
  BY <1>1, <1>2
<1>4. IsList(Append(s, x))
  BY <1>1, <1>2, <1>3 DEF IsList
<1> QED
  BY <1>2, <1>4

LEMMA KeptIsList == ASSUME NEW os, IsList(os) PROVE IsList(Kept(os))
<1> DEFINE kept == {k \in DOMAIN os : ~os[k].change}
<1>1. DOMAIN os = 1 .. Len(os) /\ Len(os) \in Nat
  BY ListIsFunction
<1>2. IsFiniteSet(kept)
  <2>1. IsFiniteSet(1 .. Len(os))
    BY <1>1, FS_Interval
  <2>2. kept \subseteq 1 .. Len(os)
    BY <1>1
  <2> QED
    BY <2>1, <2>2, FS_Subset
<1>3. Cardinality(kept) \in Nat
  BY <1>2, FS_CardinalityType
<1>4. Kept(os) = [k \in 1 .. Cardinality(kept) |-> Kept(os)[k]]
  BY DEF Kept
<1> QED
  BY <1>3, <1>4, FunctionIsList

LEMMA DistributeIsList ==
  ASSUME NEW os, IsList(os), NEW change PROVE IsList(Distribute(os, change))
<1>1. DOMAIN os = 1 .. Len(os) /\ Len(os) \in Nat
  BY ListIsFunction
<1>2. Distribute(os, change) = [k \in 1 .. Len(os) |-> Distribute(os, change)[k]]
  BY <1>1 DEF Distribute
<1> QED
  BY <1>1, <1>2, FunctionIsList

(* A signature made now stands.                                            *)
LEMMA SignedInputStands ==
  ASSUME SigningInv, NEW i \in DOMAIN ins, NEW len
  PROVE  InputStands(SignInput(i, len), i)
<1> DEFINE in == IF ins[i].kind = "rpuzzle" THEN [ins[i] EXCEPT !.flag = ins[i].wants] ELSE ins[i]
           tx == [Tx EXCEPT !.ins[i] = in]
           bare == [ins |-> [j \in DOMAIN ins |-> [coin |-> ins[j].coin, seq |-> ins[j].seq]],
                    outs |-> outs]
           signed == [in EXCEPT !.sig = <<[pre |-> TxPreimage(tx, i), of |-> bare, len |-> len]>>]
<1>1. InputStands(ins[i], i)
  BY DEF SigningInv
<1>2. /\ DOMAIN in = {"coin", "value", "kind", "seq", "flag", "wants", "sig"}
      /\ in.flag \in Sighashes /\ in.wants \in Sighashes
      /\ in.coin = ins[i].coin /\ in.seq = ins[i].seq
  BY <1>1 DEF InputStands
<1>3. SignInput(i, len) = signed
  BY DEF SignInput
<1> HIDE DEF in
<1>4. tx.outs = outs /\ tx.ins = [ins EXCEPT ![i] = in]
  BY DEF Tx
<1>5. /\ DOMAIN tx.ins = DOMAIN ins /\ tx.ins[i] = in
      /\ \A j \in DOMAIN ins : tx.ins[j].coin = ins[j].coin /\ tx.ins[j].seq = ins[j].seq
  BY <1>2, <1>4
<1> HIDE DEF tx
<1>6. /\ IsList(ins) /\ IsList(outs) /\ i \in Nat \ {0}
      /\ DOMAIN ins = 1 .. Len(ins) /\ Len(ins) \in Nat
  BY ListIsFunction DEF SigningInv
<1>7. TxPreimage(tx, i) = PreimageOf(tx, i, in.flag)
  BY <1>2, <1>4, <1>5, <1>6, TxPreimageIs
<1>8. /\ bare.outs = outs /\ DOMAIN bare.ins = DOMAIN ins
      /\ \A j \in DOMAIN ins : bare.ins[j].coin = ins[j].coin /\ bare.ins[j].seq = ins[j].seq
      /\ bare.ins = [j \in 1 .. Len(ins) |-> bare.ins[j]]
  BY <1>6
<1> HIDE DEF bare
<1>9. IsTx(bare)
  BY <1>6, <1>8, FunctionIsList DEF IsTx
<1>10. HashPrevouts(bare) = HashPrevouts(tx) /\ HashSequence(bare) = HashSequence(tx)
  <2>1. DOMAIN bare.ins = DOMAIN tx.ins
    BY <1>5, <1>8
  <2>2. \A j \in DOMAIN tx.ins :
          bare.ins[j].coin = tx.ins[j].coin /\ bare.ins[j].seq = tx.ins[j].seq
    BY <1>5, <1>8
  <2> QED
    BY <2>1, <2>2 DEF HashPrevouts, HashSequence
<1>11. PreimageOf(tx, i, in.flag) = PreimageOf(bare, i, in.flag)
  BY <1>4, <1>5, <1>8, <1>10 DEF PreimageOf
<1> DEFINE sig == [pre |-> TxPreimage(tx, i), of |-> bare, len |-> len]
<1>12. sig.pre = PreimageOf(bare, i, in.flag) /\ sig.of = bare
  BY <1>7, <1>11
<1> HIDE DEF sig
<1>13. /\ DOMAIN signed = {"coin", "value", "kind", "seq", "flag", "wants", "sig"}
       /\ signed.flag = in.flag /\ signed.wants = in.wants /\ signed.sig = <<sig>>
  BY <1>2 DEF sig
<1> HIDE DEF signed
<1>14. signed.sig[1] = sig
  BY <1>13
<1>15. InputStands(signed, i)
  BY <1>2, <1>8, <1>9, <1>12, <1>13, <1>14 DEF InputStands
<1> QED
  BY <1>3, <1>15

LEMMA SigningInvNext == SigningInv /\ [SigningNext]_signingVars => SigningInv'
<1> SUFFICES ASSUME SigningInv, [SigningNext]_signingVars PROVE SigningInv'
  OBVIOUS
<1>0. /\ IsList(ins) /\ IsList(outs) /\ DOMAIN ins = 1 .. Len(ins) /\ Len(ins) \in Nat
      /\ ins = [k \in DOMAIN ins |-> ins[k]]
  BY ListIsFunction DEF SigningInv
<1>1. CASE AddInput
  <2>1. PICK v, kind, f : f \in Flags /\
          ins' = Append(ins, [coin |-> Len(ins) + 1, value |-> v, kind |-> kind, seq |-> 1,
                              flag |-> IF kind = "rpuzzle" THEN [base |-> "all", acp |-> FALSE]
                                       ELSE f,
                              wants |-> f, sig |-> <<>>])
    BY <1>1 DEF AddInput
  <2> DEFINE new == [coin |-> Len(ins) + 1, value |-> v, kind |-> kind, seq |-> 1,
                     flag |-> IF kind = "rpuzzle" THEN [base |-> "all", acp |-> FALSE] ELSE f,
                     wants |-> f, sig |-> <<>>]
  <2>2. f \in Sighashes /\ [base |-> "all", acp |-> FALSE] \in Sighashes
    BY <2>1, SigningAssumption DEF Sighashes
  <2>3. /\ DOMAIN new = {"coin", "value", "kind", "seq", "flag", "wants", "sig"}
        /\ new.flag \in Sighashes /\ new.wants \in Sighashes /\ new.sig = <<>>
    BY <2>2
  <2> HIDE DEF new
  <2>4. InputStands(new, Len(ins) + 1)
    BY <2>3 DEF InputStands
  <2>5. ins' = Append(ins, new)
    BY <2>1 DEF new
  <2>6. /\ IsList(ins') /\ DOMAIN ins' = 1 .. Len(ins) + 1
        /\ \A k \in DOMAIN ins : ins'[k] = ins[k]
        /\ ins'[Len(ins) + 1] = new
    BY <1>0, <2>5, AppendIsList
  <2>7. ASSUME NEW i \in DOMAIN ins' PROVE InputStands(ins'[i], i)
    <3>1. CASE i \in DOMAIN ins
      BY <2>6, <3>1 DEF SigningInv
    <3>2. CASE i = Len(ins) + 1
      BY <2>4, <2>6, <3>2
    <3> QED
      BY <1>0, <2>6, <3>1, <3>2
  <2>8. outs' = outs
    BY <1>1 DEF AddInput
  <2> QED
    BY <1>0, <2>6, <2>7, <2>8 DEF SigningInv
<1>2. ASSUME UNCHANGED ins, IsList(outs') PROVE SigningInv'
  BY <1>2 DEF SigningInv
<1>3. CASE AddOutput
  <2>1. UNCHANGED ins /\ \E o : outs' = Append(outs, o)
    BY <1>3 DEF AddOutput
  <2>2. IsList(outs')
    BY <1>0, <2>1, AppendIsList
  <2> QED
    BY <1>2, <2>1, <2>2
<1>4. CASE SetSequence
  <2>1. PICK n \in DOMAIN ins : ins' = [ins EXCEPT ![n].seq = 0]
    BY <1>4 DEF SetSequence
  <2> DEFINE new == [ins[n] EXCEPT !.seq = 0]
  <2>2. ins' = [ins EXCEPT ![n] = new]
    BY <2>1
  <2>3. InputStands(ins[n], n)
    BY DEF SigningInv
  <2>4. /\ DOMAIN new = {"coin", "value", "kind", "seq", "flag", "wants", "sig"}
        /\ new.flag = ins[n].flag /\ new.wants = ins[n].wants /\ new.sig = ins[n].sig
    BY <2>3 DEF InputStands
  <2> HIDE DEF new
  <2>5. InputStands(new, n)
    BY <2>3, <2>4 DEF InputStands
  <2>6. /\ ins' = [k \in 1 .. Len(ins) |-> ins'[k]]
        /\ \A k \in DOMAIN ins : ins'[k] = IF k = n THEN new ELSE ins[k]
    BY <1>0, <2>2
  <2>7. IsList(ins') /\ DOMAIN ins' = DOMAIN ins
    BY <1>0, <2>6, FunctionIsList
  <2>8. \A i \in DOMAIN ins' : InputStands(ins'[i], i)
    BY <2>5, <2>6, <2>7 DEF SigningInv
  <2>9. outs' = outs
    BY <1>4 DEF SetSequence
  <2> QED
    BY <1>0, <2>7, <2>8, <2>9 DEF SigningInv
<1>5. CASE Fee
  <2>1. UNCHANGED ins /\ (outs' = Kept(outs) \/ \E change : outs' = Distribute(outs, change))
    BY <1>5 DEF Fee
  <2> QED
    BY <1>0, <1>2, <2>1, KeptIsList, DistributeIsList
<1>6. CASE Sign
  <2>1. PICK bypass, short :
          ins' = [i \in DOMAIN ins |->
                    IF Signs(bypass, i) THEN SignInput(i, EstimatedUnlocking(ins[i].kind) - short)
                    ELSE ins[i]]
    BY <1>6 DEF Sign
  <2>2. \A i \in DOMAIN ins : InputStands(ins'[i], i)
    BY <2>1, SignedInputStands DEF SigningInv
  <2>3. ins' = [k \in 1 .. Len(ins) |-> ins'[k]]
    BY <1>0, <2>1
  <2>4. IsList(ins') /\ DOMAIN ins' = DOMAIN ins
    BY <1>0, <2>3, FunctionIsList
  <2>5. outs' = outs
    BY <1>6 DEF Sign
  <2> QED
    BY <1>0, <2>2, <2>4, <2>5 DEF SigningInv
<1>7. CASE UNCHANGED signingVars
  BY <1>7 DEF signingVars, SigningInv
<1> QED
  BY <1>1, <1>3, <1>4, <1>5, <1>6, <1>7 DEF SigningNext

(* What the inputs of a transaction hold, in whatever order it is put      *)
(* together and signed.                                                    *)
THEOREM SigningInvariant == SigningSpec => []SigningInv
<1>1. SigningInit => SigningInv
  BY DEF SigningInit, SigningInv, IsList
<1> QED
  BY <1>1, SigningInvNext, PTL DEF SigningSpec

(* SignaturesHold: for any flags, amounts, kinds and any number of inputs  *)
(* and outputs, changed in any order, a signature verifies exactly as long *)
(* as nothing that its flag covers has changed (transaction_preimage.py,   *)
(* transaction.py:119-163).                                                *)
THEOREM SignaturesCoverExactly == SigningSpec => []SignaturesHold
<1>1. SigningInv => SignaturesHold
  <2> SUFFICES ASSUME SigningInv, NEW i \in DOMAIN ins, ins[i].sig # <<>>
               PROVE  TxPreimages(Tx)[i] = ins[i].sig[1].pre
                        <=> Covered(Tx, i, ins[i].flag)
                              = Covered(ins[i].sig[1].of, i, ins[i].flag)
    BY DEF SignaturesHold
  <2> DEFINE flag == ins[i].flag
             old == ins[i].sig[1].of
  <2>1. Tx.ins = ins /\ Tx.outs = outs
    BY DEF Tx
  <2>2. IsTx(Tx)
    BY <2>1 DEF IsTx, SigningInv
  <2>3. /\ flag \in Sighashes /\ IsTx(old) /\ i \in DOMAIN old.ins
        /\ ins[i].sig[1].pre = PreimageOf(old, i, flag)
    BY DEF SigningInv, InputStands
  <2>4. i \in Nat
    BY ListIsFunction DEF SigningInv
  <2>5. TxPreimages(Tx)[i] = PreimageOf(Tx, i, flag)
    BY <2>1, <2>2, <2>3, TxPreimagesAre
  <2> HIDE DEF flag, old
  <2>6. PreimageOf(Tx, i, flag) = PreimageOf(old, i, flag)
          <=> Covered(Tx, i, flag) = Covered(old, i, flag)
    BY <2>1, <2>2, <2>3, <2>4, PreimageIsExact
  <2> QED
    BY <2>3, <2>5, <2>6 DEF flag, old
<1> QED
  BY <1>1, SigningInvariant, PTL
=============================================================================
