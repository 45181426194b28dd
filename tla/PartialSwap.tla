---------------------------- MODULE PartialSwap ----------------------------
(***************************************************************************)
(* Swaps on one chain by a half-signed transaction (swap/partial.py,       *)
(* types.py, resolve.py).  A maker signs one input and one output, output  *)
(* 0, SINGLE|ANYONECANPAY; any taker adds inputs and outputs, signs ALL    *)
(* and sends it.  Offers are never withdrawn: only spending the coin ends  *)
(* them, and several offers of one coin, and several answers to one offer, *)
(* may be about at the same time.                                          *)
(***************************************************************************)
EXTENDS Integers, Sequences, FiniteSets, SequencesExt, FiniteSetsExt

CONSTANTS
  Start,         \* the coins at first: coin -> [owner, asset]
  Receives,      \* what a maker may ask: assets
  FeeChoices,
  Dust,          \* _DUST_PHOTONS
  MaxOffers, MaxTxs

VARIABLES
  coins,         \* the unspent outputs: <<transaction, index>> -> [owner, asset]
  offers,        \* SwapOffers made
  ready,         \* complete transactions a taker has signed, not sent yet
  done           \* swaps confirmed, in order

vars == <<coins, offers, ready, done>>

NoRef == 0
Parties == {Start[c].owner : c \in DOMAIN Start}

(* Asset: one photon of a token output is one unit of the token.           *)
Rxd(n) == [kind |-> "rxd", amount |-> n, ref |-> NoRef]
Ft(n, ref) == [kind |-> "ft", amount |-> n, ref |-> ref]
AssetOk(asset) == asset.amount > 0 /\ (asset.kind = "ft" <=> asset.ref # NoRef)

(* _build_asset_output, and _asset_of on the other side: an output says    *)
(* who owns it and what it holds.                                          *)
AssetOutput(asset, pkh) == [owner |-> pkh, asset |-> asset]
AssetOf(out) == out.asset

Total(outs) == FoldSeq(LAMBDA o, n : o.asset.amount + n, 0, outs)
Units(outs, ref) == Total(SelectSeq(outs, LAMBDA o : o.asset.ref = ref))
Refs(outs) == {outs[i].asset.ref : i \in DOMAIN outs} \ {NoRef}

(* The prevouts of a transaction, as they were when it was made.           *)
Prevouts(tx) == [i \in DOMAIN tx.ins |-> tx.prev[i]]

(* create_offer: the maker gives a coin it owns for the asset it asks.     *)
CreateOffer(c, receive) ==
  /\ Cardinality(offers) < MaxOffers /\ AssetOk(receive)
  /\ offers' = offers \cup
       {[give |-> c, prev |-> coins[c], out |-> AssetOutput(receive, coins[c].owner),
         terms |-> [give |-> AssetOf(coins[c]), receive |-> receive]]}
  /\ UNCHANGED <<coins, ready, done>>

(* _verify_owner_signature, for the two kinds of signature: the maker's    *)
(* fixes its own input and the output of the same index, nothing else.     *)
MakerSignatureHolds(offer, tx) ==
  /\ tx.ins[1] = offer.give /\ tx.prev[1] = offer.prev
  /\ Len(tx.outs) >= 1 /\ tx.outs[1] = offer.out

(* Mutation: token units over are not given back.                          *)
BalanceWithoutTokenChange(prev, outs, pkh, fee) ==
  LET change == Total(prev) - Total(outs) - fee
      lack == \E ref \in Refs(outs) : Units(prev, ref) < Units(outs, ref)
  IN  [ok |-> ~lack /\ change >= 0,
       outs |-> outs \o (IF change >= Dust THEN <<AssetOutput(Rxd(change), pkh)>> ELSE <<>>)]

(* _balance_and_add_change: per token what goes in comes out, the surplus  *)
(* to the taker; then plain change, when it is not dust.                   *)
BalanceAndAddChange(prev, outs, pkh, fee) ==
  LET refs == Refs(prev) \cup Refs(outs)
      surplus(ref) == Units(prev, ref) - Units(outs, ref)
      token == [i \in 1..Cardinality({r \in refs : surplus(r) > 0}) |->
                  LET ref == SetToSeq({r \in refs : surplus(r) > 0})[i]
                  IN  AssetOutput(Ft(surplus(ref), ref), pkh)]
      change == Total(prev) - Total(outs) - Total(token) - fee
  IN  [ok |-> fee >= 0 /\ (\A ref \in refs : surplus(ref) >= 0) /\ change >= 0,
       outs |-> outs \o token
                \o (IF change >= Dust THEN <<AssetOutput(Rxd(change), pkh)>> ELSE <<>>)]

(* accept_offer: the taker checks the terms against the coin and the       *)
(* signed output, adds what it receives, its funding and its change, and   *)
(* signs.  fetch_funding_input reads each of its coins from the chain; the *)
(* maker's coin travels in the offer and is not asked of the chain.        *)
AcceptOffer(taker, offer, funding, fee) ==
  LET ins == <<offer.give>> \o SetToSeq(funding)
      prev == <<offer.prev>> \o [i \in 1..Cardinality(funding) |-> coins[SetToSeq(funding)[i]]]
      outs == <<offer.out, AssetOutput(AssetOf(offer.prev), taker)>>
      b == BalanceAndAddChange(prev, outs, taker, fee)
      tx == [ins |-> ins, prev |-> prev, outs |-> b.outs]
  IN  /\ funding # {} /\ Cardinality(ready) < MaxTxs
      /\ AssetOf(offer.prev) = offer.terms.give
      /\ AssetOf(offer.out) = offer.terms.receive
      /\ b.ok /\ MakerSignatureHolds(offer, tx)
      /\ ready' = ready \cup {[tx |-> tx, taker |-> taker, offer |-> offer, fee |-> fee]}
      /\ UNCHANGED <<coins, offers, done>>

(* The node: every input unspent and as it was, value not made, and token  *)
(* units of every ref on the outputs no more than on the inputs.           *)
NodeAccepts(tx) ==
  /\ \A i \in DOMAIN tx.ins : tx.ins[i] \in DOMAIN coins /\ coins[tx.ins[i]] = tx.prev[i]
  /\ IsInjective(tx.ins)
  /\ Total(tx.outs) =< Total(tx.prev)
  /\ \A ref \in Refs(tx.outs) : Units(tx.outs, ref) =< Units(tx.prev, ref)

Apply(ins, outs) ==
  LET id == Len(done) + 1
      new == {<<id, i>> : i \in DOMAIN outs}
      kept == DOMAIN coins \ Range(ins)
  IN  coins' = [c \in kept \cup new |-> IF c \in new THEN outs[c[2]] ELSE coins[c]]

(* The taker sends what it signed, now or long after.                      *)
Send(r) ==
  /\ ready' = ready \ {r} /\ UNCHANGED offers
  /\ IF NodeAccepts(r.tx) /\ Len(done) < MaxTxs
       THEN /\ Apply(r.tx.ins, r.tx.outs)
            /\ done' = Append(done, [maker |-> r.offer.prev.owner, taker |-> r.taker,
                                     terms |-> r.offer.terms, fee |-> r.fee])
       ELSE UNCHANGED <<coins, done>>

(* The owner moves a coin to itself: how a maker ends an offer.            *)
Withdraw(c) ==
  /\ Len(done) < MaxTxs
  /\ \E offer \in offers : offer.give = c
  /\ Apply(<<c>>, <<coins[c]>>)
  /\ done' = Append(done, [maker |-> coins[c].owner, taker |-> coins[c].owner,
                           terms |-> [give |-> AssetOf(coins[c]), receive |-> AssetOf(coins[c])],
                           fee |-> 0])
  /\ UNCHANGED <<offers, ready>>

Init == coins = Start /\ offers = {} /\ ready = {} /\ done = <<>>

Next ==
  \/ \E c \in DOMAIN coins, receive \in Receives : CreateOffer(c, receive)
  \/ \E offer \in offers, taker \in Parties, fee \in FeeChoices :
       /\ taker # offer.prev.owner
       /\ \E funding \in SUBSET {c \in DOMAIN coins : coins[c].owner = taker} :
            AcceptOffer(taker, offer, funding, fee)
  \/ \E r \in ready : Send(r)
  \/ \E c \in DOMAIN coins : Withdraw(c)

Spec == Init /\ [][Next]_vars

----------------------------------------------------------- (* properties *)

Holding(who, ref, at) ==
  LET mine == {c \in DOMAIN at : at[c].owner = who /\ at[c].asset.ref = ref}
  IN  FoldSet(LAMBDA c, n : at[c].asset.amount + n, 0, mine)

Of(asset, ref) == IF asset.ref = ref THEN asset.amount ELSE 0

(* What a party should hold after the swaps that were done, fees aside.    *)
Agreed(who, ref) ==
  Holding(who, ref, Start)
    + FoldSeq(LAMBDA s, n :
        n + (IF s.maker = who THEN Of(s.terms.receive, ref) - Of(s.terms.give, ref) ELSE 0)
          + (IF s.taker = who THEN Of(s.terms.give, ref) - Of(s.terms.receive, ref) ELSE 0),
        0, done)

FeesPaid(who) ==
  FoldSeq(LAMBDA s, n : n + (IF s.taker = who THEN s.fee + Dust - 1 ELSE 0), 0, done)

(* Whatever offers, answers and withdrawals cross: of every token each     *)
(* party holds exactly what the confirmed swaps' terms leave it, and of    *)
(* plain photons a taker is short of that by at most the fee it named and  *)
(* change too small to make, a maker by nothing (create_offer,             *)
(* accept_offer, _balance_and_add_change).                                 *)
TermsAreKept ==
  \A who \in Parties :
    /\ \A ref \in UNION {Refs(<<Start[c]>>) : c \in DOMAIN Start} :
         Holding(who, ref, coins) = Agreed(who, ref)
    /\ Agreed(who, NoRef) - FeesPaid(who) =< Holding(who, NoRef, coins)
    /\ Holding(who, NoRef, coins) =< Agreed(who, NoRef)

=============================================================================
