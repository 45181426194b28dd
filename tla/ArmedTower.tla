---------------------------- MODULE ArmedTower ----------------------------
(***************************************************************************)
(* The watchtower with its executors armed (gravity/watch/executor.py and  *)
(* claim_executor.py) on one BTC-RXD swap: each tick reads the record and  *)
(* the chains through sources that lag or fail, decides, and may broadcast *)
(* the taker's pre-signed BTC refund or the covenant claim, whose fee      *)
(* comes from a CappedFeeWalletSource.  Every await is a step; the chains, *)
(* the maker, the taker's own coordinator and a crash move in between.     *)
(*                                                                         *)
(* A claim in the mempool is named by the fee input that pays for it; the  *)
(* taker's own claim, paid from elsewhere, is Own.                         *)
(***************************************************************************)
EXTENDS WatchDecide, Sequences

CONSTANTS
  Policy,      \* the MarginPolicy the tower and its executor share
  Window,      \* safety_window_blocks
  TRxd, TBtc,  \* block counts of the two CSV timelocks
  Sources,     \* the Radiant sources of the quorum
  Quorum,
  MaxLag,      \* bound: how far behind a source can be
  FirstLock, LastBlock, \* bounds of the Radiant heights
  MaxFunding,  \* bound on the BTC funding depth counted
  FeePool,     \* values of the pre-funded fee inputs
  Cap,         \* total_cap_photons
  Wirings,     \* how the operator wired the executors
  MaxCrashes

ASSUME PoolAssumption ==
  /\ FeePool \in Seq(Nat \ {0}) /\ FeePool # <<>>
  /\ Cap \in Nat \ {0}
  /\ Quorum \in 1 .. Cardinality(Sources)
  /\ PolicyOK(Policy)

ASSUME TowerAssumption ==
  /\ Policy \in MarginPolicies
  /\ TRxd \in Nat /\ MaxLag \in Nat /\ FirstLock \in Nat \ {0}

VARIABLES
  wiring,   \* chosen once
  height, lockedAt, spentAt, spentBy,  \* the Radiant chain and the covenant
  flight,   \* the covenant claim in the mempool, or None
  btc,      \* the BTC funding output: spender, its depth, funding depth
  refunding,\* the tower's refund is in the BTC mempool
  rec,      \* the record on disk: state, and whether it holds the outpoint
  tower,    \* program counter and what the tick has read so far
  seen,     \* the in-process SeenStore
  pool,     \* the fee source's cursor and dispensed photons
  feesSpent,\* fee inputs that a confirmed transaction spent
  shot,     \* history: the chains when the last claim was judged SAFE
  recarves, \* history: fee inputs dispensed while an earlier claim flew
  lost,     \* history: a claim was sent and its answer lost
  crashes

chain == <<height, lockedAt, spentAt, spentBy, flight, btc, refunding, feesSpent>>
vars == <<wiring, chain, rec, tower, seen, pool, shot, recarves, lost, crashes>>

Own == Len(FeePool) + 1
Maker == 0
Depth == VerdictDepth(Policy)
Burial == RequiredBurial(Policy, Policy.value_at_risk_photons)

Idle == [pc |-> "idle", state |-> "none", tip |-> None, asset |-> None, dec |-> "none", funded |-> None]
NoShot == [left |-> None, depth |-> None, behind |-> None]

Init ==
  /\ wiring \in Wirings
  /\ height = FirstLock - 1 /\ lockedAt = None /\ spentAt = None /\ spentBy = None
  /\ flight = None /\ feesSpent = {} /\ refunding = FALSE
  /\ btc = [spender |-> "none", depth |-> 0, funding |-> 1]
  /\ rec = [state |-> "BTC_LOCKED", outpoint |-> FALSE]
  /\ tower = Idle /\ seen = FALSE /\ pool = [cursor |-> 0, dispensed |-> 0]
  /\ shot = NoShot /\ recarves = 0 /\ lost = FALSE /\ crashes = 0

Terms == [chain |-> "btc", tBtc |-> Blocks(TBtc), tRxd |-> Blocks(TRxd),
          value |-> wiring.amount]

(* What a source behind by lag sees of the covenant.                       *)
SpentSeen(lag) == spentAt # None /\ height - lag >= spentAt
UnspentSeen(lag) == SourceConfs(lag, height, lockedAt) # None /\ ~SpentSeen(lag)

Lags == [Sources -> 0 .. MaxLag \cup {Unreachable}]

------------------------------------------------------- (* observe, decide *)

(* list_active reads the record, once for the tick; then the tip and the   *)
(* covenant's depth.  A read that raises ends in a page and no execution.  *)
ObserveRxd(lags) ==
  /\ tower.pc = "idle" /\ ~IsTerminal(rec.state)
  /\ LET tip == QuorumTip(lags, height, Quorum)
         cov == QuorumCovenantConfs(lags, height, lockedAt, Quorum)
     IN  /\ tip # None /\ (rec.outpoint => cov.ok)
         /\ tower' = [tower EXCEPT !.pc = "observed", !.state = rec.state, !.tip = tip,
              !.asset = IF rec.outpoint THEN AssetLockedAt(tip, cov.confs) ELSE None]
  /\ UNCHANGED <<wiring, chain, rec, seen, pool, shot, recarves, lost, crashes>>

(* claim_status says claimed of every spend of the funding output, the     *)
(* taker's refund included; the funding's depth is read in two states.     *)
Observed ==
  [claimed |-> btc.spender # "none", finality |-> "none",
   claimConfs |-> IF btc.spender # "none" THEN btc.depth ELSE None,
   fundingConfs |-> IF tower.state \in {"BTC_LOCKED", "PARAMS_MISMATCH"}
                    THEN btc.funding ELSE None,
   lockedAt |-> tower.asset, now |-> tower.tip]

(* Only the two autonomous decisions reach an executor that acts.          *)
ObserveBtcAndDecide ==
  /\ tower.pc = "observed"
  /\ LET d == Decide(tower.state, Terms, Observed, Policy, Window)
     IN  tower' = CASE d.autoRefund -> [Idle EXCEPT !.pc = "execute", !.dec = "refund"]
                    [] d.autoClaim  -> [Idle EXCEPT !.pc = "execute", !.dec = "claim"]
                    [] OTHER        -> Idle
  /\ UNCHANGED <<wiring, chain, rec, seen, pool, shot, recarves, lost, crashes>>

(* A read raises or times out, or an executor declines or fails: the tick  *)
(* of this swap is over and the alerter pages.                             *)
EndTick == tower' = Idle

ReadFails ==
  /\ tower.pc \notin {"idle", "down", "mark"}
  /\ EndTick
  /\ UNCHANGED <<wiring, chain, rec, seen, pool, shot, recarves, lost, crashes>>

---------------------------------------------------- (* RefundExecutor *)

(* _authorize after the discriminator: armed, corroborated, and a blob     *)
(* that spends this funding output with the CSV of t_btc to the pinned     *)
(* address, below the cap and the funded amount.                           *)
RefundAuthorized ==
  /\ wiring.refundArmed
  /\ Quorum >= 2 \/ wiring.acceptSingle
  /\ wiring.blob = "valid"

BroadcastRefund ==
  /\ tower.pc = "execute" /\ tower.dec = "refund"
  /\ EndTick
  /\ IF RefundAuthorized /\ btc.spender = "none" /\ btc.funding >= TBtc
     THEN refunding' = TRUE
     ELSE UNCHANGED refunding
  /\ UNCHANGED <<wiring, height, lockedAt, spentAt, spentBy, flight, btc, feesSpent, rec,
                 seen, pool, shot, recarves, lost, crashes>>

----------------------------------------------------- (* ClaimExecutor *)

(* _check_value_cap: TRUE iff it returns no reason to decline.             *)
ValueCapOK(w) ==
  LET burial == NormalizeToBlocks(Policy.rxd_claim_burial, Policy.block_interval_s)
  IN  /\ ~(w.valueBearing /\ w.amount # None /\ w.amount > w.dustCeiling)
      /\ \/ ~w.valueBearing \/ w.acceptUnbounded
         \/ /\ w.amount # None /\ w.reorgCost # None
            /\ w.amount <= MaxProtectedValue(burial, w.reorgCost, w.safetyFactor)

(* Steps 1 to 5: the typed discriminator, the arming, the corroboration    *)
(* and value gates, a fresh claim_status, and p scraped from bytes that    *)
(* spend this swap's funding output; a refund's bytes hold no p.           *)
CheckClaim ==
  /\ tower.pc = "execute" /\ tower.dec = "claim"
  /\ IF /\ wiring.claimArmed /\ (Quorum >= 2 \/ wiring.acceptSingle)
        /\ ValueCapOK(wiring) /\ btc.spender = "claim"
     THEN tower' = [tower EXCEPT !.pc = "covenant"]
     ELSE EndTick
  /\ UNCHANGED <<wiring, chain, rec, seen, pool, shot, recarves, lost, crashes>>

(* Mutation: no mempool-aware re-check.                                    *)
MempoolBlindCovenant(lag) ==
  /\ tower.pc = "covenant"
  /\ IF UnspentSeen(lag) /\ ~(wiring.seenWired /\ seen)
     THEN tower' = [tower EXCEPT !.pc = "depths", !.funded = lockedAt]
     ELSE EndTick
  /\ UNCHANGED <<wiring, chain, rec, seen, pool, shot, recarves, lost, crashes>>

(* Steps 6 and 7: the covenant as the executor's own node scans it (the    *)
(* scan does not see the mempool), the mempool-aware re-check where the    *)
(* client has one, and the fire-once SeenStore where one is wired.         *)
CheckCovenant(lag) ==
  /\ tower.pc = "covenant"
  /\ IF /\ UnspentSeen(lag)
        /\ ~(wiring.mempoolAware /\ (flight # None \/ spentAt # None))
        /\ ~(wiring.seenWired /\ seen)
     THEN tower' = [tower EXCEPT !.pc = "depths", !.funded = lockedAt]
     ELSE EndTick
  /\ UNCHANGED <<wiring, chain, rec, seen, pool, shot, recarves, lost, crashes>>

(* The fresh depth reads, the quorum's depth taken if it is deeper, and    *)
(* the gate once more; no value is passed to it.                           *)
Reassess(lag, lags) ==
  /\ tower.pc = "depths"
  /\ LET node   == MaxOf(SourceConfs(lag, height, lockedAt), 0)
         quorum == QuorumCovenantConfs(lags, height, lockedAt, Quorum)
         confs  == IF wiring.corroborate THEN MaxOf(node, quorum.confs) ELSE node
         gate   == AssessClaimFinality(FromBtcDepth(btc.depth, Depth),
                     tower.funded + MaxOf(confs, 1) - 1, tower.funded, Blocks(TRxd),
                     Policy, None)
     IN  IF (wiring.corroborate => quorum.ok /\ quorum.confs # None) /\ gate = "SAFE"
         THEN /\ tower' = [tower EXCEPT !.pc = "send"]
              /\ shot' = [left |-> lockedAt + TRxd - height, depth |-> btc.depth,
                          behind |-> IF wiring.corroborate
                            THEN SetMin({lags[s] : s \in Reachable(lags)} \cup {lag})
                            ELSE lag]
         ELSE EndTick /\ UNCHANGED shot
  /\ UNCHANGED <<wiring, chain, rec, seen, pool, recarves, lost, crashes>>

(* next_fee_input: the cursor moves before the transaction exists.         *)
NextFee == pool.cursor + 1

(* Mutation: the cap is tested after the photons are gone.                 *)
LateCapFeeAvailable == pool.cursor < Len(FeePool) /\ pool.dispensed <= Cap

FeeAvailable ==
  /\ pool.cursor < Len(FeePool)
  /\ pool.dispensed + FeePool[NextFee] <= Cap

Dispense ==
  /\ pool' = [cursor |-> NextFee, dispensed |-> pool.dispensed + FeePool[NextFee]]
  /\ recarves' = IF flight \in 1 .. Len(FeePool) THEN recarves + 1 ELSE recarves

(* What a node does with the claim paid by fee input n.                    *)
Accepts(n) == flight = None /\ spentAt = None /\ n \notin feesSpent

(* leg.claim_asset: the covenant is looked up again, a fee input is taken, *)
(* and the claim is sent; answer is "ok", "lost" (sent, and it raises) or  *)
(* "error".  A raise leaves the covenant unmarked.                         *)
ClaimAsset(lag, answer) ==
  /\ tower.pc = "send"
  /\ IF ~UnspentSeen(lag) \/ ~FeeAvailable
     THEN EndTick /\ UNCHANGED <<flight, pool, recarves, lost>>
     ELSE /\ Dispense
          /\ lost' = (lost \/ (Accepts(NextFee) /\ answer = "lost"))
          /\ IF Accepts(NextFee) /\ answer # "error"
             THEN flight' = NextFee
             ELSE UNCHANGED flight
          /\ tower' = IF Accepts(NextFee) /\ answer = "ok"
                      THEN [tower EXCEPT !.pc = "mark"] ELSE Idle
  /\ UNCHANGED <<wiring, height, lockedAt, spentAt, spentBy, btc, refunding, feesSpent,
                 rec, seen, shot, crashes>>

(* mark_seen, only after a broadcast that answered.                        *)
MarkSeen ==
  /\ tower.pc = "mark" /\ EndTick
  /\ seen' = wiring.seenWired
  /\ UNCHANGED <<wiring, chain, rec, pool, shot, recarves, lost, crashes>>

----------------------------------------------------- (* environment *)

(* A Radiant block: it may hold the covenant, the claim in the mempool, or *)
(* the maker's refund once its CSV has matured.                            *)
RxdBlock(what) ==
  /\ height < LastBlock /\ height' = height + 1
  /\ CASE what = "empty" -> UNCHANGED <<lockedAt, spentAt, spentBy, flight, feesSpent>>
       [] what = "lock" ->
            /\ lockedAt = None /\ btc.spender = "none" /\ lockedAt' = height'
            /\ UNCHANGED <<spentAt, spentBy, flight, feesSpent>>
       [] what = "claim" ->
            /\ flight # None /\ spentAt' = height' /\ spentBy' = flight /\ flight' = None
            /\ feesSpent' = feesSpent \cup {flight}
            /\ UNCHANGED lockedAt
       [] what = "refund" ->
            /\ lockedAt # None /\ spentAt = None /\ height' - lockedAt >= TRxd
            /\ spentAt' = height' /\ spentBy' = Maker /\ flight' = None
            /\ UNCHANGED <<lockedAt, feesSpent>>
  /\ UNCHANGED <<wiring, btc, refunding, rec, tower, seen, pool, shot, recarves, lost, crashes>>

(* A claim drops out of the mempool.                                       *)
Evict ==
  /\ flight # None /\ flight' = None
  /\ UNCHANGED <<wiring, height, lockedAt, spentAt, spentBy, btc, refunding, feesSpent,
                 rec, tower, seen, pool, shot, recarves, lost, crashes>>

(* The maker claims the BTC once the asset is locked; its claim replaces a *)
(* refund that is not mined yet.                                           *)
MakerClaims ==
  /\ lockedAt # None /\ btc.spender = "none"
  /\ btc' = [btc EXCEPT !.spender = "claim", !.depth = 0] /\ refunding' = FALSE
  /\ UNCHANGED <<wiring, height, lockedAt, spentAt, spentBy, flight, feesSpent, rec,
                 tower, seen, pool, shot, recarves, lost, crashes>>

BtcBlock ==
  /\ btc.depth < Depth \/ btc.funding < MaxFunding
  /\ btc' = IF refunding /\ btc.spender = "none" /\ btc.funding >= TBtc
            THEN [spender |-> "refund", depth |-> 1, funding |-> btc.funding]
            ELSE [btc EXCEPT
                    !.depth = IF btc.spender # "none" /\ @ < Depth THEN @ + 1 ELSE @,
                    !.funding = IF @ < MaxFunding THEN @ + 1 ELSE @]
  /\ refunding' = (refunding /\ btc'.spender = "none")
  /\ UNCHANGED <<wiring, height, lockedAt, spentAt, spentBy, flight, feesSpent, rec,
                 tower, seen, pool, shot, recarves, lost, crashes>>

(* A reorg shallower than the policy's depth undoes the maker's claim.     *)
BtcReorg ==
  /\ btc.spender = "claim" /\ btc.depth < Depth
  /\ btc' = [btc EXCEPT !.spender = "none", !.depth = 0]
  /\ UNCHANGED <<wiring, height, lockedAt, spentAt, spentBy, flight, refunding, feesSpent,
                 rec, tower, seen, pool, shot, recarves, lost, crashes>>

(* The taker's coordinator writes the record after the chains moved.       *)
CoordinatorWrites(to) ==
  /\ to \in AllowedTargets(rec.state)
  /\ CASE to = "BOTH_LOCKED"      -> lockedAt # None
       [] to = "SECRET_REVEALED"  -> btc.spender = "claim"
       [] to = "ASSET_VULNERABLE" -> TRUE
       [] to = "PARAMS_MISMATCH"  -> lockedAt = None
       [] to = "COMPLETED"        -> spentAt # None /\ spentBy # Maker
       [] to \in {"ABORTED", "MUTUAL_REFUND"} -> btc.spender = "refund"
       [] to = "ONE_SIDED_LOSS_TAKER" -> spentBy = Maker
       [] OTHER -> FALSE
  /\ rec' = [state |-> to, outpoint |-> rec.outpoint \/ to = "BOTH_LOCKED"]
  /\ UNCHANGED <<wiring, chain, tower, seen, pool, shot, recarves, lost, crashes>>

(* ... and sends the claim itself.                                         *)
CoordinatorClaims ==
  /\ rec.state \in {"SECRET_REVEALED", "ASSET_VULNERABLE"} /\ btc.spender = "claim"
  /\ flight = None /\ spentAt = None /\ lockedAt # None /\ flight' = Own
  /\ UNCHANGED <<wiring, height, lockedAt, spentAt, spentBy, btc, refunding, feesSpent,
                 rec, tower, seen, pool, shot, recarves, lost, crashes>>

(* The process dies: the SeenStore and the fee source's cursor with it.    *)
Crash ==
  /\ tower.pc # "down" /\ crashes < MaxCrashes /\ crashes' = crashes + 1
  /\ tower' = [Idle EXCEPT !.pc = "down"]
  /\ seen' = FALSE /\ pool' = [cursor |-> 0, dispensed |-> 0]
  /\ UNCHANGED <<wiring, chain, rec, shot, recarves, lost>>

Restart ==
  /\ tower.pc = "down" /\ tower' = Idle
  /\ UNCHANGED <<wiring, chain, rec, seen, pool, shot, recarves, lost, crashes>>

TowerStep ==
  \/ \E lags \in Lags : ObserveRxd(lags)
  \/ ObserveBtcAndDecide \/ ReadFails \/ BroadcastRefund \/ CheckClaim \/ MarkSeen
  \/ \E lag \in 0 .. MaxLag : CheckCovenant(lag)
  \/ \E lag \in 0 .. MaxLag, lags \in Lags : Reassess(lag, lags)
  \/ \E lag \in 0 .. MaxLag, answer \in {"ok", "lost", "error"} : ClaimAsset(lag, answer)

Next ==
  \/ TowerStep
  \/ \E what \in {"empty", "lock", "claim", "refund"} : RxdBlock(what)
  \/ Evict \/ MakerClaims \/ BtcBlock \/ BtcReorg
  \/ \E to \in SwapStates : CoordinatorWrites(to)
  \/ CoordinatorClaims \/ Crash \/ Restart

Spec == Init /\ [][Next]_vars
-----------------------------------------------------------------------------
TypeOK ==
  /\ height \in FirstLock - 1 .. LastBlock
  /\ lockedAt \in {None} \cup FirstLock .. LastBlock
  /\ flight \in {None} \cup 1 .. Own
  /\ rec \in [state : SwapStates, outpoint : BOOLEAN]
  /\ tower.pc \in {"idle", "observed", "execute", "covenant", "depths", "send", "mark",
                   "down"}
  /\ pool.cursor \in 0 .. Len(FeePool) /\ pool.dispensed <= Cap

(* Whatever the lag of the sources and whatever happened since the tick    *)
(* opened, a claim is sent only after a moment at which the maker's claim  *)
(* was buried to the policy's depth and, as far as the freshest of the     *)
(* sources that answered could tell, the claim could still be buried       *)
(* before the maker's refund opens (claim_executor.py steps 7 and 8).      *)
AutoClaimHadRoom ==
  shot # NoShot => shot.depth >= Depth /\ shot.left + shot.behind >= Burial

(* With the mempool-aware re-check, or with a SeenStore while no process   *)
(* died and no answer was lost, no fee input is carved for a covenant that *)
(* a claim of the tower already spends (claim_executor.py 360-388).        *)
NoRecarve ==
  wiring.mempoolAware \/ (wiring.seenWired /\ ~lost /\ crashes = 0) => recarves = 0

(* In the life of one process the fee source gives out no more than its    *)
(* cap, over all the ticks and retries (a restart counts from zero over    *)
(* the same pool), and nothing of it for a claim that is already out       *)
(* (capped_fee_source.py 191-214).                                         *)
FeesAreContained == pool.dispensed <= Cap /\ NoRecarve
-----------------------------------------------------------------------------
(* A statement of the code that these definitions refute.                  *)

(* claim_executor.py: "a crash here costs at most ONE re-carve, not        *)
(* per-tick".                                                              *)
CrashCostsOneCarve == wiring.seenWired /\ ~lost => recarves <= crashes
=============================================================================
