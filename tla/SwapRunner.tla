----------------------------- MODULE SwapRunner -----------------------------
(***************************************************************************)
(* The single-operator runners of scripts/: dust_swap_run.py (BTC),        *)
(* eth_swap_run.py (ETH, for RXD or an NFT or FT minted on the way),       *)
(* eth_swap_grief_run.py (the maker stalls) and dust_swap_resume.py, which *)
(* picks a crashed BTC run up from its keys file.  The coordinator's steps *)
(* are one action each; a crash can come between any two.                  *)
(*                                                                         *)
(* Time is the Radiant height; a deadline is rounded to whole blocks.      *)
(***************************************************************************)
EXTENDS ClaimFinality, Sequences, SequencesExt

CONSTANTS
  Kinds,          \* subset of {"dust", "eth", "nft", "ft", "grief"}
  RunPolicy,      \* the MarginPolicy of the run, but for its measured margin
  RunTRxd,        \* --t-rxd-blocks
  Observed,       \* times of the Bitcoin blocks a run may be shown, as sequences
  TailPercentile, \* --btc-tail-percentile
  EthTimeout,     \* height at which the counter HTLC's refund opens
  DeadlineArgs,   \* values of --resume-deadline-s; None: not given
  CommitPhotons, FeePhotons, Carrier, \* amounts of an NFT mint and lock
  FloorS,         \* floor_s of validated_resume_deadline_s
  MaxDepth,       \* bound on the depth of the maker's claim that is counted
  RunMaxHeight,   \* bound on the Radiant height outside the claim loop
  RunMaxCrashes   \* bound on crashes

VARIABLES
  run,     \* the process: kind, program counter, and what it holds in memory
  disk,    \* the keys file and the durable seen store
  mint,    \* the asset of an nft or ft run: none, commit, reveal, locked
  counter, \* the counter-chain HTLC
  rcov,    \* the Radiant covenant
  rheight, rcrashes

runnerVars == <<run, disk, mint, counter, rcov, rheight, rcrashes>>

Interval == RunPolicy.rxd_block_interval_s
Infinite == -2   \* float("inf")

IdleRun(kind) ==
  [kind |-> kind, pc |-> "start", lockedAt |-> None, confs |-> None, raced |-> 0,
   deadline |-> None, waited |-> 0, tBtc |-> None]

RunnerInit ==
  /\ run \in {IdleRun(k) : k \in Kinds}
  /\ disk = [keys |-> FALSE, seen |-> FALSE, tBtc |-> None]
  /\ mint = "none"
  /\ counter = [state |-> "none", depth |-> 0, tBtc |-> None]
  /\ rcov = [at |-> None, spent |-> "none"]
  /\ rheight = 1 /\ rcrashes = 0

RunAt(pc) == run.pc = pc
Goto(pc) == run' = [run EXCEPT !.pc = pc]
MintedRun == run.kind \in {"nft", "ft"}
Confs == IF rcov.at = None \/ rcov.at > rheight THEN 0 ELSE rheight - rcov.at + 1

(* A refused confirmation, a failed read or a raised error ends the run at *)
(* any prompt or await.                                                    *)
Exit ==
  /\ run.pc \notin {"start", "done", "exit", "down"}
  /\ Goto("exit")
  /\ UNCHANGED <<disk, mint, counter, rcov, rheight, rcrashes>>

-------------------------------------------------- (* the measured margin *)

(* The gaps between the blocks, shortest first; the times may come in any  *)
(* order.                                                                  *)
Gaps(times) ==
  LET ordered == SortSeq(times, LAMBDA a, b : a < b)
      gaps == [i \in 1 .. Len(ordered) - 1 |-> MaxOf(0, ordered[i + 1] - ordered[i])]
  IN  SortSeq(gaps, LAMBDA a, b : a < b)

(* MarginPolicy.measured: the policy with what was measured in it.         *)
Measured(margin, interval) ==
  [RunPolicy EXCEPT !.margin = Blocks(margin), !.block_interval_s = interval]

(* measure_margin_from_btc_block_times: the gap at the tail, by nearest    *)
(* rank, in blocks of the median gap.                                      *)
MeasureMargin(times) ==
  LET gaps == Gaps(times)
      median == gaps[Len(gaps) \div 2 + 1]
      interval == IF median > 0 THEN median ELSE 600
      tail == gaps[MaxOf(1, CeilDiv(TailPercentile * Len(gaps), 100))]
  IN  Measured(MaxOf(1, CeilDiv(tail, interval)), interval)

(* measured_margin_from_mainnet, refused on too few blocks.                *)
Measurable(times) == Len(times) >= 3 /\ TailPercentile \in 50 .. 99
MarginBlocks(p) == NormalizeToBlocks(p.margin, p.block_interval_s)
TBtc(times) == RunTRxd + MarginBlocks(MeasureMargin(times)) + 4

----------------------------------------------------- (* the forward run *)

(* The flags, the networks and the margin are checked; an ETH run refuses  *)
(* to start over a keys file, the others find it when they write theirs.   *)
StartDust(times) ==
  /\ RunAt("start") /\ run.kind = "dust"
  /\ IF Measurable(times)
       THEN run' = [run EXCEPT !.pc = "keys", !.tBtc = TBtc(times)]
       ELSE Goto("exit")
  /\ UNCHANGED <<disk, mint, counter, rcov, rheight, rcrashes>>

StartEth ==
  /\ RunAt("start") /\ run.kind \in {"eth", "nft", "ft"}
  /\ Goto(IF disk.keys THEN "exit" ELSE IF MintedRun THEN "mint" ELSE "keys")
  /\ UNCHANGED <<disk, mint, counter, rcov, rheight, rcrashes>>

StartGrief ==
  /\ RunAt("start") /\ run.kind = "grief" /\ Goto("keys")
  /\ UNCHANGED <<disk, mint, counter, rcov, rheight, rcrashes>>

(* mint_nft_inline: the commit has to pay for the reveal and the lock.     *)
MintNftCommit ==
  /\ RunAt("mint") /\ run.kind = "nft" /\ mint = "none"
  /\ IF CommitPhotons <= 2 * FeePhotons THEN Goto("exit") /\ UNCHANGED mint
     ELSE mint' = "commit" /\ UNCHANGED run
  /\ UNCHANGED <<disk, counter, rcov, rheight, rcrashes>>

(* ... and once it is confirmed, the reveal makes the singleton.           *)
MintNftReveal ==
  /\ RunAt("mint") /\ run.kind = "nft" /\ mint = "commit" /\ mint' = "reveal" /\ Goto("keys")
  /\ UNCHANGED <<disk, counter, rcov, rheight, rcrashes>>

MintFtCommit ==
  /\ RunAt("mint") /\ run.kind = "ft" /\ mint = "none" /\ mint' = "commit"
  /\ UNCHANGED <<run, disk, counter, rcov, rheight, rcrashes>>

MintFtReveal ==
  /\ RunAt("mint") /\ run.kind = "ft" /\ mint = "commit" /\ mint' = "reveal" /\ Goto("keys")
  /\ UNCHANGED <<disk, counter, rcov, rheight, rcrashes>>

(* A later run names the reveal of an earlier one and holds its key.       *)
LoadMintedNft ==
  /\ RunAt("mint") /\ run.kind = "nft" /\ mint = "reveal" /\ Goto("keys")
  /\ UNCHANGED <<disk, mint, counter, rcov, rheight, rcrashes>>

LoadMintedFt ==
  /\ RunAt("mint") /\ run.kind = "ft" /\ mint = "reveal" /\ Goto("keys")
  /\ UNCHANGED <<disk, mint, counter, rcov, rheight, rcrashes>>

(* Mutation: the keys file waits for the first lock.                       *)
LateWriteKeys(next) ==
  /\ RunAt("keys") /\ Goto(next)
  /\ UNCHANGED <<disk, mint, counter, rcov, rheight, rcrashes>>

(* atomic_write_mode_600: O_EXCL, fsync.                                   *)
WriteKeys(next) ==
  /\ RunAt("keys")
  /\ IF disk.keys THEN Goto("exit") /\ UNCHANGED disk
     ELSE Goto(next) /\ disk' = [disk EXCEPT !.keys = TRUE, !.tBtc = run.tBtc]
  /\ UNCHANGED <<mint, counter, rcov, rheight, rcrashes>>

(* All a later process needs, before an address is printed (a dry run ends *)
(* here, by Exit).                                                         *)
WriteKeysDust == run.kind = "dust" /\ WriteKeys("fund")
WriteKeysEth ==
  run.kind \in {"eth", "nft", "ft"} /\ WriteKeys(IF MintedRun THEN "mature" ELSE "fund")
WriteKeysGrief == run.kind = "grief" /\ WriteKeys("fund")

(* wait_genesis_mature: polls until the commit is deep enough.             *)
WaitGenesisMature ==
  /\ RunAt("mature") /\ Goto("fund")
  /\ UNCHANGED <<disk, mint, counter, rcov, rheight, rcrashes>>

(* A confirmed UTXO that covers the amount and the fee is looked up and    *)
(* taker_funds_btc checks the margin, reserves H, then funds the HTLC.     *)
FundDust ==
  /\ RunAt("fund") /\ run.kind = "dust" /\ ~disk.seen /\ counter.state = "none"
  /\ LET margin == run.tBtc - RunTRxd - 4
     IN  TimelockMarginOK(Blocks(run.tBtc), Blocks(RunTRxd), Measured(margin, Interval))
  /\ disk' = [disk EXCEPT !.seen = TRUE]
  /\ counter' = [counter EXCEPT !.state = "locked", !.tBtc = run.tBtc] /\ Goto("height")
  /\ UNCHANGED <<mint, rcov, rheight, rcrashes>>

FundEth ==
  /\ RunAt("fund") /\ run.kind \in {"eth", "nft", "ft"} /\ ~disk.seen /\ counter.state = "none"
  /\ disk' = [disk EXCEPT !.seen = TRUE]
  /\ counter' = [counter EXCEPT !.state = "locked"] /\ Goto("verify")
  /\ UNCHANGED <<mint, rcov, rheight, rcrashes>>

(* The grief run keeps its seen store in memory (InMemSeen) and asks for   *)
(* no lock height.                                                         *)
FundGrief ==
  /\ RunAt("fund") /\ run.kind = "grief" /\ counter.state = "none"
  /\ counter' = [counter EXCEPT !.state = "locked"] /\ Goto("lock")
  /\ UNCHANGED <<disk, mint, rcov, rheight, rcrashes>>

(* maker_verify_counter_funding.                                           *)
Verify ==
  /\ RunAt("verify") /\ counter.state = "locked" /\ Goto("height")
  /\ UNCHANGED <<disk, mint, counter, rcov, rheight, rcrashes>>

(* rxd_locked_at = getblockcount, before the asset is locked.              *)
ReadLockHeight ==
  /\ RunAt("height") /\ run' = [run EXCEPT !.pc = "lock", !.lockedAt = rheight]
  /\ UNCHANGED <<disk, mint, counter, rcov, rheight, rcrashes>>

Locked ==
  /\ rcov.at = None /\ rheight < RunMaxHeight /\ rheight' = rheight + 1
  /\ rcov' = [rcov EXCEPT !.at = rheight + 1] /\ Goto("revalidate")

(* lock_singleton_into_covenant; the carrier pays its own fee.             *)
LockSingleton ==
  /\ RunAt("lock") /\ run.kind = "nft" /\ mint = "reveal"
  /\ IF Carrier > 0 /\ Carrier <= CommitPhotons - 2 * FeePhotons
     THEN Locked /\ mint' = "locked"
     ELSE Goto("exit") /\ UNCHANGED <<mint, rcov, rheight>>
  /\ UNCHANGED <<disk, counter, rcrashes>>

(* lock_ft_into_covenant: the units are the photons, so another input pays.*)
LockFt ==
  /\ RunAt("lock") /\ run.kind = "ft" /\ mint = "reveal" /\ Locked /\ mint' = "locked"
  /\ UNCHANGED <<disk, counter, rcrashes>>

(* The operator pays the covenant and says that it confirmed.              *)
LockRxd ==
  /\ RunAt("lock") /\ ~MintedRun /\ Locked
  /\ UNCHANGED <<disk, mint, counter, rcrashes>>

(* post_asset_lock_revalidate: BOTH_LOCKED, or the run ends.               *)
Revalidate(next) ==
  /\ RunAt("revalidate") /\ Confs >= 1 /\ rcov.spent = "none" /\ Goto(next)
  /\ UNCHANGED <<disk, mint, counter, rcov, rheight, rcrashes>>

RevalidateDust == run.kind = "dust" /\ Revalidate("claim")
RevalidateEth == run.kind \in {"eth", "nft", "ft"} /\ Revalidate("claim")
RevalidateGrief == run.kind = "grief" /\ Revalidate("refund")

(* Mutation: the operator's value is taken as it is.                       *)
UncheckedDeadline(arg) ==
  IF arg = None THEN (RunTRxd * Interval) \div 2 ELSE arg

(* validated_resume_deadline_s; the floor wins over the cap, and None is a *)
(* SystemExit.                                                             *)
ValidatedDeadline(arg) ==
  LET bound == MaxOf((RunTRxd * Interval) \div 2, FloorS)
  IN  IF arg # None /\ (arg = Infinite \/ arg <= 0) THEN None
      ELSE IF arg = None \/ arg > bound THEN bound ELSE arg

(* maker_claims_btc, captured; p is public from here on.  A resumed run    *)
(* sends the same bytes again and "already known" is a success.            *)
MakerClaims(s) ==
  /\ RunAt("claim") /\ counter.state \in {"locked", "claimed"}
  /\ counter' = IF counter.state = "locked" THEN [counter EXCEPT !.state = "claimed"]
                ELSE counter
  /\ run' = IF s = None THEN [run EXCEPT !.pc = "exit"]
            ELSE [run EXCEPT !.pc = "wait", !.waited = 0,
                             !.deadline = IF s = Infinite THEN s ELSE CeilDiv(s, Interval)]
  /\ UNCHANGED <<disk, mint, rcov, rheight, rcrashes>>

MakerClaimsDust(arg) == run.kind = "dust" /\ MakerClaims(ValidatedDeadline(arg))

(* The ETH runner takes --resume-deadline-s as it is; its parser has a     *)
(* default.                                                                *)
MakerClaimsEth(arg) == run.kind # "dust" /\ arg # None /\ MakerClaims(arg)

---------------------------------------------------- (* the claim loop *)

RunnerGate ==
  AssessClaimFinality(
    IF run.kind = "dust" THEN FromBtcDepth(counter.depth, VerdictDepth(RunPolicy))
    ELSE FromEthCheckpoint(counter.depth >= MaxDepth),
    rheight, run.lockedAt, Blocks(RunTRxd), RunPolicy, None)

InTime == run.deadline = Infinite \/ run.waited < run.deadline

(* The claim is not seen confirmed yet, or the gate says WAIT.             *)
PollAgain ==
  /\ RunAt("wait") /\ InTime /\ (run.kind = "dust" \/ RunnerGate = "WAIT")
  /\ UNCHANGED runnerVars

ClaimsOrLoses ==
  /\ IF rcov.spent = "none" THEN rcov' = [rcov EXCEPT !.spent = "taker"] /\ Goto("done")
     ELSE Goto("exit") /\ UNCHANGED rcov
  /\ UNCHANGED <<disk, mint, counter, rheight, rcrashes>>

(* taker_scrape_and_claim_asset: SAFE claims, SQUEEZED records that the    *)
(* asset is vulnerable and asks the operator.                              *)
TakerClaims ==
  /\ RunAt("wait") /\ InTime /\ (run.kind = "dust" => counter.depth >= 1)
  /\ \/ RunnerGate = "SAFE" /\ ClaimsOrLoses
     \/ /\ RunnerGate = "SQUEEZED" /\ Goto("vulnerable")
        /\ UNCHANGED <<disk, mint, counter, rcov, rheight, rcrashes>>

(* taker_claim_asset_from_vulnerable, once the operator has agreed.        *)
VulnerableEth == RunAt("vulnerable") /\ run.kind # "dust" /\ ClaimsOrLoses
VulnerableDust == RunAt("vulnerable") /\ run.kind = "dust" /\ ClaimsOrLoses

DeadlineExceeded ==
  /\ RunAt("wait") /\ ~InTime /\ Goto("exit")
  /\ UNCHANGED <<disk, mint, counter, rcov, rheight, rcrashes>>

(* The grief run: mutual_refund once both timeouts have passed.            *)
MutualRefund ==
  /\ RunAt("refund") /\ rheight >= EthTimeout /\ rheight >= rcov.at + RunTRxd
  /\ counter.state = "locked" /\ rcov.spent = "none"
  /\ counter' = [counter EXCEPT !.state = "refunded"]
  /\ rcov' = [rcov EXCEPT !.spent = "maker"] /\ Goto("done")
  /\ UNCHANGED <<disk, mint, rheight, rcrashes>>

------------------------------------------------------------- (* resume *)

ResumeWith(tBtc, found) ==
  /\ RunAt("down") /\ run.kind = "dust" /\ disk.keys
  /\ run' = [IdleRun("dust") EXCEPT !.tBtc = tBtc, !.pc = IF found THEN "confs" ELSE "exit"]
  /\ UNCHANGED <<disk, mint, counter, rcov, rheight, rcrashes>>

(* Mutation: t_btc is derived again, from the blocks of now.               *)
ResumeRemeasured(times) ==
  Measurable(times) /\ ResumeWith(TBtc(times), counter.state \in {"locked", "claimed"})

(* The keys file is read, the terms, covenant and HTLC are rebuilt from it *)
(* and must match, and the funding output must be on chain with the HTLC's *)
(* script.  The margin is measured again, for the report.                  *)
Resume(times) ==
  /\ Measurable(times)
  /\ ResumeWith(disk.tBtc, counter.state \in {"locked", "claimed"} /\ counter.tBtc = disk.tBtc)

(* find_covenant_utxo: the covenant must be unspent and confirmed.         *)
ResumeReadConfs ==
  /\ RunAt("confs")
  /\ run' = IF Confs >= 1 /\ rcov.spent = "none"
            THEN [run EXCEPT !.pc = "tip", !.confs = Confs]
            ELSE [run EXCEPT !.pc = "exit"]
  /\ UNCHANGED <<disk, mint, counter, rcov, rheight, rcrashes>>

(* Mutation: the tip is taken for the height of the lock.                  *)
ResumeAtTip ==
  /\ RunAt("tip") /\ run' = [run EXCEPT !.pc = "revalidate", !.lockedAt = rheight]
  /\ UNCHANGED <<disk, mint, counter, rcov, rheight, rcrashes>>

(* ... and, by another call, the tip.                                      *)
ResumeReadTip ==
  /\ RunAt("tip")
  /\ run' = [run EXCEPT !.pc = "revalidate", !.lockedAt = rheight - run.confs + 1]
  /\ UNCHANGED <<disk, mint, counter, rcov, rheight, rcrashes>>

-------------------------------------------------------- (* environment *)

RunnerBlock ==
  /\ IF RunAt("wait") THEN run.waited < run.deadline \/ rheight < rcov.at + RunTRxd
     ELSE rheight < RunMaxHeight
  /\ rheight' = rheight + 1
  /\ run' = [run EXCEPT !.waited = IF RunAt("wait") THEN @ + 1 ELSE @,
                        !.raced = IF RunAt("tip") THEN @ + 1 ELSE @]
  /\ UNCHANGED <<disk, mint, counter, rcov, rcrashes>>

CounterBlock ==
  /\ counter.state = "claimed" /\ counter.depth < MaxDepth
  /\ counter' = [counter EXCEPT !.depth = @ + 1]
  /\ UNCHANGED <<run, disk, mint, rcov, rheight, rcrashes>>

(* The operator as maker takes the covenant back once its CSV has matured. *)
MakerRefunds ==
  /\ rcov.at # None /\ rcov.spent = "none" /\ rheight >= rcov.at + RunTRxd
  /\ run.pc \in {"wait", "vulnerable", "exit", "down"}
  /\ rcov' = [rcov EXCEPT !.spent = "maker"]
  /\ UNCHANGED <<run, disk, mint, counter, rheight, rcrashes>>

RunnerCrash ==
  /\ run.pc \notin {"done", "exit", "down"} /\ rcrashes < RunMaxCrashes
  /\ rcrashes' = rcrashes + 1 /\ Goto("down")
  /\ UNCHANGED <<disk, mint, counter, rcov, rheight>>

Rerun ==
  /\ RunAt("down") /\ run' = IdleRun(run.kind)
  /\ UNCHANGED <<disk, mint, counter, rcov, rheight, rcrashes>>

Operator ==
  \/ \E times \in Observed : StartDust(times) \/ Resume(times)
  \/ StartEth \/ StartGrief
  \/ MintNftCommit \/ MintNftReveal \/ MintFtCommit \/ MintFtReveal
  \/ LoadMintedNft \/ LoadMintedFt \/ WriteKeysDust \/ WriteKeysEth \/ WriteKeysGrief
  \/ WaitGenesisMature \/ FundDust \/ FundEth \/ FundGrief \/ Verify \/ ReadLockHeight
  \/ LockSingleton \/ LockFt \/ LockRxd
  \/ RevalidateDust \/ RevalidateEth \/ RevalidateGrief
  \/ \E arg \in DeadlineArgs : MakerClaimsDust(arg) \/ MakerClaimsEth(arg)
  \/ TakerClaims \/ VulnerableEth \/ VulnerableDust \/ DeadlineExceeded \/ MutualRefund
  \/ ResumeReadConfs \/ ResumeReadTip

RunnerNext ==
  \/ Operator \/ PollAgain \/ Exit \/ RunnerCrash \/ Rerun
  \/ RunnerBlock \/ CounterBlock \/ MakerRefunds

RunnerSpec == RunnerInit /\ [][RunnerNext]_runnerVars

(* Blocks keep coming and the loop turns.  A Bitcoin source may never show *)
(* the claim; the ETH runner asks the gate in every turn.                  *)
FairRunnerSpec ==
  /\ RunnerSpec /\ WF_runnerVars(RunnerBlock) /\ WF_runnerVars(DeadlineExceeded)
  /\ WF_runnerVars(run.kind # "dust" /\ TakerClaims)
-----------------------------------------------------------------------------
(* Whatever is locked under keys of the run, the keys file that recovers   *)
(* it (p, both parties' keys, the covenant) is on disk, at every point at  *)
(* which the process can die (dust_swap_run.py 178-205, eth_swap_run.py    *)
(* 360-390).                                                               *)
KeysBeforeValue ==
  counter.state # "none" \/ rcov.at # None => disk.keys

(* A resumed run works on the HTLC that was funded: its refund delay is    *)
(* the one that was pinned when the keys file was written, however slow    *)
(* the blocks have been since, and whatever margin they would give now     *)
(* (dust_swap_resume.py 105-120, measured_margin_from_mainnet).            *)
ResumesItsHtlc ==
  run.kind = "dust" /\ run.pc \in {"confs", "tip", "revalidate", "claim", "wait", "vulnerable"} =>
    run.tBtc = counter.tBtc

(* The height the reorg gate counts from is never later than the block of  *)
(* the covenant, but for the blocks that came between the two reads of a   *)
(* resumed run (dust_swap_run.py 312, dust_swap_resume.py 234-239).        *)
GateClockBehindLock ==
  RunAt("wait") => run.lockedAt <= rcov.at + run.raced

(* The claim loop ends, even if the claim is never seen: a BTC run's       *)
(* deadline is finite whatever the operator asks for                       *)
(* (_dust_swap_shared.py 161-200), and an ETH run's gate cannot say WAIT   *)
(* for ever while blocks come (eth_swap_run.py 534-570).                   *)
WaitEnds == RunAt("wait") ~> ~RunAt("wait")
-----------------------------------------------------------------------------
(* A statement of the scripts that these definitions refute.               *)

(* dust_swap_run.py: "so the deadline always sits INSIDE the refund        *)
(* window": the loop gives up before the maker's refund opens.             *)
DeadlineInsideWindow ==
  RunAt("wait") /\ ~InTime => rheight < rcov.at + RunTRxd
=============================================================================
