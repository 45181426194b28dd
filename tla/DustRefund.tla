----------------------------- MODULE DustRefund -----------------------------
(***************************************************************************)
(* scripts/watchtower_dust_run.py and presign_refund.py: a dust HTLC that  *)
(* nobody claims, refunded by a watchtower that holds no key.  setup,      *)
(* record and presign are processes of their own that only share a state   *)
(* file, a swap record and a pre-signed sidecar; the operator funds what   *)
(* setup printed, edits or restores the state file, and runs setup again.  *)
(*                                                                         *)
(* The keys of one setup are its number.  A taptree is the keys and the    *)
(* timelock in it; a signature is its signer and what it commits to.       *)
(***************************************************************************)
EXTENDS Integers, Sequences

CONSTANTS
  Sats, Tbtcs, Trxds, Fees, \* arguments of the commands
  DustLimit,                \* DUST_LIMIT
  Ceiling,                  \* the cap that plan prints at most
  MaxSetups, MaxFundings    \* bounds

VARIABLES
  refundFile, \* the state file, <<dict>> or <<>>
  copy,       \* a copy of it that the operator has
  step,       \* the command that runs: [at, st], between its writes
  printed,    \* taptrees whose address setup has printed
  utxos,      \* what was paid to such an address: [tree, sats]
  record,     \* <swap_id>.json, <<record>> or <<>>
  sidecar,    \* <swap_id>.refund.json, <<tx>> or <<>>
  cap,        \* --autonomous-refund-cap-sats of the tower; 0: not armed
  setups,
  again       \* history: setup was run more than once

refundVars == <<refundFile, copy, step, printed, utxos, record, sidecar, cap, setups, again>>

IdleCommand == [at |-> "idle", st |-> <<>>]

RefundInit ==
  /\ refundFile = <<>> /\ copy = <<>> /\ step = IdleCommand /\ printed = {} /\ utxos = <<>>
  /\ record = <<>> /\ sidecar = <<>> /\ cap = 0 /\ setups = 0 /\ again = FALSE

(* reconstruct_htlc: the taptree that a state dict stands for.             *)
ReconstructHtlc(st) == [keys |-> st.keys, tbtc |-> st.tbtc]

(* _assert_reconstructs_to_funded, against the address saved by setup.     *)
ReconstructsToFunded(st) == ReconstructHtlc(st) = st.tree

Smaller(a, b) == IF a < b THEN a ELSE b
Larger(a, b) == IF a < b THEN b ELSE a

(* The fee of a trial refund.                                              *)
TrialFee(sats) == Larger(1, Smaller(sats \div 4, 1000))

(* build_refund_tx: the output has to be positive.                         *)
BuildRefundTx(locator, tbtc, key, fee) ==
  IF locator.sats - fee > 0
  THEN <<[out |-> locator.out, tree |-> locator.tree, sats |-> locator.sats, tbtc |-> tbtc,
          signer |-> key, value |-> locator.sats - fee]>>
  ELSE <<>>

(* build_refund_from_state.                                                *)
RefundFromState(st, out, fee) ==
  BuildRefundTx([out |-> out, tree |-> ReconstructHtlc(st), sats |-> st.sats], st.tbtc, st.keys, fee)

---------------------------------------------------------------- (* setup *)

(* The arguments are checked and the state is written, here without what   *)
(* only describes it.                                                      *)
Setup(sats, tbtc, trxd, force) ==
  /\ step = IdleCommand /\ setups < MaxSetups
  /\ refundFile = <<>> \/ force
  /\ tbtc > trxd
  /\ LET keys == setups + 1
         st == [keys |-> keys, tbtc |-> tbtc, trxd |-> trxd, sats |-> sats,
                tree |-> [keys |-> keys, tbtc |-> tbtc]]
     IN refundFile' = <<st>> /\ step' = [at |-> "selftest", st |-> <<st>>]
  /\ setups' = setups + 1 /\ again' = (again \/ setups > 0)
  /\ UNCHANGED <<copy, printed, utxos, record, sidecar, cap>>

(* _self_test on what is on disk: only then is the address printed.        *)
SelfTest ==
  /\ step.at = "selftest"
  /\ LET st == refundFile[1]
         tx == RefundFromState(st, 0, TrialFee(st.sats))
     IN IF ReconstructsToFunded(st) /\ tx # <<>> /\ tx[1].value < st.sats
        THEN printed' = printed \cup {st.tree} /\ UNCHANGED refundFile
        ELSE refundFile' = <<>> /\ UNCHANGED printed
  /\ step' = IdleCommand
  /\ UNCHANGED <<copy, utxos, record, sidecar, cap, setups, again>>

-------------------------------------------------------- (* the operator *)

Fund(tree, sats) ==
  /\ tree \in printed /\ Len(utxos) < MaxFundings
  /\ utxos' = Append(utxos, [tree |-> tree, sats |-> sats])
  /\ UNCHANGED <<refundFile, copy, step, printed, record, sidecar, cap, setups, again>>

Copy ==
  /\ refundFile # <<>> /\ step = IdleCommand /\ copy' = refundFile
  /\ UNCHANGED <<refundFile, step, printed, utxos, record, sidecar, cap, setups, again>>

Restore ==
  /\ step = IdleCommand /\ copy # <<>> /\ refundFile' = copy
  /\ UNCHANGED <<copy, step, printed, utxos, record, sidecar, cap, setups, again>>

(* A hand edit, or corruption, of what the taptree is made from.           *)
Edit(st) ==
  /\ step = IdleCommand /\ refundFile # <<>> /\ refundFile' = <<st>>
  /\ UNCHANGED <<copy, step, printed, utxos, record, sidecar, cap, setups, again>>

Edits(st) ==
  {[st EXCEPT !.tbtc = b] : b \in {x \in Tbtcs : x > st.trxd}} \cup {[st EXCEPT !.keys = 0]}

(* The command is killed between two writes.                               *)
RefundCrash ==
  /\ step # IdleCommand /\ step' = IdleCommand
  /\ UNCHANGED <<refundFile, copy, printed, utxos, record, sidecar, cap, setups, again>>

------------------------------------------------- (* record, presign, plan *)

(* Mutation: the record is made without looking for drift.                 *)
RecordUnchecked(out) ==
  /\ step = IdleCommand /\ refundFile # <<>>
  /\ LET st == refundFile[1]
     IN /\ utxos[out].sats = st.sats
        /\ record' = <<[out |-> out, tree |-> ReconstructHtlc(st), sats |-> st.sats,
                        tbtc |-> st.tbtc]>>
        /\ step' = [at |-> "recorded", st |-> <<st>>]
  /\ UNCHANGED <<refundFile, copy, printed, utxos, sidecar, cap, setups, again>>

(* record, with the outpoint and the amount as the operator sees them on   *)
(* the chain.                                                              *)
Record(out) ==
  /\ step = IdleCommand /\ refundFile # <<>>
  /\ LET st == refundFile[1]
     IN /\ utxos[out].sats = st.sats /\ ReconstructsToFunded(st)
        /\ RefundFromState(st, out, TrialFee(st.sats)) # <<>>
        /\ record' = <<[out |-> out, tree |-> ReconstructHtlc(st), sats |-> st.sats,
                        tbtc |-> st.tbtc]>>
        /\ step' = [at |-> "recorded", st |-> <<st>>]
  /\ UNCHANGED <<refundFile, copy, printed, utxos, sidecar, cap, setups, again>>

(* presign_refund on the record's locator, with the key of the state.      *)
PresignRefund(fee) ==
  LET r == record[1]
      tx == BuildRefundTx(r, r.tbtc, refundFile[1].keys, fee)
  IN IF tx # <<>> /\ tx[1].value < r.sats THEN tx ELSE <<>>

(* Mutation: presign without looking for drift.                            *)
PresignUnchecked(fee) ==
  /\ step = IdleCommand /\ refundFile # <<>> /\ record # <<>>
  /\ refundFile[1].sats - fee >= DustLimit
  /\ PresignRefund(fee) # <<>> /\ sidecar' = PresignRefund(fee)
  /\ step' = [at |-> "presigned", st |-> refundFile]
  /\ UNCHANGED <<refundFile, copy, printed, utxos, record, cap, setups, again>>

Presign(fee) ==
  /\ step = IdleCommand /\ refundFile # <<>> /\ record # <<>>
  /\ ReconstructsToFunded(refundFile[1])
  /\ refundFile[1].sats - fee >= DustLimit
  /\ PresignRefund(fee) # <<>> /\ sidecar' = PresignRefund(fee)
  /\ step' = [at |-> "presigned", st |-> refundFile]
  /\ UNCHANGED <<refundFile, copy, printed, utxos, record, cap, setups, again>>

(* The last write of record and presign.                                   *)
SaveState ==
  /\ step.at \in {"recorded", "presigned"}
  /\ refundFile' = step.st /\ step' = IdleCommand
  /\ UNCHANGED <<copy, printed, utxos, record, sidecar, cap, setups, again>>

(* The tower is started as plan says.                                      *)
Plan ==
  /\ step = IdleCommand /\ refundFile # <<>>
  /\ cap' = Smaller(refundFile[1].sats + 1, Ceiling)
  /\ UNCHANGED <<refundFile, copy, step, printed, utxos, record, sidecar, setups, again>>

RefundNext ==
  \/ \E s \in Sats, b \in Tbtcs, r \in Trxds, force \in BOOLEAN : Setup(s, b, r, force)
  \/ SelfTest \/ Copy \/ Restore \/ RefundCrash \/ SaveState \/ Plan
  \/ \E tree \in printed, s \in Sats : Fund(tree, s)
  \/ refundFile # <<>> /\ \E st \in Edits(refundFile[1]) : Edit(st)
  \/ \E out \in DOMAIN utxos : Record(out)
  \/ \E fee \in Fees : Presign(fee)

RefundSpec == RefundInit /\ [][RefundNext]_refundVars

----------------------------------------------------------- (* properties *)

(* RefundExecutor._authorize once the refund is due: the sidecar against   *)
(* the record and the cap.                                                 *)
Authorized ==
  /\ record # <<>> /\ sidecar # <<>>
  /\ sidecar[1].out = record[1].out /\ sidecar[1].tbtc = record[1].tbtc
  /\ sidecar[1].value \in 1 .. Smaller(cap, record[1].sats - 1)

(* External: what the network says of the refund once it is mature.        *)
Accepted(tx) ==
  /\ tx.tree = utxos[tx.out].tree /\ tx.sats = utxos[tx.out].sats
  /\ tx.signer = tx.tree.keys /\ tx.tbtc = tx.tree.tbtc
  /\ tx.value >= DustLimit

(* What the tower is authorized to send, the network takes: through        *)
(* crashes between writes, edits, a restored copy and a second funding,  *)
(* as long as setup is run once.                                           *)
AuthorizedIsAccepted == ~again /\ Authorized => Accepted(sidecar[1])

(* A printed address can be refunded from the state file on disk or in a   *)
(* copy, or the file on disk is refused by record and presign.             *)
PrintedIsRefundable ==
  ~again => \A tree \in printed :
    /\ refundFile # <<>>
    /\ ReconstructsToFunded(refundFile[1]) => ReconstructHtlc(refundFile[1]) = tree

(* watchtower_dust_run.py:346: "a drifted state can never sign a refund    *)
(* the real UTXO will reject".  The state of another setup is a state      *)
(* without drift: presign signs the old record with the new key.           *)
NothingRejectedIsSigned == Authorized => Accepted(sidecar[1])

(* watchtower_dust_run.py:13: "An unspendable HTLC can no longer be        *)
(* funded".  The self-test lets an amount pass that no fee leaves above    *)
(* dust, so that presign always refuses.                                   *)
FundedIsPresignable ==
  \A tree \in printed : refundFile # <<>> /\ refundFile[1].tree = tree =>
    \E fee \in 1 .. refundFile[1].sats : refundFile[1].sats - fee >= DustLimit
=============================================================================
