------------------------------ MODULE HdWallet ------------------------------
(***************************************************************************)
(* hd/wallet.py, wallet.py, hd/discovery.py and the watch-only side of the *)
(* agent: gap-limit discovery of addresses, the addresses handed out for   *)
(* receiving and for change, the wallet file, coin selection and fees.     *)
(* The wallet is driven by an application or a CLI command; payers pay to  *)
(* every address they were ever given.  A record that is not used is read  *)
(* as a missing one everywhere, so a wallet keeps the used ones.  Byte     *)
(* sizes are scaled.                                                       *)
(***************************************************************************)
EXTENDS Integers, FiniteSets, FiniteSetsExt

CONSTANTS
  Gap,            \* _GAP_LIMIT
  PayValues,      \* values of incoming payments
  SendAmounts,    \* amounts the user sends
  InBytes,        \* size of a signed P2PKH input, long signature
  OutBytes,       \* size of a P2PKH output
  Overhead,       \* size of the rest of a transaction
  SendDust,       \* DUST_THRESHOLD
  MaxPayments     \* bound on payments and sends

ASSUME WalletSizes ==
  /\ Gap \in Nat \ {0} /\ PayValues \subseteq Nat /\ SendAmounts \subseteq Nat
  /\ InBytes \in Nat /\ OutBytes \in Nat /\ Overhead \in Nat /\ SendDust \in Nat

VARIABLES
  unspent,    \* unspent outputs of the wallet: <<chain, index, value>>
  history,    \* per chain, the indexes that get_history knows
  handed,     \* addresses given to payers: <<chain, index>>
  mem,        \* the HdWallet in memory, or NoWallet
  savedFile,  \* the wallet file, or NoWallet
  scan,       \* a refresh or a watch-only scan between two queries
  gathered,   \* collect_spendable's or the watch-only scan's coins
  built,      \* the built transaction
  payments    \* payments so far

walletVars ==
  <<unspent, history, handed, mem, savedFile, scan, gathered, built, payments>>

HdChains == {0, 1}
NoWallet == [none |-> TRUE]
EmptyWallet == [recs |-> [c \in HdChains |-> {}], tip |-> [c \in HdChains |-> 0]]
ScanOf(mode, c) == [mode |-> mode, chain |-> c, index |-> 0, unused |-> 0]
NoScan == ScanOf("off", 0)
FoundBy(by, S) == [coins |-> S, change |-> 0, by |-> by, since |-> 0]
NothingFound == FoundBy("none", {})
NotBuilt == [ins |-> {}, pay |-> 0, back |-> 0, at |-> <<1, 0>>, fee |-> 0,
             selectedAll |-> TRUE, error |-> "none"]

WalletInit ==
  /\ unspent = {} /\ history = [c \in HdChains |-> {}] /\ handed = {}
  /\ mem = NoWallet /\ savedFile = NoWallet /\ scan = NoScan /\ gathered = NothingFound
  /\ built = NotBuilt /\ payments = 0

-------------------------------------------------- (* files and processes *)

SameChain == UNCHANGED <<unspent, history, payments>>

(* wallet new: refuses to overwrite a file, saves, then shows an address.  *)
WalletNew ==
  /\ mem = NoWallet /\ savedFile = NoWallet
  /\ savedFile' = EmptyWallet /\ mem' = EmptyWallet /\ handed' = handed \cup {<<0, 0>>}
  /\ UNCHANGED <<scan, gathered, built>> /\ SameChain

(* _load_existing: the records and tips that were saved; a file that does  *)
(* not decrypt or parse raises.                                            *)
LoadExisting == [recs |-> savedFile.recs, tip |-> savedFile.tip]

(* load: a missing file raises and never makes an empty wallet.            *)
LoadWallet ==
  /\ mem = NoWallet /\ savedFile # NoWallet /\ mem' = LoadExisting
  /\ UNCHANGED <<handed, savedFile, scan, gathered, built>> /\ SameChain

(* from_mnemonic: a restore knows no address (sweep, recover).             *)
FromMnemonic ==
  /\ mem = NoWallet /\ mem' = EmptyWallet
  /\ UNCHANGED <<handed, savedFile, scan, gathered, built>> /\ SameChain

(* The wallet in memory belongs to an application, not to wallet recover.  *)
Driven == mem # NoWallet /\ gathered.by \notin {"recover", "report"}

(* save: one atomic replace, whatever another process saved meanwhile.     *)
SaveWallet ==
  /\ Driven /\ scan.mode = "off" /\ savedFile' = mem
  /\ UNCHANGED <<handed, mem, scan, gathered, built>> /\ SameChain

(* The process ends, or a query or a prompt raises: what was in memory and *)
(* not saved is lost, and so is a transaction that was not broadcast.      *)
ExitWallet ==
  /\ mem # NoWallet \/ scan.mode # "off" \/ built # NotBuilt
  /\ mem' = NoWallet /\ scan' = NoScan /\ gathered' = NothingFound /\ built' = NotBuilt
  /\ UNCHANGED <<handed, savedFile>> /\ SameChain

----------------------------------------------------------- (* addresses *)

(* The first index below the tip plus the gap without a used record; the   *)
(* one after them if a scan that broke off left all of them used.          *)
FirstUnused(w, c) ==
  LET free == {i \in 0 .. w.tip[c] + Gap - 1 : i \notin w.recs[c]}
  IN  IF free # {} THEN Min(free) ELSE w.tip[c] + Gap

(* The address is derived and recorded as not used, whatever its record    *)
(* said if it is the one after them.                                       *)
HandOut(c, i) ==
  /\ Driven
  /\ mem' = [mem EXCEPT !.recs[c] = @ \ {i}] /\ handed' = handed \cup {<<c, i>>}
  /\ UNCHANGED <<savedFile, scan, gathered, built>> /\ SameChain

(* Mutation: each call hands out an index that was not handed out.         *)
NextFreshAddress ==
  HandOut(0, Max({-1} \cup {a[2] : a \in {h \in handed : h[1] = 0}}) + 1)

NextReceiveAddress == HandOut(0, FirstUnused(mem, 0))

(* address --change shows an internal one.                                 *)
NextInternalAddress == HandOut(1, FirstUnused(mem, 1))

(* External: a payer pays to an address it was given.                      *)
PayTo(a, v) ==
  /\ payments < MaxPayments /\ <<a[1], a[2], v>> \notin unspent
  /\ unspent' = unspent \cup {<<a[1], a[2], v>>}
  /\ history' = [history EXCEPT ![a[1]] = @ \cup {a[2]}]
  /\ payments' = payments + 1
  /\ UNCHANGED <<handed, mem, savedFile, scan, gathered, built>>

------------------------------------------------------------ (* discovery *)

(* refresh: both chains, _scan_chain one history query at a time.          *)
Refresh ==
  /\ Driven /\ scan.mode = "off" /\ scan' = ScanOf("refresh", 0)
  /\ UNCHANGED <<handed, mem, savedFile, gathered, built>> /\ SameChain

LastUsed(w, c) == Max({-1} \cup w.recs[c])

AfterQuery(isUsed) == [scan EXCEPT !.index = @ + 1, !.unused = IF isUsed THEN 0 ELSE @ + 1]

ScanChain ==
  /\ scan.mode = "refresh" /\ scan.unused < Gap
  /\ LET isUsed == scan.index \in history[scan.chain] IN
       /\ scan' = AfterQuery(isUsed)
       /\ mem' = [mem EXCEPT !.recs[scan.chain] =
                    IF isUsed THEN @ \cup {scan.index} ELSE @ \ {scan.index}]
  /\ UNCHANGED <<handed, savedFile, gathered, built>> /\ SameChain

(* The end of a chain sets its tip.                                        *)
ScanChainEnds ==
  /\ scan.mode = "refresh" /\ scan.unused = Gap
  /\ mem' = [mem EXCEPT !.tip[scan.chain] = LastUsed(mem, scan.chain) + 1]
  /\ scan' = IF scan.chain = 0 THEN ScanOf("refresh", 1) ELSE NoScan
  /\ UNCHANGED <<handed, savedFile, gathered, built>> /\ SameChain

(* A history query raises: the scan stops, with the records it made and    *)
(* the tips of before.                                                     *)
RefreshFails ==
  /\ scan.mode # "off" /\ gathered.by # "recover" /\ scan' = NoScan
  /\ gathered' = NothingFound
  /\ UNCHANGED <<handed, mem, savedFile, built>> /\ SameChain

(* wallet recover --scan: a wallet of the mnemonic alone is refreshed.     *)
(* Read-only: nothing of it is saved or spent, and a query that raises     *)
(* ends the command (ExitWallet) without a report.  One of the scanned     *)
(* paths is the wallet's.                                                  *)
WalletRecover ==
  /\ mem = NoWallet /\ scan.mode = "off" /\ gathered = NothingFound /\ built = NotBuilt
  /\ mem' = EmptyWallet /\ scan' = ScanOf("refresh", 0)
  /\ gathered' = [FoundBy("recover", {}) EXCEPT !.since = payments]
  /\ UNCHANGED <<handed, savedFile, built>> /\ SameChain

(* The coins of the addresses a wallet has used records of.                *)
CoinsOf(w) == {x \in unspent : x[2] \in w.recs[x[1]]}

(* Mutation: one chain is scanned.                                         *)
DiscoverReceiving ==
  /\ gathered.by = "recover" /\ scan.chain = 1
  /\ gathered' = [gathered EXCEPT !.by = "report", !.coins = CoinsOf(mem)]
  /\ scan' = NoScan
  /\ UNCHANGED <<handed, mem, savedFile, built>> /\ SameChain

(* discover: the balance of every used address goes into the report.       *)
Discover ==
  /\ gathered.by = "recover" /\ scan.mode = "off"
  /\ gathered' = [gathered EXCEPT !.by = "report", !.coins = CoinsOf(mem)]
  /\ UNCHANGED <<handed, mem, savedFile, scan, built>> /\ SameChain

(* collect_watch_only_utxos: the same walk for an xpub, which takes the    *)
(* coins on its way and the change index after the last used one.          *)
WatchOnlyScan ==
  /\ scan.mode = "off" /\ gathered = NothingFound /\ built = NotBuilt
  /\ scan' = ScanOf("watch", 0) /\ gathered' = FoundBy("agent", {})
  /\ UNCHANGED <<handed, mem, savedFile, built>> /\ SameChain

WatchOnlyStep ==
  /\ scan.mode = "watch" /\ scan.unused < Gap
  /\ LET isUsed == scan.index \in history[scan.chain] IN
       /\ scan' = AfterQuery(isUsed)
       /\ gathered' = [gathered EXCEPT
            !.coins = @ \cup {x \in unspent : x[1] = scan.chain /\ x[2] = scan.index},
            !.change = IF isUsed /\ scan.chain = 1 THEN scan.index + 1 ELSE @]
  /\ UNCHANGED <<handed, mem, savedFile, built>> /\ SameChain

WatchOnlyEnds ==
  /\ scan.mode = "watch" /\ scan.unused = Gap
  /\ scan' = IF scan.chain = 0 THEN ScanOf("watch", 1) ELSE NoScan
  /\ UNCHANGED <<handed, mem, savedFile, gathered, built>> /\ SameChain

-------------------------------------------------- (* coins and payments *)

(* collect_spendable, get_utxos: every used record is asked; an address    *)
(* whose query fails is left out without a word.                           *)
CollectSpendable(failed) ==
  /\ Driven /\ scan.mode = "off" /\ built = NotBuilt
  /\ gathered' = FoundBy("wallet", {x \in CoinsOf(mem) : x[1] \notin failed})
  /\ UNCHANGED <<handed, mem, savedFile, scan, built>> /\ SameChain

(* RxdWallet.send on the key of the first receive address: one address,    *)
(* which takes its own change.                                             *)
RxdWalletUtxos ==
  /\ Driven /\ scan.mode = "off" /\ built = NotBuilt
  /\ gathered' = FoundBy("single", {x \in unspent : x[1] = 0 /\ x[2] = 0})
  /\ UNCHANGED <<handed, mem, savedFile, scan, built>> /\ SameChain

(* Where the change goes: to the address itself, to the next internal one  *)
(* of the records, or to the one after the last that the scan saw used.    *)
ChangeAt ==
  IF gathered.by = "single" THEN <<0, 0>>
  ELSE IF gathered.by = "wallet" THEN <<1, FirstUnused(mem, 1)>>
  ELSE <<1, gathered.change>>

(* The sum of the values of a set of coins: one token for each photon.     *)
Total(S) == Cardinality(UNION {{x} \X (1 .. x[3]) : x \in S})

(* Mutation: the sum covers the amount alone.                              *)
CoversAmount(ins, photons, base) == Total(ins) >= photons

(* The sum covers the amount and an estimated fee.                         *)
Covers(ins, photons, base) == Total(ins) >= photons + base + InBytes * Cardinality(ins)

(* greedy_select_count and its two inlined copies, largest coin first,     *)
(* until the sum covers; all, if it never does.  Which of two equal coins  *)
(* comes first is the server's order.                                      *)
LargestOf(ins, S) == ins \subseteq S /\ \A x \in ins, y \in S \ ins : x[3] >= y[3]
GreedySelect(S, photons, base) ==
  {ins \in SUBSET S :
     /\ LargestOf(ins, S) /\ (Covers(ins, photons, base) \/ ins = S)
     /\ \A less \in SUBSET ins :
          LargestOf(less, S) /\ Covers(less, photons, base) => less = ins}

TxSize(n, outs, short) == Overhead + outs * OutBytes + InBytes * n - short

(* A payment from the coins found, with the fee of its trial's size; some  *)
(* signatures are a byte short.  Change below dust is left to the fee.     *)
Payment(photons, cushion, short) ==
  /\ scan.mode = "off" /\ built = NotBuilt /\ gathered.coins # {} /\ photons >= SendDust
  /\ \E ins \in GreedySelect(gathered.coins, photons, cushion) :
       LET fee == TxSize(Cardinality(ins), 2, short)
           rest == Total(ins) - photons - fee
       IN  /\ short <= Cardinality(ins)
           /\ built' = [ins |-> ins, pay |-> photons, at |-> ChangeAt,
                        back |-> IF rest >= SendDust THEN rest ELSE 0,
                        fee |-> IF rest >= SendDust THEN fee ELSE fee + rest,
                        selectedAll |-> ins = gathered.coins,
                        error |-> IF Total(ins) < photons THEN "funds"
                                  ELSE IF rest < 0 THEN "fee" ELSE "none"]
  /\ UNCHANGED <<handed, mem, savedFile, scan, gathered>> /\ SameChain

(* The wallets' cushion is two bytes above a two-output transaction; the   *)
(* watch-only builder has no signature to measure and keeps its estimate.  *)
BuildSendTx(p, short) ==
  gathered.by = "wallet" /\ Payment(p, Overhead + 2 * OutBytes + 2, short)
RxdBuildSendTx(p, short) ==
  gathered.by = "single" /\ Payment(p, Overhead + 2 * OutBytes + 2, short)
WatchOnlyBuildSend(p) ==
  gathered.by = "agent" /\ Payment(p, Overhead + 2 * OutBytes, 0)

(* wallet send: by the agent, if one is unlocked, or in this process.      *)
WalletSend(p, short) ==
  p > 0 /\ (WatchOnlyBuildSend(p) \/ BuildSendTx(p, short))

(* Everything that was found, one output, no change.                       *)
Sweep(short) ==
  /\ scan.mode = "off" /\ built = NotBuilt /\ Total(gathered.coins) > SendDust
  /\ LET fee == TxSize(Cardinality(gathered.coins), 1, short)
         out == Total(gathered.coins) - fee
     IN  /\ short <= Cardinality(gathered.coins)
         /\ built' = [NotBuilt EXCEPT !.ins = gathered.coins, !.pay = out, !.fee = fee,
                      !.error = IF out < SendDust THEN "fee" ELSE "none"]
  /\ UNCHANGED <<handed, mem, savedFile, scan, gathered>> /\ SameChain

BuildSendMaxTx(short) == gathered.by = "wallet" /\ Sweep(short)
RxdBuildSendMaxTx(short) == gathered.by = "single" /\ Sweep(short)

(* send, send_max, the CLI's confirmation and broadcast: refused if an     *)
(* input was spent meanwhile; its answer may be lost.  Change and history  *)
(* appear on the chain, the records in memory stay as they are.            *)
BroadcastBuilt ==
  /\ built # NotBuilt /\ built.error = "none" /\ payments < MaxPayments
  /\ built.ins \subseteq unspent
  /\ LET at == built.at IN
       /\ unspent' = (unspent \ built.ins) \cup
            (IF built.back > 0 THEN {<<at[1], at[2], built.back>>} ELSE {})
       /\ history' = IF built.back > 0 THEN [history EXCEPT ![at[1]] = @ \cup {at[2]}]
                     ELSE history
  /\ payments' = payments + 1 /\ built' = NotBuilt /\ gathered' = NothingFound
  /\ UNCHANGED <<handed, mem, savedFile, scan>>

WalletNext ==
  \/ WalletNew \/ LoadWallet \/ FromMnemonic \/ SaveWallet \/ ExitWallet
  \/ NextReceiveAddress \/ NextInternalAddress
  \/ \E a \in handed, v \in PayValues : PayTo(a, v)
  \/ Refresh \/ ScanChain \/ ScanChainEnds \/ RefreshFails
  \/ WalletRecover \/ Discover
  \/ WatchOnlyScan \/ WatchOnlyStep \/ WatchOnlyEnds
  \/ \E failed \in SUBSET HdChains : CollectSpendable(failed)
  \/ RxdWalletUtxos
  \/ \E s \in 0 .. 1 :
       \/ \E p \in SendAmounts : WalletSend(p, s) \/ RxdBuildSendTx(p, s)
       \/ BuildSendMaxTx(s) \/ RxdBuildSendMaxTx(s)
  \/ BroadcastBuilt

WalletSpec == WalletInit /\ [][WalletNext]_walletVars

---------------------------------------------------------- (* properties *)

(* What a scan from the mnemonic alone comes to.                           *)
Reached(c, i) == \A k \in Gap .. i : \E j \in k - Gap .. k - 1 : j \in history[c]

(* Whatever was lost with a process, saved late, or handed out twice, a    *)
(* recovery from the mnemonic finds every coin: no receive or change       *)
(* address is ever given out beyond the gap limit of what the chain shows. *)
CoinsAreRecoverable == \A x \in unspent : Reached(x[1], x[2])

(* What wallet recover reports is every coin there is, if none moved while *)
(* it was looking: the scan over both chains, one query at a time, comes   *)
(* to all addresses the wallet ever gave out.                              *)
ReportIsComplete ==
  gathered.by = "report" /\ gathered.since = payments => unspent \subseteq gathered.coins

(* A selection that stopped before the last coin pays its own fee: "not    *)
(* enough after the fee" is only said of a wallet that gave all it had.    *)
EarlyStopPays == built.error # "none" => built.selectedAll

(* The wallet's coins are found again from its mnemonic, and a coin        *)
(* selection that stops early pays its fee.                                *)
CoinsAreKept == CoinsAreRecoverable /\ ReportIsComplete /\ EarlyStopPays
=============================================================================
