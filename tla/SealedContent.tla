---------------------------- MODULE SealedContent ----------------------------
(***************************************************************************)
(* glyph/encrypted_content.py, glyph/timelock.py and                       *)
(* glyph/timelock_reveal_tx.py: a token whose content is encrypted under a *)
(* key that is published later.  The minter commits to the key's hash,     *)
(* anyone may publish reveal proofs, and a wallet parses, validates and    *)
(* opens.  A hash string is a record: its prefix as written, the case of   *)
(* its digits and what it is the hash of.                                  *)
(***************************************************************************)
EXTENDS Integers, Sequences, FiniteSets

CONSTANTS Keys,         \* content keys; one of them encrypts the content
          UnlockAt,     \* TimelockParams.unlock_at
          MaxBlock, MaxTime, MaxProofs

(* A key is neither of the two words that stand for no key, and an unlock  *)
(* point is a number.                                                      *)
ASSUME KeysAreKeys == Keys \cap {"nothing", "malformed"} = {}
ASSUME UnlockPoints == UnlockAt \subseteq Int

VARIABLES
  key,      \* the key the content was encrypted under
  stub,     \* the minter's EncryptedContentStub
  minted,   \* its dictionary on the chain
  proofs,   \* the OP_RETURN scripts on the chain
  block, time,
  opened    \* the wallets' results

sealVars == <<key, stub, minted, proofs, block, time, opened>>

Refs == {"token", "TOKEN", "another"}   \* "TOKEN" is the token's ref in capitals
NoHash == [prefix |-> "", digits |-> "", of |-> "nothing"]
Hash(prefix, digits, k) == [prefix |-> prefix, digits |-> digits, of |-> k]

(* format_cek_hash of compute_cek_hash.                                    *)
FormatCekHash(k) == Hash("sha256:", "lower", k)

(* Mutation: the prefix is compared as written.                            *)
ParseExactPrefix(h) == IF h.prefix = "sha256:" /\ h.digits # "" THEN h.of ELSE "malformed"

(* parse_cek_hash: the prefix in any case, then 64 hex digits.             *)
ParseCekHash(h) ==
  IF h.prefix \in {"sha256:", "SHA256:", "Sha256:"} /\ h.digits # "" THEN h.of ELSE "malformed"

(* _sha256_prefix: also an empty hash gets the prefix.                     *)
Sha256Prefix(h) == [h EXCEPT !.prefix = "sha256:", !.digits = IF @ = "" THEN "" ELSE "lower"]

NoLock == [mode |-> "none", unlockAt |-> 0, cekHash |-> NoHash]

(* EncryptedContentStub.to_dict and from_dict, with those of its parts.    *)
LockToDict(l) == [l EXCEPT !.cekHash = Sha256Prefix(@)]
StubToDict(st) ==
  [st EXCEPT !.cekHash = Sha256Prefix(@),
             !.timelock = IF @.mode = "none" THEN @ ELSE LockToDict(@)]
StubFromDict(d) == d

Truthy(h) == h.prefix # "" \/ h.digits # ""

(* add_timelock_to_metadata: the ENCRYPTED marker first; crypto.cek_hash   *)
(* is kept when there is one.                                              *)
AddTimelock(st, k, mode, unlockAt) ==
  [st EXCEPT !.p = @ \cup {"TIMELOCK"},
             !.timelock = [mode |-> mode, unlockAt |-> unlockAt, cekHash |-> FormatCekHash(k)],
             !.cekHash = IF Truthy(@) THEN @ ELSE FormatCekHash(k)]

(* is_unlocked and get_unlock_remaining.  A clock the caller does not give *)
(* is -1.                                                                  *)
ClockOf(l, b, t) == IF l.mode = "block" THEN b ELSE t
IsUnlocked(st, b, t) ==
  \/ "TIMELOCK" \notin st.p
  \/ st.timelock.mode \in {"block", "time"} /\ ClockOf(st.timelock, b, t) >= st.timelock.unlockAt
UnlockRemaining(st, b, t) ==
  IF "TIMELOCK" \notin st.p \/ st.timelock.mode = "none" \/ ClockOf(st.timelock, b, t) = -1 THEN 0
  ELSE LET left == st.timelock.unlockAt - ClockOf(st.timelock, b, t) IN IF left > 0 THEN left ELSE 0

------------------------------------------------------ (* reveal proofs *)

(* create_reveal_proof: an override's prefix is stripped when all its      *)
(* letters have one case, its digits in any; "nothing" is no override.     *)
OverrideOk(k, override) ==
  \/ override = NoHash
  \/ override.of = k /\ override.prefix \in {"", "sha256:", "SHA256:"}
ProofHash(k, override) ==
  CASE override = NoHash -> FormatCekHash(k)
    [] override.prefix = "" -> FormatCekHash(k)
    [] OTHER -> override
CreateRevealProof(ref, k, override) ==
  [magic |-> TRUE, version |-> 2, marker |-> 9, action |-> "reveal", ref |-> ref, cek |-> k,
   cekHash |-> ProofHash(k, override)]

(* External: what a caller passes as an override, and a proof by hand.     *)
Overrides ==
  {NoHash} \cup [prefix : {"", "sha256:", "SHA256:", "Sha256:"}, digits : {"lower", "upper"},
                 of : Keys]
HandMade(ref, k, h, m) ==
  [CreateRevealProof(ref, k, NoHash) EXCEPT !.cekHash = h, !.marker = m]

(* parse_reveal_proof_script, then validate_reveal_proof.                  *)
ParseRevealProof(x) == x.magic /\ x.version = 2 /\ x.marker = 9 /\ x.action = "reveal"
Validates(x, ref, expected) ==
  /\ ParseRevealProof(x)
  /\ x.ref = ref
  /\ ParseCekHash(x.cekHash) = x.cek
  /\ ParseCekHash(expected) = x.cek

----------------------------------------------------------------------------

SealInit ==
  /\ key \in Keys
  /\ stub \in {[p |-> {"NFT", "ENCRYPTED"}, cekHash |-> h, timelock |-> NoLock] :
                 h \in {NoHash, FormatCekHash(key), Hash("", "upper", key)}}
  /\ minted = <<>> /\ proofs = {} /\ block = 0 /\ time = 0 /\ opened = {}

(* The minter stores the stub and reads it back.                           *)
StoreStub ==
  /\ minted = <<>>
  /\ stub' = StubFromDict(StubToDict(stub))
  /\ UNCHANGED <<key, minted, proofs, block, time, opened>>

(* The caller gives the key the content was encrypted under; the function  *)
(* may be called again with another unlock point.                          *)
Lock ==
  /\ minted = <<>>
  /\ \E mode \in {"block", "time"}, u \in UnlockAt : stub' = AddTimelock(stub, key, mode, u)
  /\ UNCHANGED <<key, minted, proofs, block, time, opened>>

Mint ==
  /\ minted = <<>> /\ "TIMELOCK" \in stub.p
  /\ minted' = <<StubToDict(stub)>>
  /\ UNCHANGED <<key, stub, proofs, block, time, opened>>

(* Anyone publishes a proof, early or late, of any key for any ref, from   *)
(* create_reveal_proof or made by hand.                                    *)
Publish ==
  /\ minted # <<>> /\ Cardinality(proofs) < MaxProofs
  /\ \E ref \in Refs, k \in Keys :
       \/ \E o \in Overrides :
            OverrideOk(k, o) /\ proofs' = proofs \cup {CreateRevealProof(ref, k, o)}
       \/ \E h \in {FormatCekHash(j) : j \in Keys} \cup {NoHash}, m \in {8, 9} :
            proofs' = proofs \cup {HandMade(ref, k, h, m)}
  /\ UNCHANGED <<key, stub, minted, block, time, opened>>

Tick ==
  /\ \/ block < MaxBlock /\ block' = block + 1 /\ UNCHANGED time
     \/ time < MaxTime /\ time' = time + 1 /\ UNCHANGED block
  /\ UNCHANGED <<key, stub, minted, proofs, opened>>

(* A wallet that knows one clock or both opens the content.                *)
Open ==
  /\ minted # <<>> /\ opened = {}
  /\ \E b \in {block, -1}, t \in {time, -1}, x \in proofs :
       LET st == StubFromDict(minted[1])
       IN /\ IsUnlocked(st, b, t)
          /\ Validates(x, "token", st.timelock.cekHash)
          /\ opened' = {[key |-> x.cek, block |-> block, time |-> time]}
  /\ UNCHANGED <<key, stub, minted, proofs, block, time>>

SealNext == StoreStub \/ Lock \/ Mint \/ Publish \/ Tick \/ Open

SealSpec == SealInit /\ [][SealNext]_sealVars

---------------------------------------------------------- (* properties *)

(* However often the stub was stored and locked before it was minted, and  *)
(* whatever else is published: a wallet accepts a proof exactly when it    *)
(* publishes the content's key for the token's ref as the token spells it, *)
(* and opens only from the last unlock point on; and every proof           *)
(* create_reveal_proof made of that key for that ref is accepted.          *)
SealOpensExactly ==
  /\ \A o \in opened : o.key = key
  /\ minted # <<>> =>
       LET st == StubFromDict(minted[1])
       IN /\ \A x \in proofs : Validates(x, "token", st.timelock.cekHash) <=>
               x.ref = "token" /\ x.cek = key /\ x.cekHash.of = key /\ x.marker = 9
          /\ \A b \in {block, -1}, t \in {time, -1} :
               IsUnlocked(st, b, t) => UnlockRemaining(st, block, time) = 0
  /\ \A o \in opened : UnlockRemaining(minted[1], o.block, o.time) = 0

(* The commitment of crypto.cek_hash, too, is one a proof can be checked   *)
(* against: "sha256:" and a hash.                                          *)
CommitmentIsWhole ==
  minted # <<>> => ParseCekHash(minted[1].cekHash) = key
=============================================================================
