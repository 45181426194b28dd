---------------------------- MODULE MerkleProofs ----------------------------
(***************************************************************************)
(* Proofs of inclusion (merkle_path.py) and the BEEF form of a transaction *)
(* with its proven ancestors (transaction.py): the constructor's checks,   *)
(* the root of a path, the combination and trimming of the proofs of one   *)
(* block, and what two parties that write, read and extend such bundles    *)
(* are left with.  MerklePath objects are shared and changed in place.     *)
(*                                                                         *)
(* A hash is the tuple of what it was taken of, <<name>> for a             *)
(* transaction.  A level is the set of its leaves, since every list is     *)
(* sorted by offset whenever its order matters.  Constructors give         *)
(* <<object>>, or <<>> where they raise.                                   *)
(***************************************************************************)
EXTENDS Integers, Sequences, SequencesExt

CONSTANTS
  Chain,     \* blocks: [height, txs]; two of one height are a fork
  MaxInputs  \* bound on proven ancestors

VARIABLES
  inputs,  \* the transaction's inputs: ancestor, its block and its merkle_path
  heap,    \* MerklePath objects: [height, path]
  beef,    \* the bundle last written, <<>> when something was added since
  refused  \* to_beef or from_beef raised

vars == <<inputs, heap, beef, refused>>

----------------------------------------------------------- (* the blocks *)

Shift(o, h) == o \div 2 ^ h
Sibling(o) == IF o % 2 = 0 THEN o + 1 ELSE o - 1
Width(b, h) == (Len(Chain[b].txs) + 2 ^ h - 1) \div 2 ^ h
Depth(b) == CHOOSE d \in 1 .. 8 : Width(b, d) = 1 /\ Width(b, d - 1) > 1

(* External: the tree of a block, whose last node stands for its missing   *)
(* neighbour.                                                              *)
RECURSIVE Node(_, _, _)
Node(b, h, o) ==
  IF h = 0 THEN <<Chain[b].txs[o + 1]>>
  ELSE LET right == IF 2 * o + 1 < Width(b, h - 1) THEN 2 * o + 1 ELSE 2 * o
       IN <<Node(b, h - 1, 2 * o), Node(b, h - 1, right)>>

BlockRoot(b) == Node(b, Depth(b), 0)

Leaf(o, hash, txid, duplicate) ==
  [offset |-> o, hash |-> hash, txid |-> txid, duplicate |-> duplicate]

(* External: the proof of a block's transaction as wallets exchange it.    *)
ProofOf(b, i) ==
  [h \in 1 .. Depth(b) |->
     LET o == Sibling(Shift(i, h - 1))
     IN (IF o < Width(b, h - 1) THEN {Leaf(o, Node(b, h - 1, o), FALSE, FALSE)}
         ELSE {Leaf(o, <<>>, FALSE, TRUE)})
        \cup (IF h = 1 THEN {Leaf(i, Node(b, 0, i), TRUE, FALSE)} ELSE {})]

------------------------------------------------------------ (* MerklePath *)

At(path, h, o) == {l \in path[h + 1] : l.offset = o}

(* Mutation: a duplicate counts as a hash of its own.                      *)
RECURSIVE FindHashOnly(_, _, _)
FindHashOnly(path, h, o) ==
  IF At(path, h, o) # {} THEN At(path, h, o)
  ELSE IF h = 0 THEN {}
  ELSE {Leaf(o, <<l.hash, r.hash>>, FALSE, FALSE) :
          l \in {x \in FindHashOnly(path, h - 1, 2 * o) : x.hash # <<>>},
          r \in FindHashOnly(path, h - 1, 2 * o + 1)}

(* find_or_compute_leaf: at most one.                                      *)
RECURSIVE FindOrComputeLeaf(_, _, _)
FindOrComputeLeaf(path, h, o) ==
  IF At(path, h, o) # {} THEN At(path, h, o)
  ELSE IF h = 0 THEN {}
  ELSE {Leaf(o, <<l.hash, IF r.duplicate THEN l.hash ELSE r.hash>>, FALSE, FALSE) :
          l \in {x \in FindOrComputeLeaf(path, h - 1, 2 * o) : x.hash # <<>>},
          r \in FindOrComputeLeaf(path, h - 1, 2 * o + 1)}

(* compute_root: the working hash of the branch at index, from height h    *)
(* up; <<>> where a hash is missing.                                       *)
RECURSIVE RootFrom(_, _, _, _)
RootFrom(path, index, h, working) ==
  IF h = Len(path) THEN <<working>>
  ELSE LET o == Sibling(Shift(index, h))
           found == FindOrComputeLeaf(path, h, o)
       IN IF found = {} THEN <<>>
          ELSE LET leaf == CHOOSE l \in found : TRUE
               IN RootFrom(path, index, h + 1,
                    IF leaf.duplicate THEN <<working, working>>
                    ELSE IF o % 2 # 0 THEN <<working, leaf.hash>>
                    ELSE <<leaf.hash, working>>)

Lowest(leaves) == CHOOSE l \in leaves : \A k \in leaves : l.offset <= k.offset

(* The branch of txid, or, without one, of the first leaf that has a hash. *)
ComputeRoot(path, txid) ==
  LET leaves == {l \in path[1] : l.hash # <<>> /\ txid \in {<<>>, l.hash}}
  IN IF leaves = {} THEN <<>>
     ELSE RootFrom(path, Lowest(leaves).offset, 0, Lowest(leaves).hash)

(* __init__: offsets are unique, a node above the first level is the       *)
(* sibling of a branch, and every branch has the same root.                *)
MerklePath(height, path) ==
  IF /\ path[1] # {}
     /\ \A h \in DOMAIN path : \A l, k \in path[h] : l.offset = k.offset => l = k
     /\ \A h \in 2 .. Len(path) : \A l \in path[h] : \E k \in path[1] :
          ~k.duplicate /\ l.offset = Sibling(Shift(k.offset, h - 1))
     /\ \A l \in path[1] :
          /\ ComputeRoot(path, l.hash) # <<>>
          /\ ComputeRoot(path, l.hash) = ComputeRoot(path, Lowest(path[1]).hash)
  THEN <<[height |-> height, path |-> path]>>
  ELSE <<>>

(* ElectrumXClient.get_transaction_merkle puts every sibling of the branch *)
(* into the first level.                                                   *)
GetTransactionMerkle(b, i) ==
  MerklePath(Chain[b].height,
    << {Leaf(i, Node(b, 0, i), TRUE, FALSE)}
       \cup {LET o == Shift(i, h)
                 n == IF Sibling(o) < Width(b, h) THEN Sibling(o) ELSE o
             IN Leaf(Sibling(o), Node(b, h, n), FALSE, FALSE) : h \in 0 .. Depth(b) - 1} >>)

-------------------------------------------------------- (* combine, trim *)

(* Mutation: what is computed is not taken up to the next level.           *)
UnshiftedTrim(path) ==
  LET computed == {Shift(l.offset, 1) : l \in {x \in path[1] : x.txid}}
  IN [h \in DOMAIN path |->
        IF h = 1 THEN path[1] ELSE {l \in path[h] : l.offset \notin computed}]

(* trim: in the first level a leaf that is no transaction asked for makes  *)
(* its neighbour go, if that is none either; above, what the level below   *)
(* computes is dropped.  The neighbour is the one of the next pair.        *)
Trim(path) ==
  LET asked == {l \in path[1] : l.txid}
      plain == path[1] \ asked
      peer(o) == IF o % 2 = 1 THEN o + 1 ELSE o - 1
      dropped == {peer(l.offset) : l \in plain}
      computed(h) == {Shift(l.offset, h) : l \in asked}
  IN [h \in DOMAIN path |->
        IF h = 1 THEN asked \cup {l \in plain : l.offset \notin dropped}
        ELSE {l \in path[h] : l.offset \notin computed(h - 1)}]

Offsets(leaves) == {l.offset : l \in leaves}

(* combine: the leaves of both, and what the other one asks for is asked   *)
(* for.                                                                    *)
Combine(mine, other) ==
  Trim([h \in DOMAIN mine |->
    {[l EXCEPT !.txid = @ \/ l.offset \in Offsets({k \in other[h] : k.txid})] :
       l \in mine[h] \cup {k \in other[h] : k.offset \notin Offsets(mine[h])}}])

------------------------------------------------------------------ (* BEEF *)

(* Mutation: one height is one block.                                      *)
SameHeight(mine, other) == mine.height = other.height

(* Two proofs are of one block; TRUE needs both roots.                     *)
SameBlock(mine, other) ==
  mine.height = other.height
    /\ ComputeRoot(mine.path, <<>>) = ComputeRoot(other.path, <<>>)

Rootless(mine, other) ==
  mine.height = other.height
    /\ <<>> \in {ComputeRoot(mine.path, <<>>), ComputeRoot(other.path, <<>>)}

(* to_beef, one proven ancestor: its proof is one of the bumps already,    *)
(* or is combined into the first of its block, or is another bump.         *)
AddPath(s, input) ==
  LET own == s.heap[input.path]
      bump(j) == s.heap[s.bumps[j]]
      stop == {j \in DOMAIN s.bumps : s.bumps[j] = input.path
                 \/ Rootless(bump(j), own) \/ SameBlock(bump(j), own)}
      first == CHOOSE j \in stop : \A k \in stop : j <= k
  IN  CASE ~s.ok -> s
        [] s.ok /\ stop = {} ->
             [s EXCEPT !.bumps = Append(@, input.path), !.index = Append(@, Len(s.bumps) + 1)]
        [] s.ok /\ stop # {} ->
             IF s.bumps[first] = input.path THEN [s EXCEPT !.index = Append(@, first)]
             ELSE IF Rootless(bump(first), own) THEN [s EXCEPT !.ok = FALSE]
             ELSE [s EXCEPT !.index = Append(@, first),
                     !.heap[s.bumps[first]].path = Combine(@, own.path)]

Bundled(in, hp) ==
  FoldLeft(AddPath, [ok |-> TRUE, heap |-> hp, bumps |-> <<>>, index |-> <<>>], in)

(* What is written: the bumps as they are in the end.                      *)
Written(s) == [bumps |-> [j \in DOMAIN s.bumps |-> s.heap[s.bumps[j]]], index |-> s.index]

Init == inputs = <<>> /\ heap = <<>> /\ beef = <<>> /\ refused = FALSE

Adds(b, i, proof) ==
  /\ inputs' = Append(inputs, [tx |-> Chain[b].txs[i + 1], block |-> b, pos |-> i,
                               path |-> Len(heap) + 1])
  /\ heap' = Append(heap, proof)
  /\ beef' = <<>> /\ UNCHANGED refused

Fits(b, i) ==
  /\ Len(inputs) < MaxInputs /\ ~refused
  /\ \A k \in DOMAIN inputs : inputs[k].tx # Chain[b].txs[i + 1]

(* Another ancestor, with a proof that came in hex and was read.           *)
AddProof(b, i) ==
  /\ Fits(b, i)
  /\ LET proof == MerklePath(Chain[b].height, ProofOf(b, i))
     IN proof # <<>> /\ Adds(b, i, proof[1])

(* ... or with one that the ElectrumX client made.                         *)
FetchProof(b, i) ==
  /\ Fits(b, i)
  /\ LET proof == GetTransactionMerkle(b, i) IN proof # <<>> /\ Adds(b, i, proof[1])

ToBeef ==
  /\ inputs # <<>> /\ beef = <<>> /\ ~refused
  /\ LET s == Bundled(inputs, heap)
     IN /\ heap' = s.heap /\ refused' = ~s.ok
        /\ beef' = IF s.ok THEN <<Written(s)>> ELSE <<>>
  /\ UNCHANGED inputs

(* from_beef by whoever the transaction is sent to, who goes on with it:   *)
(* transactions of one block share one MerklePath.                         *)
FromBeef ==
  /\ beef # <<>> /\ ~refused
  /\ LET bumps == [j \in DOMAIN beef[1].bumps |->
                     MerklePath(beef[1].bumps[j].height, beef[1].bumps[j].path)]
     IN IF \E j \in DOMAIN bumps : bumps[j] = <<>>
        THEN refused' = TRUE /\ UNCHANGED <<inputs, heap, beef>>
        ELSE /\ heap' = [j \in DOMAIN bumps |-> bumps[j][1]]
             /\ inputs' = [k \in DOMAIN inputs |->
                             [inputs[k] EXCEPT !.path = beef[1].index[k]]]
             /\ beef' = <<>> /\ UNCHANGED refused

Next ==
  \/ \E b \in DOMAIN Chain : \E i \in 0 .. Len(Chain[b].txs) - 1 :
       AddProof(b, i) \/ FetchProof(b, i)
  \/ ToBeef \/ FromBeef

Spec == Init /\ [][Next]_vars

----------------------------------------------------------- (* properties *)

Root(k) == ComputeRoot(heap[inputs[k].path].path, <<inputs[k].tx>>)

(* However proofs are combined, trimmed, written, read and combined again, *)
(* also with those of a fork: the root a proof gives for its transaction   *)
(* is that of the block it was made for, if it gives one.                  *)
RootsAreTheBlocks ==
  \A k \in DOMAIN inputs : Root(k) \in {<<>>, <<BlockRoot(inputs[k].block)>>}

(* Two ancestors are the outer transactions of neighbouring pairs.         *)
Outer(b) ==
  \E k, l \in DOMAIN inputs :
    /\ inputs[k].block = b /\ inputs[l].block = b
    /\ inputs[k].pos % 2 = 0 /\ inputs[l].pos = inputs[k].pos + 3

(* A proof is never lost: every ancestor's still gives the block's root,   *)
(* no bundle is refused, and to write a bundle twice is to write it once.  *)
(* Excepted are blocks with Outer ancestors, see CombinedStillProve.       *)
ProofsAreKept ==
  (\A k \in DOMAIN inputs : ~Outer(inputs[k].block)) =>
    /\ \A k \in DOMAIN inputs : Root(k) # <<>>
    /\ ~refused
    /\ beef # <<>> => <<Written(Bundled(inputs, heap))>> = beef

(* merkle_path.py:301: trim is to "Remove all internal nodes that are not  *)
(* required by level zero txid nodes".  It takes the neighbour of the next *)
(* pair for the sibling, and drops both inner leaves of an Outer pair.     *)
CombinedStillProve == \A k \in DOMAIN inputs : Root(k) # <<>>

(* electrumx.py:242: "Fetch the Merkle proof for *txid* at block *height*".*)
(* In a block of more than two transactions there is none.                 *)
EveryProofIsFetched ==
  \A b \in DOMAIN Chain : \A i \in 0 .. Len(Chain[b].txs) - 1 :
    GetTransactionMerkle(b, i) # <<>>
=============================================================================
