---------------------------- MODULE OneTimeKeys ----------------------------
(***************************************************************************)
(* What a signer with stateful one-time keys promises: each key signs with *)
(* its leaves in increasing order, skipping some perhaps, and never signs  *)
(* twice with one leaf.  The wallet (WalletQuantum) and the block signer   *)
(* (BlockSigner) are both shown to implement it.                           *)
(***************************************************************************)
EXTENDS Naturals

VARIABLE signatures     \* set of [key, leaf, msg]

(* s uses a leaf above every leaf its key has used.                        *)
Fresh(s) == \A r \in signatures : r.key = s.key => r.leaf < s.leaf

Sign(s) == Fresh(s) /\ signatures' = signatures \cup {s}

(* A key may already have a history of leaves, each used once.             *)
Init ==
  \A r, s \in signatures : r.key = s.key /\ r.leaf = s.leaf => r = s

Next == \E s \in signatures' : Sign(s)

Spec == Init /\ [][Next]_signatures
=============================================================================
