-------------------------- MODULE MCWalletQuantum --------------------------
(* Instances of WalletQuantum: receive index 0, and one other key.         *)
EXTENDS WalletQuantum, TLC

CONSTANTS k0, k1, s1, s2

MCKeys == {k0, k1}
MCSighashes == {s1, s2}
Symmetry == Permutations(MCSighashes)
=============================================================================
