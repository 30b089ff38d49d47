---------------------------- MODULE MCPowRetarget ---------------------------
(* Instances of PowRetarget: the networks of kernel/chainparams.cpp with   *)
(* targets of twelve bits.                                                 *)
EXTENDS PowRetarget, CompactBits

MCNet(limit, genesis, soft, noRetarget, allowMin, bip94) ==
  [powLimit |-> limit, genesisBits |-> GetCompact(genesis), softLaunchHeight |-> soft,
   noRetargeting |-> noRetarget, allowMinDifficulty |-> allowMin, enforceBIP94 |-> bip94]

MCMain == MCNet(112, 112, 2, FALSE, FALSE, FALSE)
MCTestnet == MCNet(112, 192, 0, FALSE, TRUE, FALSE)
MCTestnet4 == MCNet(112, 192, 0, FALSE, TRUE, TRUE)
MCStagenet == MCNet(112, 192, 0, FALSE, FALSE, FALSE)
MCRegtest == MCNet(240, 192, 0, TRUE, TRUE, FALSE)
MCNets == {MCMain, MCTestnet, MCTestnet4, MCStagenet, MCRegtest}
MCStagenetOnly == {MCStagenet}
=============================================================================
