------------------------ MODULE MCQuantumAddresses -------------------------
(* Instances of QuantumAddresses.                                          *)
EXTENDS QuantumAddresses

MCMaxIndex == [receive |-> 1, change |-> 2, imported |-> 0]
=============================================================================
