--------------------------- MODULE MCBlockSigner ---------------------------
(* Instances of BlockSigner: two callers and two blocks.                   *)
EXTENDS BlockSigner

CONSTANTS t1, t2, b1, b2

MCThreads == {t1, t2}
MCBlocks == {b1, b2}
=============================================================================
