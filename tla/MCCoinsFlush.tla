--------------------------- MODULE MCCoinsFlush -----------------------------
(* Instances of CoinsFlush: two branches, with a transaction that is in    *)
(* both at different heights, and one that spends an output of its block.  *)
EXTENDS CoinsFlush

CONSTANTS b0, b1, a2, a3, a4, b2, b3, o1, o2, o3, o4

MCBlocks == {b0, b1, a2, a3, a4, b2, b3}
MCParent == [x \in MCBlocks \ {b0} |->
               CASE x = b1 -> b0 [] x = a2 -> b1 [] x = a3 -> a2 [] x = a4 -> a3
                 [] x = b2 -> b1 [] x = b3 -> b2]

MCHeight == [x \in MCBlocks |->
               CASE x = b0 -> 0 [] x = b1 -> 1 [] x \in {a2, b2} -> 2
                 [] x \in {a3, b3} -> 3 [] x = a4 -> 4]

Tx(i, o, cb) == [ins |-> i, outs |-> o, coinbase |-> cb]

MCTxs == [x \in MCBlocks |->
            CASE x = b0 -> <<Tx({}, {}, TRUE)>>
              [] x = b1 -> <<Tx({}, {o1}, TRUE)>>
              [] x = a2 -> <<Tx({}, {}, TRUE), Tx({o1}, {o2}, FALSE)>>
              [] x = a3 -> <<Tx({}, {}, TRUE), Tx({o2}, {o3}, FALSE)>>
              [] x = a4 -> <<Tx({}, {}, TRUE), Tx({o3}, {}, FALSE)>>
              [] x = b2 -> <<Tx({}, {o4}, TRUE)>>
              [] x = b3 -> <<Tx({}, {}, TRUE), Tx({o1}, {o2}, FALSE), Tx({o2, o4}, {o3}, FALSE)>>]

MCOutpoints == {o1, o2, o3, o4}
=============================================================================
