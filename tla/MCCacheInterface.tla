--------------------------- MODULE MCCacheInterface ---------------------------
(* Reads of three blocks, two of them of the same one, and writes of two of  *)
(* them.  With two banks, blocks 1 and 3 share a bank.                       *)
EXTENDS CacheInterface, TLC
CONSTANTS r1, r2, r3, r4, w1, w2

MCBlockOf == [r \in Request |->
  CASE r \in {r1, r2} -> 1 [] r \in {r3, w1} -> 2 [] r \in {r4, w2} -> 3]
=============================================================================
