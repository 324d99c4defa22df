--------------------------- MODULE MCCacheManager ---------------------------
(* A small instance of CacheManager for TLC: two versions of one model that *)
(* share bits, and a second model.                                          *)
EXTENDS CacheManager, TLC

MCKeys == {[model |-> "m1", bits |-> 4, ver |-> "v1"],
           [model |-> "m1", bits |-> 4, ver |-> "v2"],
           [model |-> "m2", bits |-> 4, ver |-> "v3"]}

MCSymmetry == Permutations(Runs)
=============================================================================
