----------------------------- MODULE MCServing ------------------------------
(***************************************************************************)
(* One model with two versions, one deployment, the hub's engine and one   *)
(* node, two requests in flight.  Slots and versions are interchangeable.  *)
(***************************************************************************)
EXTENDS Serving, TLC

MCNameOf == [m \in Models |-> "repo"]

Symmetry == Permutations(Slots) \cup Permutations(Versions)
=============================================================================
