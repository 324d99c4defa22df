----------------------------- MODULE MCVersions -----------------------------
(* Small instances of Versions for TLC. *)
EXTENDS Versions, TLC

\* An uploaded version and the one that merging it creates, of one model
MCModelOf == [v \in Versions |-> "m"]

MCMergeLabel ==
  [b \in Branches |-> [v \in Uploaded |-> CHOOSE t \in Versions \ Uploaded : TRUE]]

MCSymmetry == Permutations(Requests)
=============================================================================
