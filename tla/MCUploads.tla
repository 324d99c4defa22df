----------------------------- MODULE MCUploads ------------------------------
(* Two requests and one URL download on one label of either store.         *)
EXTENDS Uploads, TLC

CONSTANTS s1, s2, l1, pA, pB, t1

MCLabels   == {l1}
MCSlots    == {s1, s2}
MCPayloads == {pA, pB}
MCStores   == {"local", "minio"}
MCTasks    == {t1}
MCSymmetry == Permutations(MCSlots) \cup Permutations(MCPayloads)

\* Nothing is claimed of a label from the moment another actor has written or
\* removed its file: what comes after is not followed.
MCConstraint == touched # MCLabels
=============================================================================
