----------------------------- MODULE MCHubSync ------------------------------
(* Two requests, a name other hubs have two versions of and one that only    *)
(* this hub uses, and more models than one page lists.                       *)
EXTENDS HubSync, TLC

CONSTANTS s1, s2, n1, n2, v1, v2, local

MCSlots    == {s1, s2}
MCNames    == {n1, n2}
MCLabels   == {v1, v2}
MCRemote   == {<<n1, v1>>, <<n1, v2>>}

\* At most two versions have a row or a file at a time; two requests are in
\* flight only when the other hubs have all they will have (a request may ask
\* for less); and files that a deleted model left behind do not pile up.
MCBound ==
  /\ Cardinality({v \in Ids \X Labels : rows[v[1]][v[2]].there \/ disk[v[1]][v[2]] # NoBytes}) <= 2
  /\ source # Remote => Cardinality({s \in Slots : req[s] # Idle}) <= 1
  /\ \A i \in Ids \ Used : \/ disk[i] = [l \in Labels |-> NoBytes]
                           \/ \E s \in Slots : req[s].id = i

MCSymmetry == Permutations(MCSlots)
=============================================================================
