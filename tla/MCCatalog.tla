----------------------------- MODULE MCCatalog -----------------------------
(***************************************************************************)
(* Catalog for TLC: two models are stored, m2 can be made under the name   *)
(* of m1 when m1 is gone.  A page of a backup holds one model, one file is *)
(* kept.  The name "both" is that of p1, a comma and that of p2.           *)
(***************************************************************************)
EXTENDS Catalog

CONSTANTS m1, m2, m3, tA, p1, p2, both

MCModels == {m1, m2, m3}
MCStored == <<m1, m3>>
MCNameOf == (m1 :> 1) @@ (m2 :> 1) @@ (m3 :> 2)
MCTenantOf == (m1 :> tA) @@ (m2 :> NoTenant) @@ (m3 :> NoTenant)
MCEvents == [kind : {"created", "deleted"}, model : MCModels]
MCPersons == {p1, p2, both}
MCPartsOf == (p1 :> {p1}) @@ (p2 :> {p2}) @@ (both :> {p1, p2})
MCMarks == [kind : {"favorite", "lock"}, model : {m1}]
MCSubscriptions == {[kinds |-> {}, tenant |-> tA], [kinds |-> {"deleted"}, tenant |-> NoTenant]}
=============================================================================
