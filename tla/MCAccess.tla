------------------------------ MODULE MCAccess ------------------------------
EXTENDS Access
CONSTANTS k1, k2, k3, t1, t2, s1, s2, p1, p2, m1

MCSlots    == {s1, s2}
MCKeys     == {k1, k2, k3}
MCTenants  == {t1, t2}
MCPrefix   == (k1 :> p1) @@ (k2 :> p2) @@ (k3 :> p2)
MCModelIds == {m1}
MCSymmetry == Permutations(MCSlots)

Root == [NoBody EXCEPT !.role = "admin"]
OfT1 == [NoBody EXCEPT !.role = "admin", !.tenant = t1, !.limit = 2]
Dev  == [NoBody EXCEPT !.role = "developer", !.tenant = t1, !.limit = 1, !.models = {m1}]
View == [NoBody EXCEPT !.role = "viewer", !.tenant = t2, !.modules = {"console"}]
Row(by, body) == [st |-> "active", by |-> by, hdr |-> NoOne, body |-> body]

\* an empty database, or a root admin's key and the key of a tenant's admin, with
\* one tenant or two
MCDatabases ==
  {[keys |-> [k \in Keys |-> NoKeyRow], tenants |-> {}]}
    \cup {[keys |-> [k \in Keys |-> CASE k = k1 -> Row(NoOne, Root)
                                      [] k = k2 -> Row(k1, OfT1)
                                      [] OTHER -> NoKeyRow], tenants |-> ts] :
            ts \in {{t1}, {t1, t2}}}

Call(cred, kind) == [NoCall EXCEPT !.cred = cred, !.kind = kind]
OnKey(cred, kind, k) == [Call(cred, kind) EXCEPT !.key = k]
OnTenant(cred, kind, t) == [Call(cred, kind) EXCEPT !.tenant = t]
Make(cred, body) == [Call(cred, "create_key") EXCEPT !.body = body]
ReadBy(cred) == {[Call(cred, "read") EXCEPT !.model = m, !.module = "console"] : m \in {m1, "collection"}}

MCCalls ==
  [x \in Modes |->
     CASE x = "off" ->
            {Make(NoOne, OfT1), Make(NoOne, View), OnTenant(NoOne, "create_tenant", t1),
             OnTenant(NoOne, "delete_tenant", t1), Call(NoOne, "read")}
       [] x = "keys" ->
            {Make(NoOne, Root), Make(k1, Dev), Make(k2, Dev), Make(k2, View),
             [Make(k2, View) EXCEPT !.hdr = t2],
             Call(k2, "create_model"), OnKey(k1, "deactivate", k2), OnKey(k2, "delete_key", k2),
             OnTenant(k1, "create_tenant", t1), OnTenant(k1, "delete_tenant", t1),
             OnTenant(k1, "create_role", t1), OnTenant(k1, "delete_role", t1),
             Call(k2, "delete_audit"), [Call(NoOne, "read") EXCEPT !.shell = TRUE]}
              \cup ReadBy(k3)
       [] x = "gateway" ->
            {[Call(k2, "create_model") EXCEPT !.route = TRUE, !.hdr = t2],
             [Call(k2, "read") EXCEPT !.route = TRUE, !.hdr = t2],
             [Make(k2, Dev) EXCEPT !.hdr = t2], Call(k2, "read"), OnTenant(k1, "create_tenant", t2)}
       [] x = "identity" ->
            {[Make(k2, Dev) EXCEPT !.jwt = t1, !.jrole = "tenant_admin"],
             [Call(k2, "read") EXCEPT !.jwt = t2, !.jrole = "member"],
             [Call(NoOne, "create_model") EXCEPT !.jwt = t1, !.jrole = "member"],
             [Call(k1, "create_model") EXCEPT !.jwt = t2]}]
=============================================================================
