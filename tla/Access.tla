------------------------------- MODULE Access -------------------------------
(***************************************************************************)
(* Who may call the hub: API keys, tenants and roles in the database       *)
(* (routers/auth.py, routers/tenants.py, db/crud.py), and the middleware   *)
(* every request crosses (server/auth.py): identity, the key's lookup and  *)
(* its scopes, the rate limit, and the audit row written after the handler.*)
(*                                                                         *)
(* A request is split at its awaits, so that a key or a tenant may go      *)
(* between any two of its steps.  One process: its caches and rate-limit   *)
(* windows die with it.                                                    *)
(***************************************************************************)
EXTENDS Integers, FiniteSets, SequencesExt

CONSTANTS Keys, Tenants, Slots, NoOne,
          ModelIds, ModuleIds,  \* what the scopes of a key may name
          Prefix,         \* [Keys -> prefixes]: four hex digits, so two keys
                          \* may have the same one
          BootPrefix,     \* "bootstrap:" and the client's address
          BootLimit,      \* _BOOTSTRAP_QPS
          Modes,          \* settings: "off", "keys", "gateway", "identity"
          Databases,      \* what the tables may hold at the start
          Calls,          \* [Modes -> the requests clients may send]
          HashMax, HashEvict,  \* _HASH_CACHE_MAX, and a quarter of it
          Window, EvictAt,     \* _window_seconds, _EVICT_THRESHOLD
          TouchEvery,     \* _LAST_USED_THROTTLE_SECONDS
          MaxTime, MaxCalls    \* bounds of the clock and of the requests

OneOf(S)  == S \cup {NoOne}
NamesTenant == {"create_tenant", "delete_tenant", "create_role", "delete_role"}
Kinds     == NamesTenant \cup {"", "create_key", "list_keys", "deactivate", "delete_key",
                               "create_model", "read", "delete_audit"}
\* those of keys, and those a token may carry
Roles     == {"", "admin", "developer", "viewer", "tenant_admin", "member", "other"}
Bodies    == [role : Roles, tenant : OneOf(Tenants), limit : Nat,
              models : SUBSET ModelIds, modules : SUBSET ModuleIds]
\* by and hdr, histories: the key it was made with, and the tenant that request
\* named in X-Fusion-Tenant
KeyRows   == [st : {"unused", "active", "inactive", "gone"}, by : OneOf(Keys),
              hdr : OneOf(Tenants), body : Bodies]
CallType  == [cred : OneOf(Keys), kind : Kinds, key : OneOf(Keys), tenant : OneOf(Tenants),
              body : Bodies, model : ModelIds \cup {"none", "collection"},
              module : ModuleIds \cup {""}, hdr : OneOf(Tenants), route : BOOLEAN,
              shell : BOOLEAN, jwt : OneOf(Tenants), jrole : Roles]

\* The keys an admin made for a tenant are keys of that tenant: of the one that
\* the request named, or else of the admin's own.
Pinned(table) ==
  \A k \in Keys :
    LET maker  == table[k].by
        tenant == IF table[k].hdr # NoOne THEN table[k].hdr ELSE table[maker].body.tenant
    IN maker # NoOne /\ table[maker].body.role = "admin" /\ tenant # NoOne
         => table[k].body.tenant = tenant

RowsOf(table)  == {k \in Keys : table[k].st \in {"active", "inactive"}}
NamedBy(table) == {table[k].body.tenant : k \in RowsOf(table)} \ {NoOne}

\* what an earlier process left in the tables
LeftBehind(d) ==
  /\ d.keys \in [Keys -> KeyRows] /\ d.tenants \subseteq Tenants
  /\ NamedBy(d.keys) \subseteq d.tenants
  /\ \A k \in Keys : d.keys[k].by # NoOne => d.keys[d.keys[k].by].st # "unused"
  /\ Modes \cap {"keys", "gateway"} # {} => Pinned(d.keys)

ASSUME AccessAssumption ==
  /\ {BootLimit, HashMax, HashEvict, Window, EvictAt, TouchEvery, MaxTime, MaxCalls} \subseteq Nat
  /\ Window > 0 /\ HashEvict \in 1..HashMax
  /\ NoOne \notin Keys \cup Tenants
  /\ \A d \in Databases : LeftBehind(d)
  /\ Calls \in [Modes -> SUBSET CallType]
  /\ \A m \in Modes : \A c \in Calls[m] : c.kind \in NamesTenant => c.tenant \in Tenants

VARIABLES mode,     \* how this process was configured
          keys,     \* the api_keys table; "gone" rows are deleted ones
          tenants,  \* the ids in the tenants table
          roles, models, audits,  \* the tenants a row of these tables names
          hashed,   \* _HASH_CACHE: raw keys, oldest first
          touched,  \* _last_used_cache
          buckets, lastEvict,     \* rate_limit._buckets, _last_evict_check
          req,      \* the request in each slot
          now, calls,
          passed    \* history: when each key passed its limit, in order

db   == <<keys, tenants, roles, models, audits>>
mem  == <<hashed, touched, buckets, lastEvict, passed>>
env  == <<mode, now, calls>>
vars == <<db, mem, env, req>>

Times    == 0..MaxTime
BucketNames == {Prefix[k] : k \in Keys} \cup {BootPrefix}
NoBody   == [role |-> "", tenant |-> NoOne, limit |-> 0, models |-> {}, modules |-> {}]
NoKeyRow == [st |-> "unused", by |-> NoOne, hdr |-> NoOne, body |-> NoBody]
NoCall   == [cred |-> NoOne, kind |-> "", key |-> NoOne, tenant |-> NoOne,
             body |-> NoBody, model |-> "none", module |-> "", hdr |-> NoOne,
             route |-> FALSE, shell |-> FALSE, jwt |-> NoOne, jrole |-> ""]
\* tenant and role: request.state; late: the key was no longer active when
\* the request arrived
Idle == [pc |-> "idle", call |-> NoCall, tenant |-> NoOne, role |-> "", late |-> FALSE]

Active == {k \in Keys : keys[k].st = "active"}
Rows   == RowsOf(keys)

Steps == {"idle", "hash", "verify", "touch", "handler", "keys", "drop", "commit", "refresh", "audit"}
Sent  == {c \in CallType : c = NoCall \/ \E m \in Modes : c \in Calls[m]}
Requests == [pc : Steps, call : Sent, tenant : OneOf(Tenants), role : Roles, late : BOOLEAN]

TypeOK ==
  /\ mode \in Modes
  /\ keys \in [Keys -> KeyRows]
  /\ tenants \subseteq Tenants
  /\ roles \cup models \cup audits \subseteq Tenants
  /\ hashed \in Seq(Keys) /\ Len(hashed) <= HashMax /\ IsInjective(hashed)
  /\ touched \in [Keys -> Times \cup {-TouchEvery}]
  /\ DOMAIN buckets \subseteq BucketNames /\ buckets \in [DOMAIN buckets -> Seq(Times)]
  /\ lastEvict \in Times \cup {-Window}
  /\ req \in [Slots -> Requests]
  /\ \A s \in Slots : req[s].pc \in {"hash", "verify", "touch", "audit"} => req[s].call.cred \in Keys
  /\ passed \in [Keys -> Seq(Times)]
  /\ now \in Times /\ calls \in 0..MaxCalls

Untouched == [k \in Keys |-> -TouchEvery]
NoPasses  == [k \in Keys |-> <<>>]
NoBuckets == [p \in {} |-> <<>>]

Init ==
  /\ mode \in Modes
  /\ \E d \in Databases : keys = d.keys /\ tenants = d.tenants
  /\ roles = {} /\ models = {} /\ audits = {}
  /\ hashed = <<>> /\ touched = Untouched
  /\ buckets = NoBuckets /\ lastEvict = -Window
  /\ req = [s \in Slots |-> Idle]
  /\ passed = NoPasses
  /\ now = 0 /\ calls = 0
-----------------------------------------------------------------------------
(* rate_limit.py *)

\* the buckets once those without a recent entry are evicted, which happens at
\* most once per window unless there are many
Swept ==
  IF Cardinality(DOMAIN buckets) < EvictAt /\ now - lastEvict < Window THEN buckets
  ELSE LET live == {p \in DOMAIN buckets :
                      /\ buckets[p] # <<>>
                      /\ buckets[p][Len(buckets[p])] > now - Window}
       IN [p \in live |-> buckets[p]]

SweptAt ==
  IF Cardinality(DOMAIN buckets) < EvictAt /\ now - lastEvict < Window THEN lastEvict ELSE now

\* A bucket is in the order of time: its recent entries are its last ones.
Fresh(bucket)  == {i \in DOMAIN bucket : bucket[i] > now - Window}
Latest(bucket) == SubSeq(bucket, Len(bucket) - Cardinality(Fresh(bucket)) + 1, Len(bucket))

Recent(p) == IF p \in DOMAIN Swept THEN Latest(Swept[p]) ELSE <<>>

UnderLimit(p, limit) == limit = 0 \/ Len(Recent(p)) < limit

CountCall(p, limit) ==
  IF limit = 0 THEN UNCHANGED <<buckets, lastEvict>>
  ELSE /\ buckets' = [q \in DOMAIN Swept \cup {p} |->
                        IF q # p THEN Swept[q]
                        ELSE IF UnderLimit(p, limit) THEN Append(Recent(p), now) ELSE Recent(p)]
       /\ lastEvict' = SweptAt
-----------------------------------------------------------------------------
(* The middleware *)

Method(kind) ==
  CASE kind \in {"delete_key", "delete_tenant", "delete_role", "delete_audit"} -> "DELETE"
    [] kind = "read" -> "GET"
    [] OTHER -> "POST"

\* Only /auth/keys itself, not what is below it; health and docs change nothing.
PublicPath(kind) == kind \in {"create_key", "list_keys"}

RoleAllows(role, kind) ==
  \/ role = "admin"
  \/ role = "developer" /\ Method(kind) # "DELETE"
  \/ role = "viewer" /\ Method(kind) = "GET"

CollectionOp(c) == c.model = "collection"

ModelAllows(body, c) ==
  \/ body.models = {}
  \/ ~CollectionOp(c) /\ c.model \in body.models \cup {"none"}

ModuleAllows(body, c) == body.modules = {} \/ c.module \in body.modules

\* Identity: the token's tenant; a local key must belong to it.
SameTenant(r, body) ==
  mode = "identity" /\ r.tenant # NoOne /\ body.tenant # NoOne => r.tenant = body.tenant

Goto(s, r, pc) == req' = [req EXCEPT ![s] = [r EXCEPT !.pc = pc]]
Refuse(s)      == req' = [req EXCEPT ![s] = Idle]
\* the handler has answered: requests with a key leave an audit row
Finish(s) == IF req[s].call.cred \in Keys THEN Goto(s, req[s], "audit") ELSE Refuse(s)

TidOf(c)  == IF mode = "identity" THEN c.jwt ELSE NoOne
RoleOf(c) == IF mode = "identity" THEN c.jrole ELSE ""

NotFromGateway(c) == mode = "gateway" /\ ~PublicPath(c.kind) /\ ~c.route

\* A console behind the gateway's proxy presents the key the gateway issued;
\* it may read.
FromShell(c) == mode \in {"keys", "gateway"} /\ c.shell /\ ~PublicPath(c.kind)

Keyless(s, r) ==
  \/ /\ mode = "identity" \/ PublicPath(r.call.kind) \/ mode = "off"
     /\ Goto(s, r, "handler")
  \/ /\ FromShell(r.call) /\ Method(r.call.kind) = "GET"
     /\ Goto(s, [r EXCEPT !.role = "viewer"], "handler")
  \/ /\ mode \notin {"identity", "off"} /\ ~PublicPath(r.call.kind)
     /\ ~(FromShell(r.call) /\ Method(r.call.kind) = "GET")
     /\ Refuse(s)

\* Up to the first await.  A hash that is cached needs no worker thread.
Arrive(s) ==
  /\ req[s].pc = "idle" /\ calls < MaxCalls
  /\ calls' = calls + 1
  /\ \E c \in Calls[mode] :
       LET r == [pc |-> "idle", call |-> c, tenant |-> TidOf(c), role |-> RoleOf(c),
                 late |-> c.cred \in Keys \ Active]
       IN /\ c.cred \in Keys => keys[c.cred].st # "unused"
          /\ \/ (c.kind = "delete_audit" \/ NotFromGateway(c)) /\ Refuse(s)
             \/ /\ c.kind # "delete_audit" /\ ~NotFromGateway(c)
                /\ \/ c.cred = NoOne /\ Keyless(s, r)
                   \/ c.cred \in Keys /\ Goto(s, r, IF c.cred \in ToSet(hashed) THEN "verify" ELSE "hash")
  /\ UNCHANGED <<db, mem, mode, now>>

\* The key derivation returns from its thread; a full cache drops its oldest
\* quarter.
HashDone(s) ==
  /\ req[s].pc = "hash"
  /\ LET k    == req[s].call.cred
         kept == IF Len(hashed) >= HashMax
                 THEN SubSeq(hashed, HashEvict + 1, Len(hashed)) ELSE hashed
     IN hashed' = IF k \in ToSet(kept) THEN kept ELSE Append(kept, k)
  /\ Goto(s, req[s], "verify")
  /\ UNCHANGED <<db, env, touched, buckets, lastEvict, passed>>

VerifiableIfCached == Active \cup (Rows \cap ToSet(hashed))

\* the rows verify_api_key can return
Verifiable == Active

\* request.state.tenant_id and user_role for the handler
StampTenant(r, body) ==
  IF mode = "identity" THEN IF r.tenant = NoOne THEN body.tenant ELSE r.tenant
  ELSE IF r.call.hdr # NoOne THEN r.call.hdr ELSE body.tenant

StampRole(r, body) == IF mode = "identity" /\ r.role # "" THEN r.role ELSE body.role

Stamp(r, body) ==
  [pc |-> r.pc, call |-> r.call, tenant |-> StampTenant(r, body), role |-> StampRole(r, body),
   late |-> r.late]

Throttle(s) ==
  LET r    == req[s]
      k    == r.call.cred
      body == keys[k].body
  IN /\ CountCall(Prefix[k], body.limit)
     /\ IF UnderLimit(Prefix[k], body.limit)
        THEN /\ Goto(s, Stamp(r, body), "handler")
             /\ passed' = IF body.limit = 0 THEN passed ELSE [passed EXCEPT ![k] = Append(@, now)]
        ELSE Refuse(s) /\ UNCHANGED passed

Allowed(r, body) ==
  /\ SameTenant(r, body)
  /\ Method(r.call.kind) # "GET" => RoleAllows(body.role, r.call.kind)
  /\ ModelAllows(body, r.call)
  /\ ModuleAllows(body, r.call)

TouchDue(k) == now - touched[k] >= TouchEvery

\* The row is read once; its scopes are checked on that copy.
Verify(s) ==
  /\ req[s].pc = "verify"
  /\ LET k == req[s].call.cred
     IN \/ /\ k \notin Verifiable \/ ~Allowed(req[s], keys[k].body)
           /\ Refuse(s)
           /\ UNCHANGED mem
        \/ /\ k \in Verifiable /\ Allowed(req[s], keys[k].body)
           /\ \/ /\ TouchDue(k)
                 /\ touched' = [touched EXCEPT ![k] = now]
                 /\ Goto(s, req[s], "touch")
                 /\ UNCHANGED <<buckets, lastEvict, passed>>
              \/ ~TouchDue(k) /\ Throttle(s) /\ UNCHANGED touched
           /\ UNCHANGED hashed
  /\ UNCHANGED <<db, env>>

\* last_used_at is written, or there is no row any more; if the write fails,
\* the rollback expires the loaded key and reading it raises.
Touch(s) ==
  /\ req[s].pc = "touch"
  /\ \/ Throttle(s)
     \/ Refuse(s) /\ UNCHANGED <<buckets, lastEvict, passed>>
  /\ UNCHANGED <<db, env, hashed, touched>>
-----------------------------------------------------------------------------
(* Handlers: API keys *)

Kind(s) == req[s].call.kind

\* token roles on the local ladder
CallerRole(role) ==
  CASE role = "tenant_admin" -> "admin"
    [] role = "member" -> "viewer"
    [] OTHER -> role

\* The first key needs no caller: only the address is limited, and a bootstrap
\* token may be asked for.
CreateKey(s) ==
  /\ req[s].pc = "handler" /\ Kind(s) = "create_key"
  /\ \/ /\ mode # "off" /\ Active = {}
        /\ CountCall(BootPrefix, BootLimit)
        /\ \/ UnderLimit(BootPrefix, BootLimit) /\ Goto(s, req[s], "commit")
           \/ Finish(s)
     \/ /\ mode # "off" /\ Active # {} /\ CallerRole(req[s].role) # "admin"
        /\ Finish(s)
        /\ UNCHANGED <<buckets, lastEvict>>
     \/ /\ mode = "off" \/ (Active # {} /\ CallerRole(req[s].role) = "admin")
        /\ Goto(s, req[s], "commit")
        /\ UNCHANGED <<buckets, lastEvict>>
  /\ UNCHANGED <<db, env, hashed, touched, passed>>

\* A tenanted admin's key goes to its own tenant.
TenantRefused(r) ==
  /\ mode # "off" /\ CallerRole(r.role) = "admin" /\ r.tenant # NoOne
  /\ r.call.body.tenant \notin {NoOne, r.tenant}

TenantFor(r) ==
  IF mode = "off" THEN r.call.body.tenant
  ELSE IF CallerRole(r.role) # "admin" THEN NoOne
  ELSE IF r.tenant = NoOne THEN r.call.body.tenant
  ELSE r.tenant

\* foreign keys: a row may name no tenant or one that is there
MayName(t) == t \in tenants \cup {NoOne}

NewKey(r) ==
  [st |-> "active", by |-> r.call.cred, hdr |-> r.call.hdr,
   body |-> [role |-> r.call.body.role, tenant |-> TenantFor(r), limit |-> r.call.body.limit,
             models |-> r.call.body.models, modules |-> r.call.body.modules]]

InsertKey(s) ==
  /\ req[s].pc = "commit" /\ Kind(s) = "create_key"
  /\ LET r == req[s]
     IN \/ TenantRefused(r) /\ Finish(s) /\ UNCHANGED keys
        \/ /\ ~TenantRefused(r) /\ ~MayName(TenantFor(r))
           /\ Refuse(s) /\ UNCHANGED keys
        \/ /\ ~TenantRefused(r) /\ MayName(TenantFor(r))
           /\ \E k \in Keys :
                /\ keys[k].st = "unused"
                /\ keys' = [keys EXCEPT ![k] = NewKey(r)]
           /\ Finish(s)
  /\ UNCHANGED <<tenants, roles, models, audits, mem, env>>

\* deactivate and delete look the row up first; neither asks for a tenant
FindKey(s) ==
  /\ req[s].pc = "handler" /\ Kind(s) \in {"deactivate", "delete_key"}
  /\ IF req[s].call.key \in Rows THEN Goto(s, req[s], "commit") ELSE Finish(s)
  /\ UNCHANGED <<db, mem, env>>

\* A row that has gone in between makes the flush fail.
Deactivate(s) ==
  /\ req[s].pc = "commit" /\ Kind(s) = "deactivate"
  /\ LET k == req[s].call.key
     IN IF k \in Rows
        THEN keys' = [keys EXCEPT ![k].st = "inactive"] /\ Goto(s, req[s], "refresh")
        ELSE UNCHANGED keys /\ Refuse(s)
  /\ UNCHANGED <<tenants, roles, models, audits, mem, env>>

InvalidateHashes == hashed' = <<>>

\* The row is read back before the cached hashes are dropped.
Refreshed(s) ==
  /\ req[s].pc = "refresh"
  /\ IF req[s].call.key \in Rows
     THEN InvalidateHashes /\ Finish(s)
     ELSE UNCHANGED hashed /\ Refuse(s)
  /\ UNCHANGED <<db, env, touched, buckets, lastEvict, passed>>

\* Deleting a row that has gone is no error.
DeleteKey(s) ==
  /\ req[s].pc = "commit" /\ Kind(s) = "delete_key"
  /\ keys' = [keys EXCEPT ![req[s].call.key].st = "gone"]
  /\ InvalidateHashes
  /\ Finish(s)
  /\ UNCHANGED <<tenants, roles, models, audits, touched, buckets, lastEvict, passed, env>>
-----------------------------------------------------------------------------
(* Handlers: tenants, their roles and models *)

TenantAdmin(r) == mode = "off" \/ r.role = "admin"

\* names are unique: the tenant's id stands for its name
CreateTenant(s) ==
  /\ req[s].pc = "handler" /\ Kind(s) = "create_tenant"
  /\ IF TenantAdmin(req[s]) /\ req[s].call.tenant \notin tenants
     THEN Goto(s, req[s], "commit") ELSE Finish(s)
  /\ UNCHANGED <<db, mem, env>>

InsertTenant(s) ==
  /\ req[s].pc = "commit" /\ Kind(s) = "create_tenant"
  /\ IF req[s].call.tenant \in tenants THEN Refuse(s) ELSE Finish(s)
  /\ tenants' = tenants \cup {req[s].call.tenant}
  /\ UNCHANGED <<keys, roles, models, audits, mem, env>>

\* Models are counted, then active keys, then the row is deleted: three awaits.
CountModels(s) ==
  /\ req[s].pc = "handler" /\ Kind(s) = "delete_tenant"
  /\ IF TenantAdmin(req[s]) /\ req[s].call.tenant \notin models
     THEN Goto(s, req[s], "keys") ELSE Finish(s)
  /\ UNCHANGED <<db, mem, env>>

CountKeys(s) ==
  /\ req[s].pc = "keys"
  /\ IF \E k \in Active : keys[k].body.tenant = req[s].call.tenant
     THEN Finish(s) ELSE Goto(s, req[s], "drop")
  /\ UNCHANGED <<db, mem, env>>

CountedOnly(t) == t \in models \cup {keys[k].body.tenant : k \in Active}

\* rows of other tables that name the tenant; inactive keys count too
Referenced(t) ==
  t \in roles \cup models \cup audits \cup {keys[k].body.tenant : k \in Rows}

DropTenant(s) ==
  /\ req[s].pc = "drop"
  /\ LET t == req[s].call.tenant
     IN \/ t \notin tenants /\ Finish(s) /\ UNCHANGED tenants
        \/ t \in tenants /\ Referenced(t) /\ Refuse(s) /\ UNCHANGED tenants
        \/ t \in tenants /\ ~Referenced(t) /\ Finish(s) /\ tenants' = tenants \ {t}
  /\ UNCHANGED <<keys, roles, models, audits, mem, env>>

FindTenant(s) ==
  /\ req[s].pc = "handler" /\ Kind(s) \in {"create_role", "delete_role"}
  /\ IF /\ TenantAdmin(req[s])
        /\ req[s].call.tenant \in (IF Kind(s) = "create_role" THEN tenants ELSE roles)
     THEN Goto(s, req[s], "commit") ELSE Finish(s)
  /\ UNCHANGED <<db, mem, env>>

InsertRole(s) ==
  /\ req[s].pc = "commit" /\ Kind(s) = "create_role"
  /\ IF MayName(req[s].call.tenant)
     THEN roles' = roles \cup {req[s].call.tenant} /\ Finish(s)
     ELSE UNCHANGED roles /\ Refuse(s)
  /\ UNCHANGED <<keys, tenants, models, audits, mem, env>>

DeleteRole(s) ==
  /\ req[s].pc = "commit" /\ Kind(s) = "delete_role"
  /\ roles' = roles \ {req[s].call.tenant}
  /\ Finish(s)
  /\ UNCHANGED <<keys, tenants, models, audits, mem, env>>

\* A model is created under the tenant the middleware stamped.
CreateModel(s) ==
  /\ req[s].pc = "handler" /\ Kind(s) = "create_model"
  /\ IF MayName(req[s].tenant)
     THEN models' = models \cup ({req[s].tenant} \ {NoOne}) /\ Finish(s)
     ELSE UNCHANGED models /\ Refuse(s)
  /\ UNCHANGED <<keys, tenants, roles, audits, mem, env>>

Read(s) ==
  /\ req[s].pc = "handler" /\ Kind(s) \in {"read", "list_keys"}
  /\ Finish(s)
  /\ UNCHANGED <<db, mem, env>>

\* Its own session: a row that cannot be written is logged as lost.
Audit(s) ==
  /\ req[s].pc = "audit"
  /\ audits' = IF MayName(req[s].tenant) THEN audits \cup ({req[s].tenant} \ {NoOne}) ELSE audits
  /\ Refuse(s)
  /\ UNCHANGED <<keys, tenants, roles, models, mem, env>>
-----------------------------------------------------------------------------
Tick ==
  /\ now < MaxTime
  /\ now' = now + 1
  /\ UNCHANGED <<db, mem, mode, calls, req>>

Restart ==
  /\ InvalidateHashes /\ touched' = Untouched
  /\ buckets' = NoBuckets /\ lastEvict' = -Window
  /\ req' = [s \in Slots |-> Idle]
  /\ passed' = NoPasses
  /\ UNCHANGED <<db, env>>

Handle(s) ==
  \/ CreateKey(s) \/ InsertKey(s) \/ FindKey(s) \/ Deactivate(s) \/ Refreshed(s)
  \/ DeleteKey(s) \/ CreateTenant(s) \/ InsertTenant(s) \/ CountModels(s)
  \/ CountKeys(s) \/ DropTenant(s) \/ FindTenant(s) \/ InsertRole(s)
  \/ DeleteRole(s) \/ CreateModel(s) \/ Read(s)

Next ==
  \/ \E s \in Slots : Arrive(s) \/ HashDone(s) \/ Verify(s) \/ Touch(s) \/ Handle(s) \/ Audit(s)
  \/ Tick \/ Restart

Spec == Init /\ [][Next]_vars
-----------------------------------------------------------------------------
\* A request that arrives when its key has been deactivated or deleted never
\* gets past the lookup, whatever _HASH_CACHE still holds and whoever is
\* clearing it (verify_api_key, deactivate_api_key, delete_api_key).
RevocationHolds == \A s \in Slots : req[s].late => req[s].pc \in {"idle", "hash", "verify"}

\* In no window does a key pass its limit more often than the limit allows:
\* one pass more takes at least a window, although buckets are evicted, and shared by keys with the same prefix
\* (rate_limit.check_rate_limit; for the lifetime of one process).
RateBound ==
  \A k \in Keys :
    LET limit == keys[k].body.limit
    IN limit > 0 => \A i \in 1..Len(passed[k]) - limit :
                      passed[k][i + limit] - passed[k][i] >= Window

\* Both hold, and every variable keeps its type.
AdmissionTrue == TypeOK /\ RevocationHolds /\ RateBound

\* No row names a tenant that is not there: not when a key, a role or a model
\* is created between the counts of delete_tenant and its delete, nor when an
\* audit row of a tenant is written late (routers/tenants.py delete_tenant).
TenantRefs == roles \cup models \cup audits \cup NamedBy(keys) \subseteq tenants

\* Where keys decide who calls, an admin's request makes keys of one tenant only:
\* the one of its key, through any chain of keys, unless it names another in the
\* header that is the gateway's to set (routers/auth.py create_key, server/auth.py).
TenantPinned == mode \in {"keys", "gateway"} => Pinned(keys)

TenantsTrue == TenantRefs /\ TenantPinned
=============================================================================
