---------------------------- MODULE AccessProofs ----------------------------
(***************************************************************************)
(* Proofs about Access, for any number of keys, tenants and requests.      *)
(***************************************************************************)
EXTENDS Access, SequenceTheorems, FiniteSetTheorems, TLAPS

----------------------------------------------------------------------------
(* Constants and requests *)

LEMMA ConstantTypes ==
  /\ BootLimit \in Nat /\ HashMax \in Nat /\ HashEvict \in 1 .. HashMax
  /\ Window \in Nat /\ Window > 0 /\ EvictAt \in Nat /\ TouchEvery \in Nat
  /\ MaxTime \in Nat /\ MaxCalls \in Nat
  /\ NoOne \notin Keys /\ NoOne \notin Tenants
BY AccessAssumption

\* What clients send is typed, and so is a slot that waits for a request.
LEMMA SentTypes ==
  /\ Sent \subseteq CallType
  /\ \A c \in Sent : c.kind \in NamesTenant => c.tenant \in Tenants
  /\ NoCall \in Sent /\ \A m \in Modes : Calls[m] \subseteq Sent
<1>1. NoBody \in Bodies
  BY DEF NoBody, Bodies, OneOf, Roles
<1>2. NoCall \in CallType
  BY <1>1 DEF NoCall, CallType, OneOf, Roles, Kinds
<1>3. \A m \in Modes : Calls[m] \subseteq CallType
  BY AccessAssumption
<1>4. NoCall.kind \notin NamesTenant
  BY DEF NoCall, NamesTenant
<1>5. \A c \in Sent : c = NoCall \/ \E m \in Modes : c \in Calls[m]
  BY DEF Sent
<1>6. \A c \in Sent : c.kind \in NamesTenant => c.tenant \in Tenants
  <2>1. \A m \in Modes : \A c \in Calls[m] : c.kind \in NamesTenant => c.tenant \in Tenants
    BY AccessAssumption
  <2> QED BY <1>4, <1>5, <2>1
<1>7. Sent \subseteq CallType
  BY DEF Sent
<1>8. \A m \in Modes : Calls[m] \subseteq Sent
  BY <1>3 DEF Sent
<1>9. NoCall \in Sent
  BY <1>2 DEF Sent
<1> QED BY <1>6, <1>7, <1>8, <1>9

\* The fields of a request and of the call it carries.
LEMMA RequestFields ==
  ASSUME NEW r \in Requests
  PROVE  /\ r.pc \in Steps /\ r.call \in Sent /\ r.role \in Roles /\ r.late \in BOOLEAN
         /\ r.tenant \in OneOf(Tenants)
         /\ r.call.cred \in OneOf(Keys) /\ r.call.hdr \in OneOf(Tenants)
         /\ r.call.jwt \in OneOf(Tenants) /\ r.call.jrole \in Roles
         /\ r.call.body \in Bodies
         /\ r.call.kind \in NamesTenant => r.call.tenant \in Tenants
BY SentTypes DEF Requests, CallType

LEMMA IdleRequest == Idle \in Requests /\ Idle.pc = "idle" /\ Idle.late = FALSE /\ Idle.call.cred = NoOne
<1>1. NoCall \in Sent /\ "idle" \in Steps /\ NoOne \in OneOf(Tenants) /\ "" \in Roles
  BY SentTypes DEF Steps, OneOf, Roles
<1>2. NoCall.cred = NoOne
  BY DEF NoCall
<1> QED BY <1>1, <1>2 DEF Idle, Requests

Served == {"handler", "keys", "drop", "commit", "refresh", "audit"}

\* A step of the request in slot s leaves the other slots alone and either
\* frees its own or takes the same request to another place.
Moves(s) ==
  /\ req' \in [Slots -> Requests]
  /\ \A u \in Slots : u # s => req'[u] = req[u]
  /\ \/ req'[s] = Idle
     \/ /\ req'[s].call = req[s].call /\ req'[s].late = req[s].late
        /\ req'[s].pc # "idle"
        /\ req'[s].pc \in {"hash", "verify", "touch", "audit"} => req[s].call.cred \in Keys

Same(s) == req'[s].tenant = req[s].tenant /\ req'[s].role = req[s].role

LEMMA GotoMoves ==
  ASSUME NEW s \in Slots, NEW r \in Requests, NEW pc \in Steps \ {"idle"},
         req \in [Slots -> Requests], Goto(s, r, pc),
         r.call = req[s].call, r.late = req[s].late,
         pc \in {"hash", "verify", "touch", "audit"} => r.call.cred \in Keys
  PROVE  /\ Moves(s)
         /\ req'[s].pc = pc /\ req'[s].tenant = r.tenant /\ req'[s].role = r.role
<1>1. /\ [r EXCEPT !.pc = pc] \in Requests
      /\ [r EXCEPT !.pc = pc].pc = pc /\ [r EXCEPT !.pc = pc].call = r.call
      /\ [r EXCEPT !.pc = pc].late = r.late /\ [r EXCEPT !.pc = pc].tenant = r.tenant
      /\ [r EXCEPT !.pc = pc].role = r.role
  BY DEF Requests
<1>2. req' \in [Slots -> Requests] /\ req'[s] = [r EXCEPT !.pc = pc]
      /\ \A u \in Slots : u # s => req'[u] = req[u]
  BY <1>1 DEF Goto
<1> QED BY <1>1, <1>2 DEF Moves

LEMMA RefuseMoves ==
  ASSUME NEW s \in Slots, req \in [Slots -> Requests], Refuse(s)
  PROVE  Moves(s) /\ req'[s] = Idle
BY IdleRequest DEF Refuse, Moves

LEMMA FinishMoves ==
  ASSUME NEW s \in Slots, req \in [Slots -> Requests], Finish(s)
  PROVE  Moves(s) /\ (req'[s] = Idle \/ (req'[s].pc = "audit" /\ Same(s)))
<1>1. CASE req[s].call.cred \in Keys
  <2>1. req[s] \in Requests /\ "audit" \in Steps \ {"idle"}
    BY DEF Steps
  <2> QED BY <1>1, <2>1, GotoMoves DEF Finish, Same
<1>2. CASE req[s].call.cred \notin Keys
  BY <1>2, RefuseMoves DEF Finish
<1> QED BY <1>1, <1>2

\* A handler, the audit row included, serves a request the middleware let in
\* and keeps the tenant and the role it was stamped with.
Serves(s) ==
  /\ req[s].pc \in Served
  /\ Moves(s)
  /\ req'[s] = Idle \/ (req'[s].pc \in Served /\ Same(s))

LEMMA HandleServes ==
  ASSUME NEW s \in Slots, req \in [Slots -> Requests], Handle(s) \/ Audit(s)
  PROVE  Serves(s)
<1>1. req[s] \in Requests
  OBVIOUS
<1>2. ASSUME NEW pc \in {"commit", "keys", "drop", "refresh"}, Goto(s, req[s], pc)
      PROVE  Moves(s) /\ req'[s].pc \in Served /\ Same(s)
  <2>1. pc \in Steps \ {"idle"} /\ pc \notin {"hash", "verify", "touch", "audit"} /\ pc \in Served
    BY DEF Steps, Served
  <2>2. Moves(s) /\ req'[s].pc = pc /\ Same(s)
    BY <1>1, <1>2, <2>1, GotoMoves DEF Same
  <2> QED BY <2>1, <2>2
<1>3. Refuse(s) => Moves(s) /\ req'[s] = Idle
  BY RefuseMoves
<1>4. Finish(s) => Moves(s) /\ (req'[s] = Idle \/ (req'[s].pc \in Served /\ Same(s)))
  BY FinishMoves DEF Served
<1> DEFINE Out == \/ \E pc \in {"commit", "keys", "drop", "refresh"} : Goto(s, req[s], pc)
                  \/ Refuse(s)
                  \/ Finish(s)
<1>5. Out => Moves(s) /\ (req'[s] = Idle \/ (req'[s].pc \in Served /\ Same(s)))
  BY <1>2, <1>3, <1>4
<1>6. req[s].pc \in Served /\ Out
  <2>1. CASE CreateKey(s)
    BY <2>1 DEF CreateKey, Served
  <2>2. CASE InsertKey(s)
    BY <2>2 DEF InsertKey, Served
  <2>3. CASE FindKey(s)
    BY <2>3 DEF FindKey, Served
  <2>4. CASE Deactivate(s)
    BY <2>4 DEF Deactivate, Served
  <2>5. CASE Refreshed(s)
    BY <2>5 DEF Refreshed, Served
  <2>6. CASE DeleteKey(s)
    BY <2>6 DEF DeleteKey, Served
  <2>7. CASE CreateTenant(s)
    BY <2>7 DEF CreateTenant, Served
  <2>8. CASE InsertTenant(s)
    BY <2>8 DEF InsertTenant, Served
  <2>9. CASE CountModels(s)
    BY <2>9 DEF CountModels, Served
  <2>10. CASE CountKeys(s)
    BY <2>10 DEF CountKeys, Served
  <2>11. CASE DropTenant(s)
    BY <2>11 DEF DropTenant, Served
  <2>12. CASE FindTenant(s)
    BY <2>12 DEF FindTenant, Served
  <2>13. CASE InsertRole(s)
    BY <2>13 DEF InsertRole, Served
  <2>14. CASE DeleteRole(s)
    BY <2>14 DEF DeleteRole, Served
  <2>15. CASE CreateModel(s)
    BY <2>15 DEF CreateModel, Served
  <2>16. CASE Read(s)
    BY <2>16 DEF Read, Served
  <2>17. CASE Audit(s)
    BY <2>17 DEF Audit, Served
  <2> QED BY <2>1, <2>2, <2>3, <2>4, <2>5, <2>6, <2>7, <2>8, <2>9, <2>10, <2>11, <2>12,
              <2>13, <2>14, <2>15, <2>16, <2>17 DEF Handle
<1> HIDE DEF Out
<1> QED BY <1>5, <1>6 DEF Serves
----------------------------------------------------------------------------
(* The middleware *)

\* A request is taken up: one with a key goes to the lookup, and it is late if
\* the key is not active; one without goes to its handler or is refused.
Arrives(s) ==
  /\ req' \in [Slots -> Requests]
  /\ \A u \in Slots : u # s => req'[u] = req[u]
  /\ \/ req'[s] = Idle
     \/ /\ req'[s].call \in Calls[mode]
        /\ req'[s].call.cred = NoOne /\ req'[s].late = FALSE
        /\ req'[s].pc = "handler"
     \/ /\ req'[s].call \in Calls[mode]
        /\ req'[s].call.cred \in Keys /\ keys[req'[s].call.cred].st # "unused"
        /\ req'[s].late = (req'[s].call.cred \notin Active)
        /\ req'[s].pc \in {"hash", "verify"}

LEMMA ArriveArrives ==
  ASSUME NEW s \in Slots, TypeOK, Arrive(s)
  PROVE  Arrives(s)
<1>1. req \in [Slots -> Requests] /\ mode \in Modes
  BY DEF TypeOK
<1>2. PICK c \in Calls[mode] :
        LET r == [pc |-> "idle", call |-> c, tenant |-> TidOf(c), role |-> RoleOf(c),
                  late |-> c.cred \in Keys \ Active]
        IN /\ c.cred \in Keys => keys[c.cred].st # "unused"
           /\ \/ (c.kind = "delete_audit" \/ NotFromGateway(c)) /\ Refuse(s)
              \/ /\ c.kind # "delete_audit" /\ ~NotFromGateway(c)
                 /\ \/ c.cred = NoOne /\ Keyless(s, r)
                    \/ c.cred \in Keys /\ Goto(s, r, IF c.cred \in ToSet(hashed) THEN "verify" ELSE "hash")
  BY DEF Arrive
<1> DEFINE r == [pc |-> "idle", call |-> c, tenant |-> TidOf(c), role |-> RoleOf(c),
                 late |-> c.cred \in Keys \ Active]
           v == [r EXCEPT !.role = "viewer"]
<1>3. c \in Sent /\ c \in CallType
  BY <1>1, SentTypes
<1>4. TidOf(c) \in OneOf(Tenants) /\ RoleOf(c) \in Roles
  BY <1>3 DEF TidOf, RoleOf, CallType, OneOf, Roles
<1>5. r \in Requests /\ "idle" \in Steps
  BY <1>3, <1>4 DEF Requests, Steps
<1>6. v \in Requests /\ v.call = c /\ v.late = r.late
  BY <1>5 DEF Requests, Roles
<1>7. r.call = c /\ (r.late = (c.cred \in Keys \ Active))
  OBVIOUS
<1>8. ASSUME NEW x \in Requests, NEW pc \in {"hash", "verify", "handler"}, Goto(s, x, pc)
      PROVE  /\ req' \in [Slots -> Requests]
             /\ \A u \in Slots : u # s => req'[u] = req[u]
             /\ req'[s].pc = pc /\ req'[s].call = x.call /\ req'[s].late = x.late
  <2>1. pc \in Steps
    BY DEF Steps
  <2>2. [x EXCEPT !.pc = pc] \in Requests /\ [x EXCEPT !.pc = pc].pc = pc
        /\ [x EXCEPT !.pc = pc].call = x.call /\ [x EXCEPT !.pc = pc].late = x.late
    BY <2>1 DEF Requests
  <2> QED BY <1>1, <1>8, <2>2 DEF Goto
<1>9. CASE Refuse(s)
  BY <1>1, <1>9, RefuseMoves DEF Arrives, Moves
<1>10. CASE c.cred = NoOne /\ Keyless(s, r)
  <2>1. Refuse(s) \/ Goto(s, r, "handler") \/ Goto(s, v, "handler")
    BY <1>10 DEF Keyless
  <2>2. r.late = FALSE
    <3>1. c.cred \notin Keys
      BY <1>10, ConstantTypes
    <3>2. (c.cred \in Keys \ Active) = FALSE
      BY <3>1
    <3> QED BY <3>2
  <2> HIDE DEF r, v
  <2> QED BY <1>5, <1>6, <1>7, <1>8, <1>9, <1>10, <2>1, <2>2 DEF Arrives
<1>11. CASE c.cred \in Keys /\ Goto(s, r, IF c.cred \in ToSet(hashed) THEN "verify" ELSE "hash")
  <2>1. PICK pc \in {"hash", "verify"} : Goto(s, r, pc)
    BY <1>11
  <2>2. r.late = (c.cred \notin Active)
    BY <1>7, <1>11
  <2>3. keys[c.cred].st # "unused"
    BY <1>2, <1>11
  <2> HIDE DEF r
  <2> QED BY <1>5, <1>7, <1>8, <1>11, <2>1, <2>2, <2>3 DEF Arrives
<1> QED BY <1>2, <1>9, <1>10, <1>11

\* The key's rate limit is the last thing before the handler.
Admits(s) ==
  /\ req[s].pc \in {"verify", "touch"} /\ req[s].call.cred \in Keys
  /\ req[s].pc = "verify" => req[s].call.cred \in Active
  /\ Moves(s)
  /\ LET body == keys[req[s].call.cred].body
     IN \/ req'[s] = Idle
        \/ /\ req'[s].pc = "handler"
           /\ req'[s].tenant = StampTenant(req[s], body)
           /\ req'[s].role = StampRole(req[s], body)

LEMMA ThrottleAdmits ==
  ASSUME NEW s \in Slots, TypeOK, Throttle(s), req[s].pc \in {"verify", "touch"},
         req[s].pc = "verify" => req[s].call.cred \in Active
  PROVE  Admits(s)
<1> DEFINE k    == req[s].call.cred
           body == keys[k].body
           r    == Stamp(req[s], body)
<1>1. req \in [Slots -> Requests] /\ k \in Keys /\ body \in Bodies
  BY DEF TypeOK, KeyRows
<1>2. req[s] \in Requests /\ req[s].tenant \in OneOf(Tenants) /\ req[s].role \in Roles
      /\ req[s].call.hdr \in OneOf(Tenants) /\ body.tenant \in OneOf(Tenants)
      /\ body.role \in Roles
  BY <1>1, RequestFields DEF Bodies
<1>3. StampTenant(req[s], body) \in OneOf(Tenants)
  BY <1>2 DEF StampTenant
<1>4. StampRole(req[s], body) \in Roles
  BY <1>2 DEF StampRole
<1>5. r \in Requests
  BY <1>2, <1>3, <1>4 DEF Stamp, Requests
<1>6. r.call = req[s].call /\ r.late = req[s].late
      /\ r.tenant = StampTenant(req[s], body) /\ r.role = StampRole(req[s], body)
  BY DEF Stamp
<1>7. Goto(s, r, "handler") \/ Refuse(s)
  BY DEF Throttle
<1> HIDE DEF r, body
<1>8. CASE Goto(s, r, "handler")
  <2>1. "handler" \in Steps \ {"idle"}
    BY DEF Steps
  <2>2. Moves(s) /\ req'[s].pc = "handler" /\ req'[s].tenant = r.tenant /\ req'[s].role = r.role
    BY <1>1, <1>5, <1>6, <1>8, <2>1, GotoMoves
  <2> QED BY <1>1, <1>6, <2>2 DEF Admits, body
<1>9. CASE Refuse(s)
  BY <1>1, <1>9, RefuseMoves DEF Admits
<1> QED BY <1>7, <1>8, <1>9

\* The steps before: the derived hash, the lookup, the note of the use.
Looks(s) ==
  /\ req[s].pc \in {"hash", "verify"} /\ req[s].call.cred \in Keys
  /\ Moves(s)
  /\ req'[s].pc \in {"idle", "verify", "touch"}
  /\ req'[s].pc = "touch" => req[s].call.cred \in Active

LEMMA HashDoneLooks ==
  ASSUME NEW s \in Slots, TypeOK, HashDone(s)
  PROVE  Looks(s)
<1>1. req \in [Slots -> Requests] /\ req[s].pc = "hash" /\ req[s].call.cred \in Keys
  BY DEF HashDone, TypeOK
<1>2. Goto(s, req[s], "verify") /\ "verify" \in Steps \ {"idle"}
  BY DEF HashDone, Steps
<1>3. Moves(s) /\ req'[s].pc = "verify"
  BY <1>1, <1>2, GotoMoves
<1> QED BY <1>1, <1>3 DEF Looks

LEMMA VerifyLooks ==
  ASSUME NEW s \in Slots, TypeOK, Verify(s)
  PROVE  Looks(s) \/ Admits(s)
<1>1. req \in [Slots -> Requests] /\ req[s].pc = "verify" /\ req[s].call.cred \in Keys
  BY DEF Verify, TypeOK
<1>2. \/ Refuse(s)
      \/ /\ req[s].call.cred \in Active
         /\ Goto(s, req[s], "touch") \/ Throttle(s)
  BY DEF Verify, Verifiable
<1>3. CASE Refuse(s)
  BY <1>1, <1>3, RefuseMoves, IdleRequest DEF Looks
<1>4. CASE req[s].call.cred \in Active /\ Goto(s, req[s], "touch")
  <2>1. "touch" \in Steps \ {"idle"}
    BY DEF Steps
  <2>2. Moves(s) /\ req'[s].pc = "touch"
    BY <1>1, <1>4, <2>1, GotoMoves
  <2> QED BY <1>1, <1>4, <2>2 DEF Looks
<1>5. CASE req[s].call.cred \in Active /\ Throttle(s)
  BY <1>1, <1>5, ThrottleAdmits
<1> QED BY <1>2, <1>3, <1>4, <1>5

LEMMA TouchAdmits ==
  ASSUME NEW s \in Slots, TypeOK, Touch(s)
  PROVE  Admits(s)
<1>1. req \in [Slots -> Requests] /\ req[s].pc = "touch" /\ req[s].call.cred \in Keys
  BY DEF Touch, TypeOK
<1>2. CASE Throttle(s)
  BY <1>1, <1>2, ThrottleAdmits
<1>3. CASE Refuse(s)
  BY <1>1, <1>3, RefuseMoves DEF Admits
<1> QED BY <1>2, <1>3 DEF Touch

----------------------------------------------------------------------------
(* The table of keys *)

\* A row that was made keeps its maker and its body and is never made active
\* again; a row that was not is made by a request, or struck out.
KeysKept ==
  \A k \in Keys : keys[k].st # "unused" =>
    /\ keys'[k].by = keys[k].by /\ keys'[k].body = keys[k].body
    /\ keys'[k].st # "unused"
    /\ keys[k].st \in {"inactive", "gone"} => keys'[k].st \in {"inactive", "gone"}

Struck ==
  \A k \in Keys : /\ keys'[k].by = keys[k].by /\ keys'[k].hdr = keys[k].hdr
                  /\ keys'[k].body = keys[k].body
                  /\ keys'[k].st = keys[k].st \/ keys'[k].st = "gone"
                     \/ (keys'[k].st = "inactive" /\ keys[k].st \in {"active", "inactive"})

Makes(s) ==
  /\ req[s].pc = "commit"
  /\ ~TenantRefused(req[s]) /\ MayName(TenantFor(req[s]))
  /\ \E k \in Keys : keys[k].st = "unused" /\ keys' = [keys EXCEPT ![k] = NewKey(req[s])]

LEMMA NewKeyType ==
  ASSUME NEW r \in Requests, TypeOK
  PROVE  /\ TenantFor(r) \in OneOf(Tenants)
         /\ NewKey(r) \in KeyRows
         /\ NewKey(r).st = "active" /\ NewKey(r).by = r.call.cred
         /\ NewKey(r).hdr = r.call.hdr /\ NewKey(r).body.tenant = TenantFor(r)
<1>1. /\ r.call.cred \in OneOf(Keys) /\ r.call.body \in Bodies
      /\ r.tenant \in OneOf(Tenants) /\ r.call.hdr \in OneOf(Tenants)
  BY RequestFields
<1>2. r.call.body.role \in Roles /\ r.call.body.tenant \in OneOf(Tenants)
      /\ r.call.body.limit \in Nat /\ r.call.body.models \in SUBSET ModelIds
      /\ r.call.body.modules \in SUBSET ModuleIds
  BY <1>1 DEF Bodies
<1>3. TenantFor(r) \in OneOf(Tenants)
  BY <1>1, <1>2 DEF TenantFor, OneOf
<1>4. NewKey(r).body \in Bodies
  BY <1>2, <1>3 DEF NewKey, Bodies
<1>5. NewKey(r) = [st |-> "active", by |-> r.call.cred, hdr |-> r.call.hdr,
                   body |-> NewKey(r).body]
  BY DEF NewKey
<1>6. NewKey(r) \in KeyRows
  BY <1>1, <1>4, <1>5 DEF KeyRows
<1> QED BY <1>3, <1>6 DEF NewKey

LEMMA HandleKeys ==
  ASSUME NEW s \in Slots, TypeOK, Handle(s) \/ Audit(s)
  PROVE  /\ keys' \in [Keys -> KeyRows]
         /\ UNCHANGED keys \/ Struck \/ Makes(s)
<1>1. keys \in [Keys -> KeyRows] /\ req[s] \in Requests
  BY DEF TypeOK
<1>2. CASE UNCHANGED keys
  BY <1>1, <1>2
<1>3. ASSUME NEW k, NEW st \in {"inactive", "gone"}, keys' = [keys EXCEPT ![k].st = st],
             st = "gone" \/ k \in Rows
      PROVE  keys' \in [Keys -> KeyRows] /\ Struck
  <2>1. ASSUME NEW j \in Keys
        PROVE  /\ keys'[j] \in KeyRows
               /\ keys'[j].by = keys[j].by /\ keys'[j].hdr = keys[j].hdr
               /\ keys'[j].body = keys[j].body
               /\ keys'[j].st = IF j = k THEN st ELSE keys[j].st
    <3>1. CASE j # k
      BY <1>1, <1>3, <3>1
    <3>2. CASE j = k
      <4>1. keys'[j] = [keys[j] EXCEPT !.st = st]
        BY <1>1, <1>3, <3>2
      <4>2. keys[j] \in KeyRows
        BY <1>1
      <4> QED BY <3>2, <4>1, <4>2 DEF KeyRows
    <3> QED BY <3>1, <3>2
  <2>2. keys' \in [Keys -> KeyRows]
    BY <1>1, <1>3, <2>1
  <2>3. Struck
    BY <1>3, <2>1 DEF Struck, Rows, RowsOf
  <2> QED BY <2>2, <2>3
<1>4. CASE Deactivate(s)
  <2>1. UNCHANGED keys \/ (req[s].call.key \in Rows
                           /\ keys' = [keys EXCEPT ![req[s].call.key].st = "inactive"])
    BY <1>4 DEF Deactivate
  <2> QED BY <1>2, <1>3, <2>1
<1>5. CASE DeleteKey(s)
  <2>1. keys' = [keys EXCEPT ![req[s].call.key].st = "gone"]
    BY <1>5 DEF DeleteKey
  <2> QED BY <1>3, <2>1
<1>6. CASE InsertKey(s)
  <2>1. UNCHANGED keys \/ Makes(s)
    BY <1>6 DEF InsertKey, Makes
  <2>2. CASE Makes(s)
    <3>1. PICK k \in Keys : keys' = [keys EXCEPT ![k] = NewKey(req[s])]
      BY <2>2 DEF Makes
    <3>2. NewKey(req[s]) \in KeyRows
      BY <1>1, NewKeyType
    <3> QED BY <1>1, <2>2, <3>1, <3>2
  <2> QED BY <1>2, <2>1, <2>2
<1>7. CASE \/ CreateKey(s) \/ FindKey(s) \/ Refreshed(s) \/ CreateTenant(s) \/ InsertTenant(s)
           \/ CountModels(s) \/ CountKeys(s) \/ DropTenant(s) \/ FindTenant(s)
  <2>1. UNCHANGED keys
    BY <1>7 DEF CreateKey, FindKey, Refreshed, CreateTenant, InsertTenant, CountModels,
       CountKeys, DropTenant, FindTenant, db
  <2> QED BY <1>2, <2>1
<1>8. CASE InsertRole(s) \/ DeleteRole(s) \/ CreateModel(s) \/ Read(s) \/ Audit(s)
  <2>1. UNCHANGED keys
    BY <1>8 DEF InsertRole, DeleteRole, CreateModel, Read, Audit, db
  <2> QED BY <1>2, <2>1
<1> QED BY <1>4, <1>5, <1>6, <1>7, <1>8 DEF Handle

LEMMA KeysAreKept ==
  ASSUME NEW s \in Slots, TypeOK, UNCHANGED keys \/ Struck \/ Makes(s)
  PROVE  KeysKept
<1>1. CASE UNCHANGED keys
  BY <1>1 DEF KeysKept
<1>2. CASE Struck
  BY <1>2 DEF KeysKept, Struck
<1>3. CASE Makes(s)
  <2>1. PICK k \in Keys : keys[k].st = "unused" /\ keys' = [keys EXCEPT ![k] = NewKey(req[s])]
    BY <1>3 DEF Makes
  <2>2. \A j \in Keys : j # k => keys'[j] = keys[j]
    BY <2>1 DEF TypeOK
  <2> QED BY <2>1, <2>2 DEF KeysKept
<1> QED BY <1>1, <1>2, <1>3
----------------------------------------------------------------------------
(* What a step does to requests and keys *)

Rests == UNCHANGED <<req, keys>>
Stops == UNCHANGED keys /\ req' = [s \in Slots |-> Idle]
Works(s) ==
  \/ UNCHANGED keys /\ (Arrives(s) \/ Looks(s) \/ Admits(s))
  \/ Serves(s) /\ keys' \in [Keys -> KeyRows] /\ (UNCHANGED keys \/ Struck \/ Makes(s))

LEMMA RequestSteps ==
  ASSUME TypeOK, [Next]_vars
  PROVE  Rests \/ Stops \/ \E s \in Slots : Works(s)
<1>1. CASE UNCHANGED vars
  BY <1>1 DEF vars, db, Rests
<1>2. CASE Tick
  BY <1>2 DEF Tick, db, Rests
<1>3. CASE Restart
  BY <1>3 DEF Restart, db, Stops
<1>4. ASSUME NEW s \in Slots, Arrive(s) \/ HashDone(s) \/ Verify(s) \/ Touch(s)
      PROVE  Works(s)
  <2>1. UNCHANGED keys
    BY <1>4 DEF Arrive, HashDone, Verify, Touch, db
  <2>2. Arrives(s) \/ Looks(s) \/ Admits(s)
    BY <1>4, ArriveArrives, HashDoneLooks, VerifyLooks, TouchAdmits
  <2> QED BY <2>1, <2>2 DEF Works
<1>5. ASSUME NEW s \in Slots, Handle(s) \/ Audit(s)
      PROVE  Works(s)
  <2>1. req \in [Slots -> Requests]
    BY DEF TypeOK
  <2> QED BY <1>5, <2>1, HandleServes, HandleKeys DEF Works
<1> QED BY <1>1, <1>2, <1>3, <1>4, <1>5 DEF Next

\* A request with a key came after the key was made; a late one came after
\* the key was revoked, and waits for the lookup.
CallersMade ==
  \A s \in Slots : req[s].call.cred \in Keys => keys[req[s].call.cred].st # "unused"

LateRevoked ==
  \A s \in Slots : req[s].late =>
    /\ req[s].call.cred \in Keys /\ keys[req[s].call.cred].st \in {"inactive", "gone"}
    /\ req[s].pc \in {"hash", "verify"}

LEMMA KeysAfter ==
  ASSUME NEW s \in Slots, TypeOK, Works(s)
  PROVE  KeysKept
<1>1. UNCHANGED keys => KeysKept
  BY DEF KeysKept
<1> QED BY <1>1, KeysAreKept DEF Works

LEMMA CallersStep ==
  ASSUME TypeOK, CallersMade, [Next]_vars
  PROVE  CallersMade'
<1>1. CASE Rests
  BY <1>1 DEF Rests, CallersMade
<1>2. CASE Stops
  BY <1>2, IdleRequest, ConstantTypes DEF Stops, CallersMade
<1>3. ASSUME NEW s \in Slots, Works(s)
      PROVE  CallersMade'
  <2> SUFFICES ASSUME NEW u \in Slots, req'[u].call.cred \in Keys
               PROVE  keys'[req'[u].call.cred].st # "unused"
    BY DEF CallersMade
  <2>1. KeysKept
    BY <1>3, KeysAfter
  <2>2. req'[u] # Idle
    BY IdleRequest, ConstantTypes
  <2>3. CASE req'[u].call = req[u].call
    BY <2>1, <2>3 DEF CallersMade, KeysKept
  <2>4. CASE u = s /\ Arrives(s) /\ UNCHANGED keys
    BY <2>2, <2>4, ConstantTypes DEF Arrives
  <2>5. CASE ~(u = s /\ Arrives(s) /\ UNCHANGED keys)
    BY <1>3, <2>2, <2>3, <2>5 DEF Works, Arrives, Looks, Admits, Serves, Moves
  <2> QED BY <2>4, <2>5
<1> QED BY <1>1, <1>2, <1>3, RequestSteps

LEMMA LateStep ==
  ASSUME TypeOK, CallersMade, LateRevoked, [Next]_vars
  PROVE  LateRevoked'
<1>1. CASE Rests
  BY <1>1 DEF Rests, LateRevoked
<1>2. CASE Stops
  BY <1>2, IdleRequest DEF Stops, LateRevoked
<1>3. ASSUME NEW s \in Slots, Works(s)
      PROVE  LateRevoked'
  <2> SUFFICES ASSUME NEW u \in Slots, req'[u].late
               PROVE  /\ req'[u].call.cred \in Keys
                      /\ keys'[req'[u].call.cred].st \in {"inactive", "gone"}
                      /\ req'[u].pc \in {"hash", "verify"}
    BY DEF LateRevoked
  <2>1. KeysKept /\ keys \in [Keys -> KeyRows]
    BY <1>3, KeysAfter DEF TypeOK
  <2>2. req'[u] # Idle
    BY IdleRequest
  <2>3. ASSUME req'[u].call = req[u].call, req'[u].late = req[u].late,
               req[u].late => req'[u].pc \in {"hash", "verify"}
        PROVE  /\ req'[u].call.cred \in Keys
               /\ keys'[req'[u].call.cred].st \in {"inactive", "gone"}
               /\ req'[u].pc \in {"hash", "verify"}
    BY <2>1, <2>3 DEF LateRevoked, KeysKept
  <2>4. CASE u # s
    <3>1. req'[u] = req[u]
      BY <1>3, <2>4 DEF Works, Arrives, Looks, Admits, Serves, Moves
    <3> QED BY <2>3, <3>1 DEF LateRevoked
  <2>5. CASE u = s /\ UNCHANGED keys /\ Arrives(s)
    <3>1. /\ req'[s].call.cred \in Keys /\ keys[req'[s].call.cred].st # "unused"
          /\ req'[s].late = (req'[s].call.cred \notin Active)
          /\ req'[s].pc \in {"hash", "verify"}
      BY <2>2, <2>5 DEF Arrives
    <3>2. req'[s].call.cred \notin Active
      BY <2>5, <3>1
    <3>3. keys[req'[s].call.cred].st \in {"unused", "active", "inactive", "gone"}
      BY <2>1, <3>1 DEF KeyRows
    <3> QED BY <2>5, <3>1, <3>2, <3>3 DEF Active
  <2>6. CASE u = s /\ Moves(s) /\ (Looks(s) \/ Admits(s) \/ Serves(s))
    <3>1. req'[u].call = req[u].call /\ req'[u].late = req[u].late /\ req'[u].pc # "idle"
      BY <2>2, <2>6 DEF Moves
    <3>2. ASSUME req[u].late
          PROVE  req'[u].pc \in {"hash", "verify"}
      <4>1. req[u].pc \in {"hash", "verify"} /\ req[u].call.cred \notin Active
        BY <3>2 DEF LateRevoked, Active
      <4>2. ~Admits(s) /\ ~Serves(s)
        BY <2>6, <4>1 DEF Admits, Serves, Served
      <4>3. Looks(s)
        BY <2>6, <4>2
      <4> QED BY <2>6, <3>1, <4>1, <4>3 DEF Looks
    <3> QED BY <2>3, <3>1, <3>2
  <2>7. \/ UNCHANGED keys /\ Arrives(s)
        \/ Moves(s) /\ (Looks(s) \/ Admits(s) \/ Serves(s))
    BY <1>3 DEF Works, Looks, Admits, Serves
  <2> QED BY <2>4, <2>5, <2>6, <2>7
<1> QED BY <1>1, <1>2, <1>3, RequestSteps
----------------------------------------------------------------------------
(* Tenants *)

\* The rows of keys after a step name no other tenants than before, but for
\* the one a new key is given.
LEMMA NamedAfter ==
  ASSUME NEW s \in Slots, TypeOK, TenantRefs, UNCHANGED keys \/ Struck \/ Makes(s)
  PROVE  NamedBy(keys') \subseteq tenants
<1>1. NamedBy(keys) \subseteq tenants
  BY DEF TenantRefs
<1>2. CASE UNCHANGED keys
  BY <1>1, <1>2
<1>3. CASE Struck
  <2>1. RowsOf(keys') \subseteq RowsOf(keys)
    BY <1>3 DEF Struck, RowsOf
  <2>2. \A k \in RowsOf(keys') : keys'[k].body.tenant = keys[k].body.tenant
    BY <1>3 DEF Struck, RowsOf
  <2> QED BY <1>1, <2>1, <2>2 DEF NamedBy
<1>4. CASE Makes(s)
  <2>1. PICK k \in Keys : keys[k].st = "unused" /\ keys' = [keys EXCEPT ![k] = NewKey(req[s])]
    BY <1>4 DEF Makes
  <2>2. TenantFor(req[s]) \in tenants \cup {NoOne}
    BY <1>4 DEF Makes, MayName
  <2>3. req[s] \in Requests /\ keys \in [Keys -> KeyRows]
    BY DEF TypeOK
  <2>4. keys'[k].body.tenant = TenantFor(req[s]) /\ \A j \in Keys : j # k => keys'[j] = keys[j]
    BY <2>1, <2>3, NewKeyType
  <2>5. \A j \in RowsOf(keys') : j = k \/ (j \in RowsOf(keys) /\ keys'[j] = keys[j])
    BY <2>4 DEF RowsOf
  <2>6. \A j \in RowsOf(keys') : keys'[j].body.tenant \in tenants \cup {NoOne}
    BY <1>1, <2>2, <2>4, <2>5 DEF NamedBy
  <2> QED BY <2>6 DEF NamedBy
<1> QED BY <1>2, <1>3, <1>4

LEMMA TablesStep ==
  ASSUME TypeOK, TenantRefs, [Next]_vars
  PROVE  tenants' \subseteq Tenants /\ TenantRefs'
<1> USE DEF TenantRefs
<1>1. tenants \subseteq Tenants
  BY DEF TypeOK
<1>2. CASE UNCHANGED db
  BY <1>1, <1>2 DEF db
<1>3. ASSUME NEW s \in Slots, Handle(s) \/ Audit(s)
      PROVE  tenants' \subseteq Tenants /\ TenantRefs'
  <2> DEFINE t == req[s].call.tenant
  <2>1. NamedBy(keys') \subseteq tenants
    BY <1>3, HandleKeys, NamedAfter
  <2>2. req[s] \in Requests
    BY DEF TypeOK
  <2>3. req[s].call.kind \in NamesTenant => t \in Tenants
    BY <2>2, RequestFields
  <2>4. CASE UNCHANGED <<tenants, roles, models, audits>>
    BY <1>1, <2>1, <2>4
  <2>5. CASE InsertTenant(s)
    <3>1. t \in Tenants
      BY <2>3, <2>5 DEF InsertTenant, Kind, NamesTenant
    <3>2. tenants' = tenants \cup {t} /\ UNCHANGED <<keys, roles, models, audits>>
      BY <2>5 DEF InsertTenant
    <3> QED BY <1>1, <3>1, <3>2
  <2>6. CASE DropTenant(s)
    <3>1. UNCHANGED <<keys, roles, models, audits>>
      BY <2>6 DEF DropTenant
    <3>2. CASE UNCHANGED tenants
      BY <1>1, <3>1, <3>2
    <3>3. CASE ~Referenced(t) /\ tenants' = tenants \ {t}
      <4>1. t \notin roles \cup models \cup audits \cup NamedBy(keys)
        BY <3>3 DEF Referenced, NamedBy, Rows
      <4> QED BY <1>1, <3>1, <3>3, <4>1
    <3> QED BY <2>6, <3>2, <3>3 DEF DropTenant
  <2>7. CASE InsertRole(s)
    <3>1. t \in Tenants /\ t # NoOne
      BY <2>3, <2>7, ConstantTypes DEF InsertRole, Kind, NamesTenant
    <3>2. UNCHANGED <<keys, tenants, models, audits>>
      BY <2>7 DEF InsertRole
    <3>3. UNCHANGED roles \/ (roles' = roles \cup {t} /\ t \in tenants)
      BY <2>7, <3>1 DEF InsertRole, MayName
    <3> QED BY <1>1, <3>2, <3>3
  <2>8. CASE DeleteRole(s)
    BY <1>1, <2>8 DEF DeleteRole
  <2>9. CASE CreateModel(s)
    <3>1. UNCHANGED <<keys, tenants, roles, audits>>
      BY <2>9 DEF CreateModel
    <3>2. models' \subseteq models \cup tenants
      BY <2>9 DEF CreateModel, MayName
    <3> QED BY <1>1, <3>1, <3>2
  <2>10. CASE Audit(s)
    <3>1. UNCHANGED <<keys, tenants, roles, models>>
      BY <2>10 DEF Audit
    <3>2. audits' \subseteq audits \cup tenants
      BY <2>10 DEF Audit, MayName
    <3> QED BY <1>1, <3>1, <3>2
  <2>11. CASE CreateKey(s) \/ InsertKey(s) \/ FindKey(s) \/ Deactivate(s) \/ Refreshed(s) \/ DeleteKey(s)
    BY <2>4, <2>11 DEF CreateKey, InsertKey, FindKey, Deactivate, Refreshed, DeleteKey, db
  <2>12. CASE CreateTenant(s) \/ CountModels(s) \/ CountKeys(s) \/ FindTenant(s) \/ Read(s)
    BY <2>4, <2>12 DEF CreateTenant, CountModels, CountKeys, FindTenant, Read, db
  <2> QED BY <1>3, <2>5, <2>6, <2>7, <2>8, <2>9, <2>10, <2>11, <2>12 DEF Handle
<1>4. CASE Tick \/ Restart
  BY <1>2, <1>4 DEF Tick, Restart
<1>5. ASSUME NEW s \in Slots, Arrive(s) \/ HashDone(s) \/ Verify(s) \/ Touch(s)
      PROVE  UNCHANGED db
  BY <1>5 DEF Arrive, HashDone, Verify, Touch
<1>6. CASE UNCHANGED vars
  BY <1>2, <1>6 DEF vars
<1> QED BY <1>2, <1>3, <1>4, <1>5, <1>6 DEF Next

\* The modes in which a key decides, and the tenant it then stands for: the one
\* of the gateway's header, or else its own.
KeyModes == {"keys", "gateway"}
TenantOf(hdr, key) == IF hdr # NoOne THEN hdr ELSE key.body.tenant

\* Past the middleware a request has the role of its key, and that tenant.
Stamped ==
  mode \in KeyModes =>
    \A s \in Slots :
      req[s].call.cred \in Keys /\ req[s].pc \in Served =>
        /\ req[s].role = keys[req[s].call.cred].body.role
        /\ req[s].tenant = TenantOf(req[s].call.hdr, keys[req[s].call.cred])

MakersMade == \A k \in Keys : keys[k].by # NoOne => keys[keys[k].by].st # "unused"

PinInv == Stamped /\ MakersMade /\ TenantPinned

LEMMA ModeStep == ASSUME [Next]_vars PROVE UNCHANGED mode
<1>1. \A s \in Slots : Handle(s) \/ Audit(s) => UNCHANGED mode
  BY DEF Handle, CreateKey, InsertKey, FindKey, Deactivate, Refreshed, DeleteKey, CreateTenant,
     InsertTenant, CountModels, CountKeys, DropTenant, FindTenant, InsertRole, DeleteRole,
     CreateModel, Read, Audit, env
<1>2. \A s \in Slots : Arrive(s) \/ HashDone(s) \/ Verify(s) \/ Touch(s) => UNCHANGED mode
  BY DEF Arrive, HashDone, Verify, Touch, env
<1> QED BY <1>1, <1>2 DEF Next, Tick, Restart, vars, env

LEMMA StampedStep ==
  ASSUME TypeOK, CallersMade, Stamped, [Next]_vars
  PROVE  Stamped'
<1> SUFFICES ASSUME mode \in KeyModes, NEW u \in Slots,
                    req'[u].call.cred \in Keys, req'[u].pc \in Served
             PROVE  /\ req'[u].role = keys'[req'[u].call.cred].body.role
                    /\ req'[u].tenant = TenantOf(req'[u].call.hdr, keys'[req'[u].call.cred])
  BY ModeStep DEF Stamped
<1>1. CASE Rests
  BY <1>1 DEF Rests, Stamped
<1>2. CASE Stops
  BY <1>2, IdleRequest, ConstantTypes DEF Stops
<1>3. ASSUME NEW s \in Slots, Works(s)
      PROVE  /\ req'[u].role = keys'[req'[u].call.cred].body.role
             /\ req'[u].tenant = TenantOf(req'[u].call.hdr, keys'[req'[u].call.cred])
  <2>1. KeysKept
    BY <1>3, KeysAfter
  <2>2. req'[u] # Idle
    BY IdleRequest, ConstantTypes
  <2>3. ASSUME req'[u].call = req[u].call, req[u].pc \in Served,
               req'[u].role = req[u].role, req'[u].tenant = req[u].tenant
        PROVE  /\ req'[u].role = keys'[req'[u].call.cred].body.role
               /\ req'[u].tenant = TenantOf(req'[u].call.hdr, keys'[req'[u].call.cred])
    BY <2>1, <2>3 DEF Stamped, CallersMade, KeysKept, TenantOf
  <2>4. CASE u # s
    <3>1. req'[u] = req[u]
      BY <1>3, <2>4 DEF Works, Arrives, Looks, Admits, Serves, Moves
    <3> QED BY <2>3, <3>1
  <2>5. CASE u = s /\ UNCHANGED keys /\ (Arrives(s) \/ Looks(s))
    BY <2>2, <2>5, ConstantTypes DEF Arrives, Looks, Served
  <2>6. CASE u = s /\ UNCHANGED keys /\ Admits(s)
    <3> DEFINE body == keys[req[u].call.cred].body
    <3>1. req'[u].tenant = StampTenant(req[u], body) /\ req'[u].role = StampRole(req[u], body)
      BY <2>2, <2>6 DEF Admits
    <3>2. req'[u].call = req[u].call
      BY <2>2, <2>6 DEF Admits, Moves
    <3>3. StampTenant(req[u], body) = TenantOf(req[u].call.hdr, keys[req[u].call.cred])
          /\ StampRole(req[u], body) = body.role
      BY DEF StampTenant, StampRole, TenantOf, KeyModes
    <3> QED BY <2>6, <3>1, <3>2, <3>3
  <2>7. CASE u = s /\ Serves(s)
    <3>1. req'[u].call = req[u].call /\ req[u].pc \in Served /\ Same(u)
      BY <2>2, <2>7 DEF Serves, Moves
    <3> QED BY <2>3, <3>1 DEF Same
  <2> QED BY <1>3, <2>4, <2>5, <2>6, <2>7 DEF Works
<1> QED BY <1>1, <1>2, <1>3, RequestSteps

\* A key that an admin's key makes for a tenant is given that tenant.
LEMMA MadeKeyPinned ==
  ASSUME NEW s \in Slots, TypeOK, CallersMade, Stamped, mode \in KeyModes, Makes(s),
         req[s].call.cred \in Keys,
         keys[req[s].call.cred].body.role = "admin",
         TenantOf(req[s].call.hdr, keys[req[s].call.cred]) # NoOne
  PROVE  TenantFor(req[s]) = TenantOf(req[s].call.hdr, keys[req[s].call.cred])
<1>1. req[s].pc \in Served
  BY DEF Makes, Served
<1>2. req[s].role = "admin" /\ req[s].tenant = TenantOf(req[s].call.hdr, keys[req[s].call.cred])
  BY <1>1 DEF Stamped
<1>3. CallerRole(req[s].role) = "admin"
  BY <1>2 DEF CallerRole
<1> QED BY <1>2, <1>3 DEF TenantFor, KeyModes

LEMMA PinnedStep ==
  ASSUME TypeOK, CallersMade, Stamped, MakersMade, TenantPinned, [Next]_vars
  PROVE  MakersMade' /\ TenantPinned'
<1>0. keys \in [Keys -> KeyRows]
  BY DEF TypeOK
<1>1. CASE UNCHANGED keys
  BY <1>1, ModeStep DEF MakersMade, TenantPinned, Pinned
<1>2. CASE Struck
  <2>1. \A k \in Keys : /\ keys'[k].by = keys[k].by /\ keys'[k].hdr = keys[k].hdr
                        /\ keys'[k].body = keys[k].body
                        /\ (keys[k].st # "unused" => keys'[k].st # "unused")
    BY <1>2 DEF Struck
  <2>2. \A k \in Keys : keys[k].by # NoOne => keys[k].by \in Keys
    BY <1>0 DEF KeyRows, OneOf
  <2>3. MakersMade'
    BY <2>1, <2>2 DEF MakersMade
  <2>4. TenantPinned'
    BY <2>1, <2>2, ModeStep DEF TenantPinned, Pinned
  <2> QED BY <2>3, <2>4
<1>3. ASSUME NEW s \in Slots, Makes(s)
      PROVE  MakersMade' /\ TenantPinned'
  <2>1. PICK k \in Keys : keys[k].st = "unused" /\ keys' = [keys EXCEPT ![k] = NewKey(req[s])]
    BY <1>3 DEF Makes
  <2>2. req[s] \in Requests
    BY DEF TypeOK
  <2>3. /\ keys'[k].st = "active" /\ keys'[k].by = req[s].call.cred
        /\ keys'[k].hdr = req[s].call.hdr
        /\ keys'[k].body.tenant = TenantFor(req[s])
        /\ \A j \in Keys : j # k => keys'[j] = keys[j]
    BY <1>0, <2>1, <2>2, NewKeyType
  <2>4. req[s].call.cred \in OneOf(Keys)
    BY <2>2, RequestFields
  <2>5. \A j \in Keys : keys[j].by # NoOne => keys[j].by \in Keys /\ keys[j].by # k
    BY <1>0, <2>1 DEF MakersMade, KeyRows, OneOf
  <2>6. req[s].call.cred # NoOne => req[s].call.cred \in Keys /\ req[s].call.cred # k
    BY <2>1, <2>4 DEF CallersMade, OneOf
  <2>7. MakersMade'
    <3> SUFFICES ASSUME NEW j \in Keys, keys'[j].by # NoOne
                 PROVE  keys'[keys'[j].by].st # "unused"
      BY DEF MakersMade
    <3>1. CASE j = k
      BY <2>3, <2>6, <3>1 DEF CallersMade
    <3>2. CASE j # k
      BY <2>3, <2>5, <3>2 DEF MakersMade
    <3> QED BY <3>1, <3>2
  <2>8. TenantPinned'
    <3> SUFFICES ASSUME mode \in KeyModes, NEW j \in Keys, keys'[j].by # NoOne,
                        keys'[keys'[j].by].body.role = "admin",
                        TenantOf(keys'[j].hdr, keys'[keys'[j].by]) # NoOne
                 PROVE  keys'[j].body.tenant = TenantOf(keys'[j].hdr, keys'[keys'[j].by])
      BY ModeStep DEF TenantPinned, Pinned, TenantOf, KeyModes
    <3>1. CASE j = k
      <4>1. keys'[req[s].call.cred] = keys[req[s].call.cred] /\ req[s].call.cred \in Keys
        BY <2>3, <2>6, <3>1
      <4>2. TenantFor(req[s]) = TenantOf(req[s].call.hdr, keys[req[s].call.cred])
        BY <1>3, <2>3, <3>1, <4>1, MadeKeyPinned
      <4> QED BY <2>3, <3>1, <4>1, <4>2
    <3>2. CASE j # k
      <4>1. keys'[j] = keys[j] /\ keys'[keys[j].by] = keys[keys[j].by]
        BY <2>3, <2>5, <3>2
      <4> QED BY <4>1 DEF TenantPinned, Pinned, TenantOf, KeyModes
    <3> QED BY <3>1, <3>2
  <2> QED BY <2>7, <2>8
<1> QED BY <1>1, <1>2, <1>3, RequestSteps DEF Rests, Stops, Works
----------------------------------------------------------------------------
(* The windows of the rate limit *)

\* The i-th latest entry of a list.
Back(b, i) == b[Len(b) + 1 - i]

\* A list of times in their order, none of them to come.
Timely(b) == \A i, j \in 1 .. Len(b) : b[i] <= now /\ (i <= j => b[i] <= b[j])

LEMMA LatestProperties ==
  ASSUME NEW b \in Seq(Times), Timely(b), now \in Times
  PROVE  LET l == Latest(b)
         IN /\ l \in Seq(Times) /\ Timely(l) /\ Len(l) <= Len(b)
            /\ \A i \in 1 .. Len(b) : Back(b, i) > now - Window => i <= Len(l)
            /\ \A i \in 1 .. Len(l) : Back(l, i) = Back(b, i)
<1> DEFINE F == Fresh(b)
           n == Cardinality(F)
           m == Len(b) - n + 1
           l == SubSeq(b, m, Len(b))
<1>1. /\ Len(b) \in Nat /\ DOMAIN b = 1 .. Len(b)
      /\ \A i \in 1 .. Len(b) : b[i] \in Times
  BY LenProperties
<1>2. Times \subseteq Nat /\ Window \in Nat /\ now \in Nat
  BY ConstantTypes DEF Times
<1>3. F \subseteq 1 .. Len(b) /\ \A i \in 1 .. Len(b) : b[i] > now - Window => i \in F
  BY <1>1 DEF Fresh
<1>4. IsFiniteSet(1 .. Len(b)) /\ Cardinality(1 .. Len(b)) = Len(b)
  <2>1. (IF 1 > Len(b) THEN 0 ELSE Len(b) - 1 + 1) = Len(b)
    BY <1>1
  <2> QED BY <1>1, <2>1, FS_Interval
<1>5. IsFiniteSet(F) /\ n <= Len(b)
  BY <1>3, <1>4, FS_Subset
<1>6. n \in Nat
  BY <1>5, FS_CardinalityType
<1> HIDE DEF n
<1>7. m \in Nat /\ m >= 1 /\ m <= Len(b) + 1
  BY <1>1, <1>5, <1>6
<1>8. l \in Seq(Times) /\ Len(l) = n /\ \A i \in 1 .. n : l[i] = b[m + i - 1]
  <2>1. \A i \in m .. Len(b) : b[i] \in Times
    BY <1>1, <1>7
  <2>2. (IF m <= Len(b) THEN Len(b) - m + 1 ELSE 0) = n
    BY <1>1, <1>5, <1>6
  <2>3. m \in Int /\ Len(b) \in Int
    BY <1>1, <1>7
  <2> HIDE DEF m
  <2> QED BY <2>1, <2>2, <2>3, SubSeqProperties
<1>9. l = Latest(b)
  BY DEF Latest, n
<1> HIDE DEF l, F
<1>10. \A i \in 1 .. n : m + i - 1 \in 1 .. Len(b)
  BY <1>1, <1>5, <1>6
<1>11. Timely(l)
  <2> SUFFICES ASSUME NEW i \in 1 .. n, NEW j \in 1 .. n
               PROVE  l[i] <= now /\ (i <= j => l[i] <= l[j])
    BY <1>8 DEF Timely
  <2>1. l[i] = b[m + i - 1] /\ l[j] = b[m + j - 1]
    BY <1>8
  <2>2. m + i - 1 \in 1 .. Len(b) /\ m + j - 1 \in 1 .. Len(b)
    BY <1>10
  <2>3. i <= j => m + i - 1 <= m + j - 1
    BY <1>7
  <2> QED BY <2>1, <2>2, <2>3 DEF Timely
<1>12. ASSUME NEW i \in 1 .. Len(b), Back(b, i) > now - Window
       PROVE  i <= n
  <2>1. \A j \in (Len(b) + 1 - i) .. Len(b) : j \in F
    <3> TAKE j \in (Len(b) + 1 - i) .. Len(b)
    <3>1. Len(b) + 1 - i \in 1 .. Len(b) /\ j \in 1 .. Len(b)
      BY <1>1
    <3>2. Back(b, i) <= b[j]
      BY <1>1, <3>1 DEF Timely, Back
    <3>3. Back(b, i) \in Nat /\ b[j] \in Nat
      BY <1>1, <1>2, <3>1 DEF Back
    <3>4. b[j] > now - Window
      BY <1>2, <1>12, <3>2, <3>3
    <3> QED BY <1>3, <3>1, <3>4
  <2>2. Cardinality((Len(b) + 1 - i) .. Len(b)) = i
    <3>1. Len(b) + 1 - i \in Int /\ Len(b) \in Int
          /\ (IF Len(b) + 1 - i > Len(b) THEN 0 ELSE Len(b) - (Len(b) + 1 - i) + 1) = i
      BY <1>1
    <3> QED BY <3>1, FS_Interval
  <2>3. (Len(b) + 1 - i) .. Len(b) \subseteq F
    BY <2>1
  <2> QED BY <1>5, <2>2, <2>3, FS_Subset DEF n
<1>13. ASSUME NEW i \in 1 .. n
       PROVE  Back(l, i) = Back(b, i)
  <2>1. n + 1 - i \in 1 .. n /\ m + (n + 1 - i) - 1 = Len(b) + 1 - i
    BY <1>1, <1>6
  <2> QED BY <1>8, <2>1 DEF Back
<1> QED BY <1>5, <1>8, <1>9, <1>11, <1>12, <1>13

\* A time is put at the end of a list.
LEMMA AppendBack ==
  ASSUME NEW b \in Seq(Times), Timely(b), now \in Times
  PROVE  LET l == Append(b, now)
         IN /\ l \in Seq(Times) /\ Timely(l) /\ Len(l) = Len(b) + 1 /\ Back(l, 1) = now
            /\ \A i \in 1 .. Len(b) : Back(l, i + 1) = Back(b, i)
            /\ \A i \in 1 .. Len(b) : l[i] = b[i]
<1> DEFINE l == Append(b, now)
<1>1. /\ Len(b) \in Nat /\ \A i \in 1 .. Len(b) : b[i] \in Times
  BY LenProperties
<1>2. l \in Seq(Times) /\ Len(l) = Len(b) + 1 /\ l[Len(b) + 1] = now
      /\ \A i \in 1 .. Len(b) : l[i] = b[i]
  BY AppendProperties
<1>3. now \in Nat
  BY ConstantTypes DEF Times
<1> HIDE DEF l
<1>4. Back(l, 1) = now
  BY <1>1, <1>2 DEF Back
<1>5. \A i \in 1 .. Len(b) : Back(l, i + 1) = Back(b, i)
  <2> TAKE i \in 1 .. Len(b)
  <2>1. Len(b) + 1 - i \in 1 .. Len(b) /\ (Len(b) + 1) + 1 - (i + 1) = Len(b) + 1 - i
    BY <1>1
  <2> QED BY <1>2, <2>1 DEF Back
<1>6. Timely(l)
  <2> SUFFICES ASSUME NEW i \in 1 .. Len(b) + 1, NEW j \in 1 .. Len(b) + 1
               PROVE  l[i] <= now /\ (i <= j => l[i] <= l[j])
    BY <1>2 DEF Timely
  <2>1. l[i] <= now
    <3>1. CASE i = Len(b) + 1
      BY <1>2, <1>3, <3>1
    <3>2. CASE i # Len(b) + 1
      <4>1. i \in 1 .. Len(b)
        BY <1>1, <3>2
      <4> QED BY <1>2, <4>1 DEF Timely
    <3> QED BY <3>1, <3>2
  <2>2. ASSUME i <= j PROVE l[i] <= l[j]
    <3>1. CASE j = Len(b) + 1
      BY <1>2, <2>1, <3>1
    <3>2. CASE j # Len(b) + 1
      <4>1. i \in 1 .. Len(b) /\ j \in 1 .. Len(b)
        BY <1>1, <2>2, <3>2
      <4> QED BY <1>2, <2>2, <4>1 DEF Timely
    <3> QED BY <3>1, <3>2
  <2> QED BY <2>1, <2>2
<1> QED BY <1>2, <1>4, <1>5, <1>6 DEF l

BucketTypes ==
  /\ DOMAIN buckets \subseteq BucketNames /\ buckets \in [DOMAIN buckets -> Seq(Times)]
  /\ \A p \in DOMAIN buckets : Timely(buckets[p])

\* Every recent pass of a key has an entry in the bucket of its prefix: the
\* bucket's i-th latest entry is no older than the key's i-th latest pass.
Tracked ==
  \A k \in Keys : \A i \in 1 .. Len(passed[k]) :
    Back(passed[k], i) > now - Window =>
      /\ Prefix[k] \in DOMAIN buckets /\ i <= Len(buckets[Prefix[k]])
      /\ Back(passed[k], i) <= Back(buckets[Prefix[k]], i)

PassedMade == \A k \in Keys : passed[k] # <<>> => keys[k].st # "unused"

LEMMA SweptProperties ==
  ASSUME BucketTypes, now \in Times
  PROVE  /\ DOMAIN Swept \subseteq DOMAIN buckets
         /\ \A p \in DOMAIN Swept : Swept[p] = buckets[p]
         /\ \A p \in DOMAIN buckets : \A i \in 1 .. Len(buckets[p]) :
              Back(buckets[p], i) > now - Window => p \in DOMAIN Swept
<1> DEFINE live == {p \in DOMAIN buckets :
                      /\ buckets[p] # <<>>
                      /\ buckets[p][Len(buckets[p])] > now - Window}
<1>1. CASE Swept = buckets
  BY <1>1
<1>2. CASE Swept = [p \in live |-> buckets[p]]
  <2>1. DOMAIN Swept = live /\ \A p \in live : Swept[p] = buckets[p]
    BY <1>2
  <2>2. ASSUME NEW p \in DOMAIN buckets, NEW i \in 1 .. Len(buckets[p]),
               Back(buckets[p], i) > now - Window
        PROVE  p \in live
    <3>1. buckets[p] \in Seq(Times) /\ Len(buckets[p]) \in Nat
          /\ \A j \in 1 .. Len(buckets[p]) : buckets[p][j] \in Times
      BY LenProperties DEF BucketTypes
    <3>2. Len(buckets[p]) + 1 - i \in 1 .. Len(buckets[p]) /\ Len(buckets[p]) \in 1 .. Len(buckets[p])
      BY <3>1
    <3>3. Back(buckets[p], i) <= buckets[p][Len(buckets[p])]
      BY <3>2 DEF BucketTypes, Timely, Back
    <3>4. Back(buckets[p], i) \in Nat /\ buckets[p][Len(buckets[p])] \in Nat
          /\ now - Window \in Int
      BY <3>1, <3>2, ConstantTypes DEF Back, Times
    <3>5. buckets[p][Len(buckets[p])] > now - Window
      BY <2>2, <3>3, <3>4
    <3>6. buckets[p] # <<>>
      BY <3>2, EmptySeq
    <3> QED BY <3>5, <3>6
  <2> QED BY <2>1, <2>2
<1> QED BY <1>1, <1>2 DEF Swept

\* The bucket of a prefix is swept, freed of its old entries and, under the
\* limit, given the time: what is recent stays.
LEMMA CountCallStep ==
  ASSUME NEW p \in BucketNames, NEW limit \in Nat, limit # 0,
         BucketTypes, now \in Times, now' = now, CountCall(p, limit)
  PROVE  /\ BucketTypes' /\ p \in DOMAIN buckets'
         /\ \A q \in DOMAIN buckets : \A i \in 1 .. Len(buckets[q]) :
              Back(buckets[q], i) > now - Window =>
                /\ q \in DOMAIN buckets' /\ i <= Len(buckets'[q])
                /\ Back(buckets[q], i) <= Back(buckets'[q], i)
         /\ UnderLimit(p, limit) =>
              /\ Len(buckets'[p]) >= 1 /\ Back(buckets'[p], 1) = now
              /\ p \in DOMAIN buckets => \A i \in 1 .. Len(buckets[p]) :
                   Back(buckets[p], i) > now - Window =>
                     /\ i < limit /\ i + 1 <= Len(buckets'[p])
                     /\ Back(buckets'[p], i + 1) = Back(buckets[p], i)
<1> DEFINE r == Recent(p)
           n == IF UnderLimit(p, limit) THEN Append(r, now) ELSE r
<1>1. buckets' = [q \in DOMAIN Swept \cup {p} |-> IF q # p THEN Swept[q] ELSE n]
  BY DEF CountCall
<1>2. /\ DOMAIN Swept \subseteq DOMAIN buckets
      /\ \A q \in DOMAIN Swept : Swept[q] = buckets[q]
      /\ \A q \in DOMAIN buckets : \A i \in 1 .. Len(buckets[q]) :
           Back(buckets[q], i) > now - Window => q \in DOMAIN Swept
  BY SweptProperties
<1>3. DOMAIN buckets' = DOMAIN Swept \cup {p} /\ buckets'[p] = n
      /\ \A q \in DOMAIN Swept : q # p => buckets'[q] = buckets[q]
  BY <1>1, <1>2
<1>4. r \in Seq(Times) /\ Timely(r)
  <2>1. CASE p \in DOMAIN Swept
    <3>1. r = Latest(buckets[p]) /\ buckets[p] \in Seq(Times) /\ Timely(buckets[p])
      BY <1>2, <2>1 DEF Recent, BucketTypes
    <3> QED BY <3>1, LatestProperties
  <2>2. CASE p \notin DOMAIN Swept
    <3>1. r = <<>> /\ Len(r) = 0
      BY <2>2, EmptySeq DEF Recent
    <3>2. <<>> \in Seq(Times)
      BY EmptySeq
    <3> QED BY <3>1, <3>2 DEF Timely
  <2> QED BY <2>1, <2>2
<1>5. Len(r) \in Nat
  BY <1>4, LenProperties
<1> HIDE DEF r
<1>6. /\ Append(r, now) \in Seq(Times) /\ Timely(Append(r, now)) /\ Len(Append(r, now)) = Len(r) + 1
      /\ Back(Append(r, now), 1) = now
      /\ \A i \in 1 .. Len(r) : Back(Append(r, now), i + 1) = Back(r, i)
  BY <1>4, AppendBack
<1>7. n \in Seq(Times) /\ Timely(n)
  BY <1>4, <1>6
<1>8. Len(n) \in Nat /\ \A i \in 1 .. Len(n) : n[i] \in Times /\ n[i] <= now
  BY <1>7, LenProperties DEF Timely
<1>9. UnderLimit(p, limit) => n = Append(r, now) /\ Len(r) < limit
  BY DEF UnderLimit, r
<1>10. ~UnderLimit(p, limit) => n = r
  OBVIOUS
<1> HIDE DEF n
<1>11. BucketTypes'
  <2>1. \A q \in DOMAIN buckets' : buckets'[q] \in Seq(Times) /\ Timely(buckets'[q])
    <3> TAKE q \in DOMAIN buckets'
    <3>1. CASE q = p
      BY <1>3, <1>7, <3>1
    <3>2. CASE q # p
      BY <1>2, <1>3, <3>2 DEF BucketTypes
    <3> QED BY <3>1, <3>2
  <2>2. \A q \in DOMAIN buckets' : Timely(buckets[q])'
    BY <2>1 DEF Timely
  <2>3. buckets' \in [DOMAIN buckets' -> Seq(Times)]
    BY <1>1, <2>1
  <2>4. DOMAIN buckets' \subseteq BucketNames
    BY <1>2, <1>3 DEF BucketTypes
  <2> QED BY <2>2, <2>3, <2>4 DEF BucketTypes
<1>12. ASSUME NEW i \in 1 .. Len(buckets[p]), p \in DOMAIN buckets,
              Back(buckets[p], i) > now - Window
       PROVE  i <= Len(r) /\ Back(r, i) = Back(buckets[p], i) /\ i \in 1 .. Len(r)
  <2>1. p \in DOMAIN Swept
    BY <1>2, <1>12
  <2>2. r = Latest(buckets[p]) /\ buckets[p] \in Seq(Times) /\ Timely(buckets[p])
    BY <1>2, <2>1 DEF Recent, BucketTypes, r
  <2>3. Len(buckets[p]) \in Nat
    BY <2>2, LenProperties
  <2>4. i <= Len(r) /\ (i \in 1 .. Len(r) => Back(r, i) = Back(buckets[p], i))
    BY <1>12, <2>2, LatestProperties
  <2> QED BY <1>5, <2>3, <2>4
<1>13. ASSUME NEW q \in DOMAIN buckets, NEW i \in 1 .. Len(buckets[q]),
              Back(buckets[q], i) > now - Window
       PROVE  /\ q \in DOMAIN buckets' /\ i <= Len(buckets'[q])
              /\ Back(buckets[q], i) <= Back(buckets'[q], i)
  <2>1. q \in DOMAIN Swept /\ q \in DOMAIN buckets'
    BY <1>2, <1>3, <1>13
  <2>2. buckets[q] \in Seq(Times) /\ Timely(buckets[q])
    BY DEF BucketTypes
  <2>3. Len(buckets[q]) \in Nat /\ \A j \in 1 .. Len(buckets[q]) : buckets[q][j] \in Times
    BY <2>2, LenProperties
  <2>4. Len(buckets[q]) + 1 - i \in 1 .. Len(buckets[q])
    BY <2>3
  <2>5. Back(buckets[q], i) \in Nat /\ Back(buckets[q], i) <= now
    <3>1. \A j \in 1 .. Len(buckets[q]) : buckets[q][j] \in Times /\ buckets[q][j] <= now
      BY <2>2, <2>3 DEF Timely
    <3>2. Times \subseteq Nat
      BY ConstantTypes DEF Times
    <3> QED BY <2>4, <3>1, <3>2 DEF Back
  <2>6. CASE q # p
    BY <1>3, <2>1, <2>3, <2>5, <2>6
  <2>7. CASE q = p /\ ~UnderLimit(p, limit)
    <3>1. i <= Len(r) /\ Back(r, i) = Back(buckets[p], i)
      BY <1>12, <1>13, <2>7
    <3> QED BY <1>3, <1>10, <2>1, <2>5, <2>7, <3>1
  <2>8. CASE q = p /\ UnderLimit(p, limit)
    <3>1. i \in 1 .. Len(r) /\ Back(r, i) = Back(buckets[p], i)
      BY <1>12, <1>13, <2>8
    <3>2. n = Append(r, now) /\ Len(n) = Len(r) + 1
      BY <1>6, <1>9, <2>8
    <3>3. Back(r, i) <= Back(n, i)
      <4>1. CASE i = 1
        BY <1>6, <2>5, <2>8, <3>1, <3>2, <4>1
      <4>2. CASE i # 1
        <5>1. i - 1 \in 1 .. Len(r) /\ (i - 1) + 1 = i
          BY <1>5, <3>1, <4>2
        <5>2. Back(n, i) = Back(r, i - 1)
          BY <1>6, <3>2, <5>1
        <5>3. Len(r) + 1 - i \in 1 .. Len(r) /\ Len(r) + 1 - (i - 1) \in 1 .. Len(r)
              /\ Len(r) + 1 - i <= Len(r) + 1 - (i - 1)
          BY <1>5, <5>1, <3>1
        <5>4. Back(r, i) <= Back(r, i - 1)
          BY <1>4, <5>3 DEF Timely, Back
        <5> QED BY <5>2, <5>4
      <4> QED BY <4>1, <4>2
    <3>4. i <= Len(n)
      BY <1>5, <3>1, <3>2
    <3> QED BY <1>3, <2>1, <2>8, <3>1, <3>3, <3>4
  <2> QED BY <2>6, <2>7, <2>8
<1>14. ASSUME UnderLimit(p, limit)
       PROVE  /\ Len(buckets'[p]) >= 1 /\ Back(buckets'[p], 1) = now
              /\ p \in DOMAIN buckets => \A i \in 1 .. Len(buckets[p]) :
                   Back(buckets[p], i) > now - Window =>
                     /\ i < limit /\ i + 1 <= Len(buckets'[p])
                     /\ Back(buckets'[p], i + 1) = Back(buckets[p], i)
  <2>1. buckets'[p] = Append(r, now) /\ Len(buckets'[p]) = Len(r) + 1 /\ Len(r) < limit
    BY <1>3, <1>6, <1>9, <1>14
  <2>2. Len(buckets'[p]) >= 1 /\ Back(buckets'[p], 1) = now
    BY <1>5, <1>6, <2>1
  <2>3. ASSUME p \in DOMAIN buckets, NEW i \in 1 .. Len(buckets[p]),
               Back(buckets[p], i) > now - Window
        PROVE  /\ i < limit /\ i + 1 <= Len(buckets'[p])
               /\ Back(buckets'[p], i + 1) = Back(buckets[p], i)
    <3>1. i \in 1 .. Len(r) /\ Back(r, i) = Back(buckets[p], i)
      BY <1>12, <2>3
    <3>2. i < limit /\ i + 1 <= Len(r) + 1
      BY <1>5, <2>1, <3>1
    <3> QED BY <1>6, <2>1, <3>1, <3>2
  <2> QED BY <2>2, <2>3
<1> QED BY <1>3, <1>11, <1>13, <1>14

\* What a step does to the windows: nothing, or all is forgotten, or time goes
\* on, or a call is counted: an attempt at the first key, or a key's own, which
\* passes if its limit allows.
Counts(s) ==
  LET k == req[s].call.cred
      limit == keys[k].body.limit
  IN /\ k \in Keys /\ UNCHANGED keys /\ now' = now
     /\ CountCall(Prefix[k], limit)
     /\ \/ UnderLimit(Prefix[k], limit) /\ limit # 0 /\ passed' = [passed EXCEPT ![k] = Append(@, now)]
        \/ (limit = 0 \/ ~UnderLimit(Prefix[k], limit)) /\ UNCHANGED passed

Windows ==
  \/ UNCHANGED <<buckets, lastEvict, passed>> /\ now' \in Times /\ now <= now'
  \/ buckets' = NoBuckets /\ lastEvict' = -Window /\ passed' = NoPasses /\ now' = now
  \/ CountCall(BootPrefix, BootLimit) /\ UNCHANGED <<passed, now, keys>>
  \/ \E s \in Slots : CallersMade /\ Counts(s)

LEMMA WindowsStep ==
  ASSUME TypeOK, CallersMade, [Next]_vars
  PROVE  Windows
<1>0. now \in Times /\ now <= now
  BY ConstantTypes DEF TypeOK, Times
<1>1. CASE UNCHANGED <<buckets, lastEvict, passed>> /\ now' = now
  BY <1>0, <1>1 DEF Windows
<1>2. CASE UNCHANGED vars
  BY <1>1, <1>2 DEF vars, mem, env
<1>3. CASE Tick
  <2>1. now < MaxTime /\ now' = now + 1 /\ UNCHANGED mem
    BY <1>3 DEF Tick
  <2>2. now' \in Times /\ now <= now'
    BY <1>0, <2>1, ConstantTypes DEF Times
  <2> QED BY <2>1, <2>2 DEF Windows, mem
<1>4. CASE Restart
  BY <1>4 DEF Restart, Windows, env
<1>5. ASSUME NEW s \in Slots, Arrive(s) \/ HashDone(s)
      PROVE  Windows
  BY <1>1, <1>5 DEF Arrive, HashDone, mem, env
<1>6. ASSUME NEW s \in Slots, Throttle(s), UNCHANGED <<db, env>>, req[s].pc \in {"verify", "touch"}
      PROVE  Windows
  <2> DEFINE k == req[s].call.cred
             limit == keys[k].body.limit
  <2>1. k \in Keys
    BY <1>6 DEF TypeOK
  <2>2. CountCall(Prefix[k], limit)
    BY <1>6 DEF Throttle
  <2>3. /\ UnderLimit(Prefix[k], limit) =>
             passed' = IF limit = 0 THEN passed ELSE [passed EXCEPT ![k] = Append(@, now)]
        /\ ~UnderLimit(Prefix[k], limit) => UNCHANGED passed
    BY <1>6 DEF Throttle
  <2> QED BY <1>6, <2>1, <2>2, <2>3 DEF Windows, Counts, db, env
<1>7. ASSUME NEW s \in Slots, Verify(s)
      PROVE  Windows
  <2>1. CASE Throttle(s)
    BY <1>6, <1>7, <2>1 DEF Verify
  <2>2. CASE UNCHANGED <<buckets, lastEvict, passed>>
    BY <1>1, <1>7, <2>2 DEF Verify, env
  <2> QED BY <1>7, <2>1, <2>2 DEF Verify, mem
<1>8. ASSUME NEW s \in Slots, Touch(s)
      PROVE  Windows
  <2>1. CASE Throttle(s)
    BY <1>6, <1>8, <2>1 DEF Touch
  <2>2. CASE UNCHANGED <<buckets, lastEvict, passed>>
    BY <1>1, <1>8, <2>2 DEF Touch, env
  <2> QED BY <1>8, <2>1, <2>2 DEF Touch
<1>9. ASSUME NEW s \in Slots, CreateKey(s)
      PROVE  Windows
  <2>1. UNCHANGED <<passed, now, keys>>
    BY <1>9 DEF CreateKey, env, db
  <2>2. CountCall(BootPrefix, BootLimit) \/ UNCHANGED <<buckets, lastEvict>>
    BY <1>9 DEF CreateKey
  <2>3. CASE CountCall(BootPrefix, BootLimit)
    BY <2>1, <2>3 DEF Windows
  <2> QED BY <1>1, <2>1, <2>2, <2>3
<1>10. ASSUME NEW s \in Slots, Handle(s) \/ Audit(s), ~CreateKey(s)
       PROVE  UNCHANGED <<buckets, lastEvict, passed>> /\ now' = now
  BY <1>10 DEF Handle, InsertKey, FindKey, Deactivate, Refreshed, DeleteKey, CreateTenant,
     InsertTenant, CountModels, CountKeys, DropTenant, FindTenant, InsertRole, DeleteRole,
     CreateModel, Read, Audit, mem, env
<1> QED BY <1>1, <1>2, <1>3, <1>4, <1>5, <1>7, <1>8, <1>9, <1>10 DEF Next

RateInv == BucketTypes /\ Tracked /\ PassedMade /\ RateBound

LEMMA CountCallTypes ==
  ASSUME TypeOK, NEW p, NEW limit \in Nat, CountCall(p, limit)
  PROVE  lastEvict' \in Times \cup {-Window}
<1>1. lastEvict \in Times \cup {-Window} /\ now \in Times
  BY DEF TypeOK
<1>2. SweptAt \in {lastEvict, now}
  BY DEF SweptAt
<1> QED BY <1>1, <1>2 DEF CountCall

\* A bucket that is counted for, whether or not a key is: what was tracked is.
LEMMA CountedKeepsTrack ==
  ASSUME NEW p \in BucketNames, NEW limit \in Nat, BucketTypes, Tracked,
         passed \in [Keys -> Seq(Times)],
         now \in Times, now' = now, CountCall(p, limit)
  PROVE  /\ BucketTypes'
         /\ \A k \in Keys : \A i \in 1 .. Len(passed[k]) :
              Back(passed[k], i) > now - Window =>
                /\ Prefix[k] \in DOMAIN buckets' /\ i <= Len(buckets'[Prefix[k]])
                /\ Back(passed[k], i) <= Back(buckets'[Prefix[k]], i)
<1>1. CASE limit = 0
  <2>1. buckets' = buckets
    BY <1>1 DEF CountCall
  <2>2. BucketTypes'
    BY <2>1 DEF BucketTypes, Timely
  <2> QED BY <2>1, <2>2 DEF Tracked
<1>2. CASE limit # 0
  <2>1. /\ BucketTypes'
        /\ \A q \in DOMAIN buckets : \A i \in 1 .. Len(buckets[q]) :
             Back(buckets[q], i) > now - Window =>
               /\ q \in DOMAIN buckets' /\ i <= Len(buckets'[q])
               /\ Back(buckets[q], i) <= Back(buckets'[q], i)
    BY <1>2, CountCallStep
  <2>2. ASSUME NEW k \in Keys, NEW i \in 1 .. Len(passed[k]), Back(passed[k], i) > now - Window
        PROVE  /\ Prefix[k] \in DOMAIN buckets' /\ i <= Len(buckets'[Prefix[k]])
               /\ Back(passed[k], i) <= Back(buckets'[Prefix[k]], i)
    <3> DEFINE q == Prefix[k]
    <3>1. /\ q \in DOMAIN buckets /\ i <= Len(buckets[q])
          /\ Back(passed[k], i) <= Back(buckets[q], i)
      BY <2>2 DEF Tracked
    <3>2. Back(passed[k], i) \in Int
      <4>1. Len(passed[k]) \in Nat /\ \A j \in 1 .. Len(passed[k]) : passed[k][j] \in Times
        BY LenProperties
      <4>2. Len(passed[k]) + 1 - i \in 1 .. Len(passed[k])
        BY <4>1
      <4> QED BY <4>1, <4>2, ConstantTypes DEF Back, Times
    <3>3. Len(buckets[q]) \in Nat /\ \A j \in 1 .. Len(buckets[q]) : buckets[q][j] \in Times
      BY <3>1, LenProperties DEF BucketTypes
    <3>4. i \in 1 .. Len(buckets[q]) /\ Len(buckets[q]) + 1 - i \in 1 .. Len(buckets[q])
      BY <3>1, <3>3
    <3>5. Back(buckets[q], i) \in Int
      BY <3>3, <3>4, ConstantTypes DEF Back, Times
    <3>6. now - Window \in Int
      BY ConstantTypes DEF Times
    <3>7. Back(buckets[q], i) > now - Window
      BY <2>2, <3>1, <3>2, <3>5, <3>6
    <3>8. /\ q \in DOMAIN buckets' /\ i <= Len(buckets'[q])
          /\ Back(buckets[q], i) <= Back(buckets'[q], i)
      BY <2>1, <3>1, <3>4, <3>7
    <3>9. Back(buckets'[q], i) \in Int
      <4>1. buckets'[q] \in Seq(Times)
        BY <2>1, <3>8 DEF BucketTypes
      <4>2. Len(buckets'[q]) \in Nat /\ \A j \in 1 .. Len(buckets'[q]) : buckets'[q][j] \in Times
        BY <4>1, LenProperties
      <4>3. Len(buckets'[q]) + 1 - i \in 1 .. Len(buckets'[q])
        BY <3>4, <3>8, <4>2
      <4> QED BY <4>2, <4>3, ConstantTypes DEF Back, Times
    <3> QED BY <3>1, <3>2, <3>5, <3>8, <3>9
  <2> QED BY <2>1, <2>2
<1> QED BY <1>1, <1>2

LEMMA KeysNext ==
  ASSUME TypeOK, [Next]_vars
  PROVE  KeysKept /\ keys' \in [Keys -> KeyRows]
<1>1. UNCHANGED keys => KeysKept /\ keys' \in [Keys -> KeyRows]
  BY DEF KeysKept, TypeOK
<1> QED BY <1>1, RequestSteps, KeysAfter DEF Rests, Stops, Works

\* Without a pass there is nothing new to bound.
LEMMA BoundKept ==
  ASSUME TypeOK, KeysKept, keys' \in [Keys -> KeyRows], PassedMade, RateBound, NEW k \in Keys,
         passed'[k] = passed[k] \/ passed'[k] = <<>>
  PROVE  /\ passed'[k] # <<>> => keys'[k].st # "unused"
         /\ LET limit == keys'[k].body.limit
            IN limit > 0 => \A i \in 1 .. Len(passed'[k]) - limit :
                              passed'[k][i + limit] - passed'[k][i] >= Window
<1>1. CASE passed'[k] = <<>>
  <2>1. Len(passed'[k]) = 0
    BY <1>1, EmptySeq
  <2>2. keys'[k].body.limit \in Nat
    BY DEF KeyRows, Bodies
  <2>3. \A i \in 1 .. 0 - keys'[k].body.limit : FALSE
    BY <2>2
  <2> QED BY <1>1, <2>1, <2>3
<1>2. CASE passed'[k] # <<>>
  <2>1. passed'[k] = passed[k] /\ keys[k].st # "unused"
    BY <1>2 DEF PassedMade
  <2>2. keys'[k].body = keys[k].body /\ keys'[k].st # "unused"
    BY <2>1 DEF KeysKept
  <2> QED BY <2>1, <2>2 DEF RateBound
<1> QED BY <1>1, <1>2

LEMMA LastWindow ==
  ASSUME NEW m \in Nat, NEW limit \in Nat, limit # 0, NEW i \in 1 .. (m + 1) - limit, i + limit > m
  PROVE  i = m + 1 - limit /\ limit \in 1 .. m /\ i \in 1 .. m /\ i + limit = m + 1
OBVIOUS

LEMMA PassStep ==
  ASSUME TypeOK, RateInv, now' = now, NEW k \in Keys,
         NEW limit \in Nat, limit # 0, limit = keys[k].body.limit,
         CountCall(Prefix[k], limit), UnderLimit(Prefix[k], limit),
         passed' = [passed EXCEPT ![k] = Append(@, now)]
  PROVE  /\ passed' \in [Keys -> Seq(Times)] /\ BucketTypes' /\ Tracked'
         /\ \A i \in 1 .. Len(passed'[k]) - limit :
              passed'[k][i + limit] - passed'[k][i] >= Window
<1> DEFINE p == Prefix[k]
           a == passed[k]
           n == Append(a, now)
<1>1. passed \in [Keys -> Seq(Times)] /\ now \in Times /\ p \in BucketNames
  BY DEF TypeOK, BucketNames
<1>2. a \in Seq(Times) /\ Len(a) \in Nat /\ \A i \in 1 .. Len(a) : a[i] \in Times
  BY <1>1, LenProperties
<1>3. n \in Seq(Times) /\ Len(n) = Len(a) + 1 /\ n[Len(a) + 1] = now
      /\ \A i \in 1 .. Len(a) : n[i] = a[i]
  BY <1>1, <1>2, AppendProperties
<1>4. passed' \in [Keys -> Seq(Times)] /\ passed'[k] = n
      /\ \A j \in Keys : j # k => passed'[j] = passed[j]
  BY <1>1, <1>3
<1>5. /\ BucketTypes'
      /\ \A j \in Keys : \A i \in 1 .. Len(passed[j]) :
           Back(passed[j], i) > now - Window =>
             /\ Prefix[j] \in DOMAIN buckets' /\ i <= Len(buckets'[Prefix[j]])
             /\ Back(passed[j], i) <= Back(buckets'[Prefix[j]], i)
  BY <1>1, CountedKeepsTrack DEF RateInv
<1>6. /\ p \in DOMAIN buckets'
      /\ Len(buckets'[p]) >= 1 /\ Back(buckets'[p], 1) = now
      /\ p \in DOMAIN buckets => \A i \in 1 .. Len(buckets[p]) :
           Back(buckets[p], i) > now - Window =>
             /\ i < limit /\ i + 1 <= Len(buckets'[p])
             /\ Back(buckets'[p], i + 1) = Back(buckets[p], i)
  BY <1>1, CountCallStep DEF RateInv
<1> HIDE DEF p, n
<1>7. now \in Nat /\ Window \in Nat /\ Window > 0 /\ Times \subseteq Nat
  BY <1>1, ConstantTypes DEF Times
<1>8. ASSUME NEW i \in 1 .. Len(a), Back(a, i) > now - Window
      PROVE  /\ i < limit /\ i + 1 <= Len(buckets'[p])
             /\ Back(a, i) <= Back(buckets'[p], i + 1)
  <2>1. p \in DOMAIN buckets /\ i <= Len(buckets[p]) /\ Back(a, i) <= Back(buckets[p], i)
    BY <1>8 DEF RateInv, Tracked, p
  <2>2. buckets[p] \in Seq(Times)
    BY <2>1 DEF RateInv, BucketTypes
  <2>3. Len(buckets[p]) \in Nat /\ \A j \in 1 .. Len(buckets[p]) : buckets[p][j] \in Times
    BY <2>2, LenProperties
  <2>4. i \in 1 .. Len(buckets[p]) /\ Len(buckets[p]) + 1 - i \in 1 .. Len(buckets[p])
        /\ Len(a) + 1 - i \in 1 .. Len(a)
    BY <1>2, <2>1, <2>3
  <2>5. Back(buckets[p], i) \in Nat /\ Back(a, i) \in Nat
    BY <1>2, <1>7, <2>3, <2>4 DEF Back
  <2>6. Back(buckets[p], i) > now - Window
    BY <1>7, <1>8, <2>1, <2>5
  <2> QED BY <1>6, <2>1, <2>4, <2>6
<1>9. Tracked'
  <2> SUFFICES ASSUME NEW j \in Keys, NEW i \in 1 .. Len(passed'[j]),
                      Back(passed'[j], i) > now - Window
               PROVE  /\ Prefix[j] \in DOMAIN buckets' /\ i <= Len(buckets'[Prefix[j]])
                      /\ Back(passed'[j], i) <= Back(buckets'[Prefix[j]], i)
    BY DEF Tracked, Back
  <2>1. CASE j # k
    BY <1>4, <1>5, <2>1
  <2>2. CASE j = k /\ i = 1
    <3>1. Back(n, 1) = now
      BY <1>2, <1>3 DEF Back
    <3>2. Prefix[j] = p /\ Back(passed'[j], i) = now /\ Back(buckets'[p], i) = now
      BY <1>4, <1>6, <2>2, <3>1 DEF p
    <3> QED BY <1>6, <1>7, <2>2, <3>2
  <2>3. CASE j = k /\ i # 1
    <3>1. i - 1 \in 1 .. Len(a) /\ (i - 1) + 1 = i
      BY <1>2, <1>3, <1>4, <2>3
    <3>2. Back(n, i) = Back(a, i - 1)
      <4>1. Len(a) + 1 - (i - 1) \in 1 .. Len(a) /\ Len(a) + 1 + 1 - i = Len(a) + 1 - (i - 1)
        BY <1>2, <3>1
      <4> QED BY <1>3, <4>1 DEF Back
    <3>3. Back(a, i - 1) > now - Window
      BY <1>4, <2>3, <3>2
    <3>4. i <= Len(buckets'[p]) /\ Back(a, i - 1) <= Back(buckets'[p], i)
      BY <1>8, <3>1, <3>3
    <3> QED BY <1>4, <1>6, <2>3, <3>2, <3>4 DEF p
  <2> QED BY <2>1, <2>2, <2>3
<1>10. ASSUME NEW i \in 1 .. Len(n) - limit
       PROVE  n[i + limit] - n[i] >= Window
  <2>1. CASE i + limit <= Len(a)
    <3>1. i \in 1 .. Len(a) /\ i + limit \in 1 .. Len(a) /\ i \in 1 .. Len(a) - limit
      BY <1>2, <2>1, SMTT(30)
    <3>2. a[i + limit] - a[i] >= Window
      <4>1. keys[k].body.limit > 0 /\ i \in 1 .. Len(passed[k]) - keys[k].body.limit
        BY <3>1
      <4> QED BY <4>1 DEF RateInv, RateBound
    <3> QED BY <1>3, <3>1, <3>2
  <2>2. CASE i + limit > Len(a)
    <3>1. i = Len(a) + 1 - limit /\ limit \in 1 .. Len(a) /\ i \in 1 .. Len(a) /\ i + limit = Len(a) + 1
      <4>1. i \in 1 .. (Len(a) + 1) - limit
        BY <1>3
      <4> QED BY <1>2, <2>2, <4>1, LastWindow
    <3>2. n[i + limit] = now /\ n[i] = Back(a, limit)
      BY <1>3, <3>1 DEF Back
    <3>3. ~(Back(a, limit) > now - Window)
      BY <1>8, <3>1
    <3>4. Back(a, limit) \in Nat
      BY <1>2, <1>7, <3>1 DEF Back
    <3> QED BY <1>7, <3>2, <3>3, <3>4
  <2> QED BY <1>2, <2>1, <2>2
<1> QED BY <1>4, <1>5, <1>9, <1>10

LEMMA RateStep ==
  ASSUME TypeOK, CallersMade, RateInv, [Next]_vars
  PROVE  /\ RateInv' /\ passed' \in [Keys -> Seq(Times)]
         /\ lastEvict' \in Times \cup {-Window}
<1>1. KeysKept /\ keys' \in [Keys -> KeyRows]
  BY KeysNext
<1>2. /\ passed \in [Keys -> Seq(Times)] /\ now \in Times /\ lastEvict \in Times \cup {-Window}
      /\ keys \in [Keys -> KeyRows]
  BY DEF TypeOK
<1>3. ASSUME \A k \in Keys : passed'[k] = passed[k] \/ passed'[k] = <<>>
      PROVE  PassedMade' /\ RateBound'
  <2>1. \A k \in Keys :
          /\ passed'[k] # <<>> => keys'[k].st # "unused"
          /\ LET limit == keys'[k].body.limit
             IN limit > 0 => \A i \in 1 .. Len(passed'[k]) - limit :
                               passed'[k][i + limit] - passed'[k][i] >= Window
    BY <1>1, <1>3, BoundKept DEF RateInv
  <2> QED BY <2>1 DEF PassedMade, RateBound
<1>4. CASE UNCHANGED <<buckets, lastEvict, passed>> /\ now' \in Times /\ now <= now'
  <2>1. BucketTypes'
    <3>1. ASSUME NEW p \in DOMAIN buckets
          PROVE  Timely(buckets[p])'
      <4>1. buckets[p] \in Seq(Times) /\ Timely(buckets[p])
        BY DEF RateInv, BucketTypes
      <4>2. \A i \in 1 .. Len(buckets[p]) : buckets[p][i] \in Times
        BY <4>1, LenProperties
      <4>3. \A i \in 1 .. Len(buckets[p]) : buckets[p][i] <= now'
        BY <1>2, <1>4, <4>1, <4>2, ConstantTypes DEF Timely, Times
      <4> QED BY <1>4, <4>1, <4>3 DEF Timely
    <3> QED BY <1>4, <3>1 DEF RateInv, BucketTypes
  <2>2. Tracked'
    <3> SUFFICES ASSUME NEW k \in Keys, NEW i \in 1 .. Len(passed[k]),
                        Back(passed[k], i) > now' - Window
                 PROVE  Back(passed[k], i) > now - Window
      BY <1>4 DEF RateInv, Tracked, Back
    <3>1. Len(passed[k]) \in Nat /\ \A j \in 1 .. Len(passed[k]) : passed[k][j] \in Times
      BY <1>2, LenProperties
    <3>2. Len(passed[k]) + 1 - i \in 1 .. Len(passed[k])
      BY <3>1
    <3>3. Back(passed[k], i) \in Int
      BY <3>1, <3>2, ConstantTypes DEF Back, Times
    <3> QED BY <1>2, <1>4, <3>3, ConstantTypes DEF Times
  <2> QED BY <1>2, <1>3, <1>4, <2>1, <2>2 DEF RateInv
<1>5. CASE buckets' = NoBuckets /\ lastEvict' = -Window /\ passed' = NoPasses /\ now' = now
  <2>1. DOMAIN NoBuckets = {} /\ NoBuckets \in [{} -> Seq(Times)]
    BY DEF NoBuckets
  <2>2. BucketTypes'
    BY <1>5, <2>1 DEF BucketTypes
  <2>3. <<>> \in Seq(Times) /\ Len(<<>>) = 0
    BY EmptySeq
  <2>4. passed' \in [Keys -> Seq(Times)] /\ \A k \in Keys : passed'[k] = <<>>
    BY <1>5, <2>3 DEF NoPasses
  <2>5. Tracked'
    BY <2>3, <2>4 DEF Tracked
  <2> QED BY <1>3, <1>5, <2>2, <2>4, <2>5 DEF RateInv
<1>6. CASE CountCall(BootPrefix, BootLimit) /\ UNCHANGED <<passed, now, keys>>
  <2>1. BootPrefix \in BucketNames /\ BootLimit \in Nat
    BY ConstantTypes DEF BucketNames
  <2>2. BucketTypes' /\ lastEvict' \in Times \cup {-Window}
    BY <1>2, <1>6, <2>1, CountedKeepsTrack, CountCallTypes DEF RateInv
  <2>3. \A k \in Keys : \A i \in 1 .. Len(passed[k]) :
          Back(passed[k], i) > now - Window =>
            /\ Prefix[k] \in DOMAIN buckets' /\ i <= Len(buckets'[Prefix[k]])
            /\ Back(passed[k], i) <= Back(buckets'[Prefix[k]], i)
    BY <1>2, <1>6, <2>1, CountedKeepsTrack DEF RateInv
  <2>4. Tracked'
    BY <1>6, <2>3 DEF Tracked, Back
  <2> QED BY <1>2, <1>3, <1>6, <2>2, <2>4 DEF RateInv
<1>7. ASSUME NEW s \in Slots, Counts(s)
      PROVE  /\ RateInv' /\ passed' \in [Keys -> Seq(Times)]
             /\ lastEvict' \in Times \cup {-Window}
  <2>1. PICK k \in Keys : k = req[s].call.cred
    BY <1>7 DEF Counts
  <2>2. PICK limit \in Nat : limit = keys[k].body.limit
    BY <1>2 DEF KeyRows, Bodies
  <2>3. UNCHANGED keys /\ now' = now /\ CountCall(Prefix[k], limit) /\ keys[k].st # "unused"
    BY <1>7, <2>1, <2>2 DEF Counts, CallersMade
  <2>4. Prefix[k] \in BucketNames
    BY DEF BucketNames
  <2>5. lastEvict' \in Times \cup {-Window}
    BY <2>3, CountCallTypes
  <2>6. CASE UNCHANGED passed
    <3>1. /\ BucketTypes'
          /\ \A j \in Keys : \A i \in 1 .. Len(passed[j]) :
               Back(passed[j], i) > now - Window =>
                 /\ Prefix[j] \in DOMAIN buckets' /\ i <= Len(buckets'[Prefix[j]])
                 /\ Back(passed[j], i) <= Back(buckets'[Prefix[j]], i)
      BY <1>2, <2>3, <2>4, CountedKeepsTrack DEF RateInv
    <3>2. Tracked'
      BY <2>3, <2>6, <3>1 DEF Tracked, Back
    <3> QED BY <1>2, <1>3, <2>5, <2>6, <3>1, <3>2 DEF RateInv
  <2>7. CASE UnderLimit(Prefix[k], limit) /\ limit # 0 /\ passed' = [passed EXCEPT ![k] = Append(@, now)]
    <3>1. /\ passed' \in [Keys -> Seq(Times)] /\ BucketTypes' /\ Tracked'
          /\ \A i \in 1 .. Len(passed'[k]) - limit :
               passed'[k][i + limit] - passed'[k][i] >= Window
      BY <2>2, <2>3, <2>7, PassStep
    <3>2. \A j \in Keys : j # k => passed'[j] = passed[j]
      BY <1>2, <2>7
    <3>3. PassedMade'
      BY <2>3, <3>2 DEF RateInv, PassedMade
    <3>4. RateBound'
      <4>1. \A j \in Keys : j # k =>
              LET l == keys'[j].body.limit
              IN l > 0 => \A i \in 1 .. Len(passed'[j]) - l :
                            passed'[j][i + l] - passed'[j][i] >= Window
        BY <2>3, <3>2 DEF RateInv, RateBound
      <4> QED BY <2>2, <2>3, <3>1, <4>1 DEF RateBound
    <3> QED BY <2>5, <3>1, <3>3, <3>4 DEF RateInv
  <2> QED BY <1>7, <2>1, <2>2, <2>6, <2>7 DEF Counts
<1> QED BY <1>4, <1>5, <1>6, <1>7, WindowsStep DEF Windows
----------------------------------------------------------------------------
(* Types *)

HashTypes == hashed \in Seq(Keys) /\ Len(hashed) <= HashMax /\ IsInjective(hashed)

\* The cache has no key twice and never grows beyond its size.
LEMMA HashDoneTypes ==
  ASSUME NEW s \in Slots, TypeOK, HashDone(s)
  PROVE  HashTypes'
<1> DEFINE k    == req[s].call.cred
           kept == IF Len(hashed) >= HashMax
                   THEN SubSeq(hashed, HashEvict + 1, Len(hashed)) ELSE hashed
<1>1. /\ hashed \in Seq(Keys) /\ Len(hashed) <= HashMax /\ IsInjective(hashed) /\ k \in Keys
  BY DEF TypeOK, HashDone
<1>2. /\ Len(hashed) \in Nat /\ DOMAIN hashed = 1 .. Len(hashed)
      /\ \A i \in 1 .. Len(hashed) : hashed[i] \in Keys
  BY <1>1, LenProperties
<1>3. HashMax \in Nat /\ HashEvict \in 1 .. HashMax
  BY ConstantTypes
<1>4. kept \in Seq(Keys) /\ Len(kept) < HashMax /\ IsInjective(kept)
  <2>1. CASE Len(hashed) < HashMax
    <3>1. kept = hashed
      BY <1>2, <1>3, <2>1
    <3> QED BY <1>1, <2>1, <3>1
  <2>2. CASE Len(hashed) >= HashMax
    <3> DEFINE m == HashEvict + 1
               l == SubSeq(hashed, m, Len(hashed))
    <3>1. Len(hashed) = HashMax /\ m \in 2 .. Len(hashed) + 1
      <4>1. Len(hashed) = HashMax
        <5>1. Len(hashed) <= HashMax /\ Len(hashed) \in Nat /\ HashMax \in Nat
          BY <1>1, <1>2, <1>3
        <5> QED BY <2>2, <5>1
      <4>2. HashEvict \in 1 .. Len(hashed)
        BY <1>3, <4>1
      <4> QED BY <1>2, <4>1, <4>2
    <3>2. (IF m <= Len(hashed) THEN Len(hashed) - m + 1 ELSE 0) = Len(hashed) - m + 1
      BY <1>2, <3>1
    <3>3. \A i \in m .. Len(hashed) : hashed[i] \in Keys
      BY <1>2, <3>1
    <3>4. m \in Int /\ Len(hashed) \in Int
      BY <1>2, <3>1
    <3>5. kept = l
      BY <2>2
    <3> HIDE DEF m, kept
    <3>6. l \in Seq(Keys) /\ Len(l) = Len(hashed) - m + 1
          /\ \A i \in 1 .. Len(hashed) - m + 1 : l[i] = hashed[m + i - 1]
      BY <3>2, <3>3, <3>4, SubSeqProperties
    <3>7. DOMAIN l = 1 .. Len(hashed) - m + 1
      BY <3>6, LenProperties
    <3> HIDE DEF l
    <3>8. IsInjective(l)
      <4> SUFFICES ASSUME NEW i \in 1 .. Len(hashed) - m + 1, NEW j \in 1 .. Len(hashed) - m + 1,
                          l[i] = l[j]
                   PROVE  i = j
        BY <3>7 DEF IsInjective
      <4>1. m + i - 1 \in 1 .. Len(hashed) /\ m + j - 1 \in 1 .. Len(hashed)
        BY <1>2, <3>1
      <4>2. hashed[m + i - 1] = hashed[m + j - 1]
        BY <3>6
      <4>3. m + i - 1 = m + j - 1
        BY <1>1, <1>2, <4>1, <4>2 DEF IsInjective
      <4> QED BY <3>1, <4>3
    <3>9. Len(l) < HashMax
      BY <1>2, <3>1, <3>6
    <3> QED BY <3>5, <3>6, <3>8, <3>9
  <2> QED BY <1>2, <1>3, <2>1, <2>2
<1>5. hashed' = IF k \in ToSet(kept) THEN kept ELSE Append(kept, k)
  BY DEF HashDone
<1> HIDE DEF kept, k
<1>6. /\ Len(kept) \in Nat /\ DOMAIN kept = 1 .. Len(kept)
  BY <1>4, LenProperties
<1>7. CASE k \in ToSet(kept)
  BY <1>3, <1>4, <1>5, <1>6, <1>7 DEF HashTypes
<1>8. CASE k \notin ToSet(kept)
  <2> DEFINE l == Append(kept, k)
  <2>1. l \in Seq(Keys) /\ Len(l) = Len(kept) + 1 /\ l[Len(kept) + 1] = k
        /\ \A i \in 1 .. Len(kept) : l[i] = kept[i]
    BY <1>1, <1>4, AppendProperties
  <2>2. DOMAIN l = 1 .. Len(kept) + 1
    BY <2>1, LenProperties
  <2>3. \A i \in 1 .. Len(kept) : kept[i] # k
    BY <1>6, <1>8 DEF ToSet
  <2> HIDE DEF l
  <2>4. IsInjective(l)
    <3> SUFFICES ASSUME NEW i \in 1 .. Len(kept) + 1, NEW j \in 1 .. Len(kept) + 1, l[i] = l[j]
                 PROVE  i = j
      BY <2>2 DEF IsInjective
    <3>1. i \in 1 .. Len(kept) \/ i = Len(kept) + 1
      BY <1>6
    <3>2. j \in 1 .. Len(kept) \/ j = Len(kept) + 1
      BY <1>6
    <3> QED BY <1>4, <1>6, <2>1, <2>3, <3>1, <3>2 DEF IsInjective
  <2>5. hashed' = l
    BY <1>5, <1>8 DEF l
  <2> QED BY <1>3, <1>4, <1>6, <2>1, <2>4, <2>5 DEF HashTypes
<1> QED BY <1>7, <1>8

LEMMA HashesStep ==
  ASSUME TypeOK, [Next]_vars
  PROVE  HashTypes'
<1>1. CASE UNCHANGED hashed
  BY <1>1 DEF TypeOK, HashTypes
<1>2. CASE hashed' = <<>>
  <2>1. <<>> \in Seq(Keys) /\ Len(<<>>) = 0
    BY EmptySeq
  <2>2. DOMAIN <<>> = 1 .. 0
    BY <2>1, LenProperties
  <2>3. IsInjective(<<>>)
    BY <2>2 DEF IsInjective
  <2> QED BY <1>2, <2>1, <2>3, ConstantTypes DEF HashTypes
<1>3. \A s \in Slots : Refreshed(s) \/ DeleteKey(s) => UNCHANGED hashed \/ hashed' = <<>>
  BY DEF Refreshed, DeleteKey, InvalidateHashes
<1>4. \A s \in Slots : (Handle(s) \/ Audit(s)) /\ ~Refreshed(s) /\ ~DeleteKey(s) => UNCHANGED hashed
  BY DEF Handle, CreateKey, InsertKey, FindKey, Deactivate, CreateTenant, InsertTenant,
     CountModels, CountKeys, DropTenant, FindTenant, InsertRole, DeleteRole, CreateModel, Read,
     Audit, mem
<1>5. \A s \in Slots : Arrive(s) \/ Verify(s) \/ Touch(s) => UNCHANGED hashed
  BY DEF Arrive, Verify, Touch, mem
<1>6. Restart => hashed' = <<>>
  BY DEF Restart, InvalidateHashes
<1>7. Tick \/ UNCHANGED vars => UNCHANGED hashed
  BY DEF Tick, vars, mem
<1> QED BY <1>1, <1>2, <1>3, <1>4, <1>5, <1>6, <1>7, HashDoneTypes DEF Next

LEMMA TouchedStep ==
  ASSUME TypeOK, [Next]_vars
  PROVE  touched' \in [Keys -> Times \cup {-TouchEvery}] /\ now' \in Times /\ calls' \in 0 .. MaxCalls
<1>1. touched \in [Keys -> Times \cup {-TouchEvery}] /\ now \in Times /\ calls \in 0 .. MaxCalls
  BY DEF TypeOK
<1>2. CASE UNCHANGED <<touched, now, calls>>
  BY <1>1, <1>2
<1>3. ASSUME NEW s \in Slots, Verify(s)
      PROVE  touched' \in [Keys -> Times \cup {-TouchEvery}] /\ UNCHANGED <<now, calls>>
  <2>1. UNCHANGED touched \/ touched' = [touched EXCEPT ![req[s].call.cred] = now]
    BY <1>3 DEF Verify, mem
  <2> QED BY <1>1, <1>3, <2>1 DEF Verify, env
<1>4. ASSUME NEW s \in Slots, Arrive(s)
      PROVE  UNCHANGED <<touched, now>> /\ calls' \in 0 .. MaxCalls
  <2>1. UNCHANGED <<touched, now>> /\ calls < MaxCalls /\ calls' = calls + 1
    BY <1>4 DEF Arrive, mem
  <2> QED BY <1>1, <2>1, ConstantTypes
<1>5. CASE Tick
  <2>1. UNCHANGED <<touched, calls>> /\ now < MaxTime /\ now' = now + 1
    BY <1>5 DEF Tick, mem
  <2>2. now' \in Times
    BY <1>1, <2>1, ConstantTypes DEF Times
  <2> QED BY <1>1, <2>1, <2>2
<1>6. CASE Restart
  BY <1>1, <1>6 DEF Restart, Untouched, env
<1>7. \A s \in Slots : Handle(s) \/ Audit(s) => UNCHANGED <<touched, now, calls>>
  BY DEF Handle, CreateKey, InsertKey, FindKey, Deactivate, Refreshed, DeleteKey, CreateTenant,
     InsertTenant, CountModels, CountKeys, DropTenant, FindTenant, InsertRole, DeleteRole,
     CreateModel, Read, Audit, mem, env
<1>8. \A s \in Slots : HashDone(s) \/ Touch(s) => UNCHANGED <<touched, now, calls>>
  BY DEF HashDone, Touch, env
<1>9. UNCHANGED vars => UNCHANGED <<touched, now, calls>>
  BY DEF vars, mem, env
<1> QED BY <1>1, <1>2, <1>3, <1>4, <1>5, <1>6, <1>7, <1>8, <1>9 DEF Next

LEMMA RequestTypes ==
  ASSUME TypeOK, [Next]_vars
  PROVE  /\ req' \in [Slots -> Requests]
         /\ \A s \in Slots : req'[s].pc \in {"hash", "verify", "touch", "audit"} =>
              req'[s].call.cred \in Keys
<1>0. /\ req \in [Slots -> Requests]
      /\ \A s \in Slots : req[s].pc \in {"hash", "verify", "touch", "audit"} =>
           req[s].call.cred \in Keys
  BY DEF TypeOK
<1>1. CASE Rests
  BY <1>0, <1>1 DEF Rests
<1>2. CASE Stops
  <2>1. \A s \in Slots : req'[s] = Idle
    BY <1>2 DEF Stops
  <2> QED BY <1>2, <2>1, IdleRequest DEF Stops
<1>3. ASSUME NEW s \in Slots, Works(s)
      PROVE  /\ req' \in [Slots -> Requests]
             /\ \A u \in Slots : req'[u].pc \in {"hash", "verify", "touch", "audit"} =>
                  req'[u].call.cred \in Keys
  <2>1. Moves(s) \/ Arrives(s)
    BY <1>3 DEF Works, Looks, Admits, Serves
  <2>2. req' \in [Slots -> Requests] /\ \A u \in Slots : u # s => req'[u] = req[u]
    BY <2>1 DEF Moves, Arrives
  <2>3. req'[s].pc \in {"hash", "verify", "touch", "audit"} => req'[s].call.cred \in Keys
    BY <2>1, IdleRequest DEF Moves, Arrives
  <2> QED BY <1>0, <2>2, <2>3
<1> QED BY <1>1, <1>2, <1>3, RequestSteps

\* Everything that holds of every hub, whatever its clients send.
AccessInv == TypeOK /\ CallersMade /\ LateRevoked /\ RateInv /\ TenantRefs

LEMMA AccessStep == AccessInv /\ [Next]_vars => AccessInv'
<1> SUFFICES ASSUME AccessInv, [Next]_vars
             PROVE  AccessInv'
  OBVIOUS
<1> USE DEF AccessInv
<1>1. tenants' \subseteq Tenants /\ TenantRefs'
  BY TablesStep
<1>2. roles' \cup models' \cup audits' \subseteq Tenants
  BY <1>1 DEF TenantRefs
<1>3. mode' \in Modes
  BY ModeStep DEF TypeOK
<1>4. keys' \in [Keys -> KeyRows]
  BY KeysNext
<1>5. HashTypes'
  BY HashesStep
<1>6. /\ RateInv' /\ passed' \in [Keys -> Seq(Times)]
      /\ lastEvict' \in Times \cup {-Window}
  BY RateStep
<1>7. touched' \in [Keys -> Times \cup {-TouchEvery}] /\ now' \in Times /\ calls' \in 0 .. MaxCalls
  BY TouchedStep
<1>8. /\ req' \in [Slots -> Requests]
      /\ \A s \in Slots : req'[s].pc \in {"hash", "verify", "touch", "audit"} =>
           req'[s].call.cred \in Keys
  BY RequestTypes
<1>9. TypeOK'
  BY <1>1, <1>2, <1>3, <1>4, <1>5, <1>6, <1>7, <1>8 DEF TypeOK, HashTypes, RateInv, BucketTypes
<1>10. CallersMade' /\ LateRevoked'
  BY CallersStep, LateStep
<1> QED BY <1>1, <1>6, <1>9, <1>10

LEMMA AccessStart == Init => AccessInv
<1> SUFFICES ASSUME Init PROVE AccessInv
  OBVIOUS
<1>1. PICK d \in Databases : keys = d.keys /\ tenants = d.tenants
  BY DEF Init
<1>2. LeftBehind(d)
  BY AccessAssumption
<1>3. keys \in [Keys -> KeyRows] /\ tenants \subseteq Tenants /\ NamedBy(keys) \subseteq tenants
  BY <1>1, <1>2 DEF LeftBehind
<1>4. \A s \in Slots : req[s] = Idle
  BY DEF Init
<1>5. req \in [Slots -> Requests]
  BY IdleRequest DEF Init
<1>6. CallersMade /\ LateRevoked
  BY <1>4, IdleRequest, ConstantTypes DEF CallersMade, LateRevoked
<1>7. TenantRefs
  BY <1>3 DEF Init, TenantRefs
<1>8. now = 0 /\ now \in Times /\ calls \in 0 .. MaxCalls
  BY ConstantTypes DEF Init, Times
<1>9. <<>> \in Seq(Times) /\ <<>> \in Seq(Keys) /\ Len(<<>>) = 0
  BY EmptySeq
<1>10. HashTypes
  <2>1. <<>> \in Seq(Keys)
    BY <1>9
  <2>2. DOMAIN <<>> = 1 .. 0
    BY <1>9, LenProperties
  <2>3. IsInjective(<<>>)
    BY <2>2 DEF IsInjective
  <2> QED BY <1>9, <2>3, ConstantTypes DEF Init, HashTypes
<1>11. passed \in [Keys -> Seq(Times)] /\ \A k \in Keys : passed[k] = <<>>
  BY <1>9 DEF Init, NoPasses
<1>12. BucketTypes /\ DOMAIN buckets = {}
  BY DEF Init, NoBuckets, BucketTypes
<1>13. Tracked /\ PassedMade
  BY <1>9, <1>11 DEF Tracked, PassedMade
<1>14. RateBound
  <2> SUFFICES ASSUME NEW k \in Keys, keys[k].body.limit > 0,
                      NEW i \in 1 .. Len(passed[k]) - keys[k].body.limit
               PROVE  FALSE
    BY DEF RateBound
  <2>1. Len(passed[k]) = 0 /\ keys[k].body.limit \in Nat
    BY <1>3, <1>9, <1>11 DEF KeyRows, Bodies
  <2> QED BY <2>1
<1>15. touched \in [Keys -> Times \cup {-TouchEvery}] /\ lastEvict \in Times \cup {-Window}
  BY DEF Init, Untouched
<1>16. TypeOK
  BY <1>3, <1>4, <1>5, <1>8, <1>10, <1>11, <1>12, <1>15, IdleRequest
     DEF TypeOK, Init, HashTypes, BucketTypes
<1> QED BY <1>6, <1>7, <1>12, <1>13, <1>14, <1>16 DEF AccessInv, RateInv

LEMMA AccessInductive == Spec => []AccessInv
<1>1. Init => AccessInv
  BY AccessStart
<1>2. AccessInv /\ [Next]_vars => AccessInv'
  BY AccessStep
<1> QED BY <1>1, <1>2, PTL DEF Spec

----------------------------------------------------------------------------

\* Admission: every variable keeps its type; a request that came when its key
\* had been revoked never gets past the lookup of verify_api_key; and in no
\* window does check_rate_limit let a key pass more often than its limit,
\* whatever shares its bucket or sweeps it.
THEOREM AdmissionAlwaysTrue == Spec => []AdmissionTrue
<1>1. AccessInv => AdmissionTrue
  <2> SUFFICES ASSUME AccessInv PROVE AdmissionTrue
    OBVIOUS
  <2>1. RevocationHolds
    BY DEF AccessInv, LateRevoked, RevocationHolds
  <2> QED BY <2>1 DEF AccessInv, RateInv, AdmissionTrue
<1> QED BY <1>1, AccessInductive, PTL

\* No row of any table names a tenant that is not there: delete_tenant's counts
\* are not enough for that, the foreign keys are.
THEOREM TenantsAlwaysThere == Spec => []TenantRefs
<1>1. AccessInv => TenantRefs
  BY DEF AccessInv
<1> QED BY <1>1, AccessInductive, PTL

\* And the keys that create_key makes for an admin are keys of the tenant that
\* the request named in X-Fusion-Tenant or, where it named none, of the tenant
\* of the admin's own key: through any chain of keys, whatever the clients put in
\* the header and in the bodies.
THEOREM TenantsAlwaysTrue == Spec => []TenantsTrue
<1>1. Init => PinInv
  <2> SUFFICES ASSUME Init PROVE PinInv
    OBVIOUS
  <2>1. PICK d \in Databases : keys = d.keys /\ tenants = d.tenants
    BY DEF Init
  <2>2. LeftBehind(d) /\ mode \in Modes
    BY AccessAssumption DEF Init
  <2>3. MakersMade /\ TenantPinned
    BY <2>1, <2>2 DEF LeftBehind, MakersMade, TenantPinned
  <2>4. \A s \in Slots : req[s].call.cred = NoOne
    BY DEF Init, Idle, NoCall
  <2>5. Stamped
    BY <2>4, ConstantTypes DEF Stamped
  <2> QED BY <2>3, <2>5 DEF PinInv
<1>2. AccessInv /\ PinInv /\ [Next]_vars => PinInv'
  BY StampedStep, PinnedStep DEF AccessInv, PinInv
<1>3. AccessInv /\ PinInv => TenantsTrue
  BY DEF AccessInv, PinInv, TenantsTrue
<1> QED BY <1>1, <1>2, <1>3, AccessInductive, PTL DEF Spec
=============================================================================
