---------------------------- MODULE ShellRegistry ----------------------------
(* The registration of the hub's console with the gateway                  *)
(* (server/shell_registry.py): the hub registers its manifest, keeps the     *)
(* key the gateway issues in <data_dir>/web_module_key, beats every 15       *)
(* seconds, and registers again when the gateway has forgotten it or no      *)
(* longer takes its key.  The gateway is external: it lists manifests until  *)
(* it restarts, and shows a key once, in the answer that issues it.          *)
EXTENDS Naturals

CONSTANT
  MaxMishaps  \* bound: restarts, revocations, rotations, refusals, lost messages

ASSUME ShellAssumption == MaxMishaps \in Nat

VARIABLES
  shell,     \* _registry_loop_body: where it is, registered, the key in the message, the answer
  keyFile,   \* the key in web_module_key, 0 when there is none
  gateway,   \* listed there, the key it takes, how many it has issued, and whether
             \* the hub can have seen the one it takes
  mishaps

shellVars == <<shell, keyFile, gateway, mishaps>>

Loop(at, registered, key, code) ==
  [at |-> at, registered |-> registered, key |-> key, code |-> code]

Mishap == mishaps < MaxMishaps /\ mishaps' = mishaps + 1

ShellInit ==
  /\ shell = Loop("asleep", FALSE, 0, 0)
  /\ keyFile = 0
  /\ gateway = [listed |-> FALSE, key |-> 0, issued |-> 0, shown |-> FALSE]
  /\ mishaps = 0

-----------------------------------------------------------------------------
(* The loop                                                                *)

\* The credential of a heartbeat: the key in the file, else the admin key (0).
Wake ==
  /\ shell.at = "asleep"
  /\ shell' = IF shell.registered THEN Loop("beating", TRUE, keyFile, 0)
                                  ELSE Loop("registering", FALSE, 0, 0)
  /\ UNCHANGED <<keyFile, gateway, mishaps>>

KeyIsLost == gateway' = [gateway EXCEPT !.shown = @ /\ shell.key # gateway.key]

\* A new key is written to the file; an unwritable file is only logged.
SaveKey ==
  \/ keyFile' = (IF shell.key = 0 THEN keyFile ELSE shell.key) /\ UNCHANGED <<gateway, mishaps>>
  \/ shell.key # 0 /\ Mishap /\ KeyIsLost /\ UNCHANGED keyFile

Registered ==
  /\ shell.at = "registered"
  /\ shell' = Loop("asleep", shell.code = 200, 0, 0)
  /\ SaveKey

\* Mutant: an unknown manifest is a failed heartbeat like any other.
KeyRefusedOnly(code, key) == code = 401 /\ key # 0

Forgotten(code, key) == code = 404 \/ (code = 401 /\ key # 0)

Beaten ==
  /\ shell.at = "beaten"
  /\ shell' = Loop("asleep", ~Forgotten(shell.code, shell.key), 0, 0)
  /\ UNCHANGED <<keyFile, gateway, mishaps>>

\* A connection that fails or times out is logged; the next tick tries again.
Unreachable ==
  /\ shell.at # "asleep"
  /\ Mishap
  /\ shell' = Loop("asleep", shell.registered, 0, 0)
  /\ IF shell.at = "registered" THEN KeyIsLost ELSE UNCHANGED gateway
  /\ UNCHANGED keyFile

-----------------------------------------------------------------------------
(* The gateway                                                             *)

GatewayRegisters ==
  /\ shell.at = "registering"
  /\ LET fresh == gateway.issued + 1
     IN IF gateway.key = 0
          THEN /\ gateway' = [listed |-> TRUE, key |-> fresh, issued |-> fresh, shown |-> TRUE]
               /\ shell' = Loop("registered", FALSE, fresh, 200)
          ELSE /\ gateway' = [gateway EXCEPT !.listed = TRUE]
               /\ shell' = Loop("registered", FALSE, 0, 200)
  /\ UNCHANGED <<keyFile, mishaps>>

GatewayBeats ==
  /\ shell.at = "beating"
  /\ shell' = [shell EXCEPT !.at = "beaten",
                            !.code = IF ~gateway.listed THEN 404
                                     ELSE IF shell.key \notin {0, gateway.key} THEN 401 ELSE 200]
  /\ UNCHANGED <<keyFile, gateway, mishaps>>

GatewayFails ==
  /\ shell.at \in {"registering", "beating"}
  /\ Mishap
  /\ shell' = [shell EXCEPT !.at = IF @ = "registering" THEN "registered" ELSE "beaten", !.code = 500]
  /\ UNCHANGED <<keyFile, gateway>>

GatewayRestarts ==
  /\ gateway.listed /\ Mishap
  /\ gateway' = [gateway EXCEPT !.listed = FALSE]
  /\ UNCHANGED <<shell, keyFile>>

GatewayRevokes ==
  /\ gateway.key # 0 /\ Mishap
  /\ gateway' = [gateway EXCEPT !.key = 0]
  /\ UNCHANGED <<shell, keyFile>>

\* The new key is shown to the gateway's admin.
GatewayRotates ==
  /\ Mishap
  /\ gateway' = [gateway EXCEPT !.key = gateway.issued + 1, !.issued = @ + 1, !.shown = FALSE]
  /\ UNCHANGED <<shell, keyFile>>

\* The hub is stopped and started: the loop begins anew, the file is there.
HubRestarts ==
  /\ Mishap
  /\ shell' = Loop("asleep", FALSE, 0, 0)
  /\ IF shell.at = "registered" THEN KeyIsLost ELSE UNCHANGED gateway
  /\ UNCHANGED keyFile

-----------------------------------------------------------------------------

ShellLoop == Wake \/ Registered \/ Beaten \/ Unreachable

Gateway == GatewayRegisters \/ GatewayBeats \/ GatewayFails

ShellNext ==
  \/ ShellLoop \/ Gateway
  \/ GatewayRestarts \/ GatewayRevokes \/ GatewayRotates \/ HubRestarts

-----------------------------------------------------------------------------
(* Properties                                                              *)

\* "re-registering after gateway restarts or key rotation": a manifest the
\* gateway has dropped is listed again, and when it has revoked the key, a hub
\* that has one in its file gets another, which is in the file too if the answer
\* that showed it was not lost.
ShellRecovers ==
  /\ ~gateway.listed ~> gateway.listed
  /\ gateway.key = 0 /\ keyFile # 0 ~> gateway.key # 0 /\ (gateway.shown => keyFile = gateway.key)
=============================================================================
