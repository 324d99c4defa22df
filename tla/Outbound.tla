------------------------------ MODULE Outbound ------------------------------
(* What one hub process does on its own account against other services: a   *)
(* download (Downloads), advice that asks the engine (Advice) and the        *)
(* registration with the gateway (ShellRegistry).  They share the process    *)
(* and nothing else, no row, file, cache or lock, and neither do requests for *)
(* advice of different kinds: a behaviour follows one of them.              *)
EXTENDS Downloads, Advice, ShellRegistry

VARIABLE focus

outVars == <<vars, adviceVars, shellVars, focus>>

OutInit ==
  /\ Init /\ AdviceInit /\ ShellInit
  /\ focus \in {"download", "shell"} \cup Kinds

Downloading ==
  /\ focus = "download" /\ Next
  /\ UNCHANGED <<adviceVars, shellVars, focus>>

Advising ==
  /\ focus \in Kinds /\ AdviceNext(focus)
  /\ UNCHANGED <<vars, shellVars, focus>>

Registering ==
  /\ focus = "shell" /\ ShellNext
  /\ UNCHANGED <<vars, adviceVars, focus>>

OutNext == Downloading \/ Advising \/ Registering

\* The client has a 300 s timeout and the event loop runs ready coroutines; a
\* DELETE, once begun, is finished.
DownloadProgress ==
  /\ WF_vars(focus = "download" /\ Worker)
  /\ WF_vars(focus = "download" /\ Delete)

\* The loop is a task of the event loop and its client has a 5 s timeout; the
\* gateway is reachable but for the mishaps.
ShellProgress == WF_shellVars(focus = "shell" /\ (ShellLoop \/ Gateway))

OutSpec ==
  /\ OutInit /\ [][OutNext]_outVars
  /\ DownloadProgress /\ ShellProgress

-----------------------------------------------------------------------------
(* Properties                                                              *)

\* A worker stops on its own: retries are bounded.
DownloadStops == focus = "download" => WorkerStops

\* However often the gateway forgets the manifest or revokes the key, and
\* whatever messages are lost, the loop gets both back.
ShellReturns == focus = "shell" => ShellRecovers
=============================================================================
