--------------------------- MODULE MCClusterNodes ---------------------------
(***************************************************************************)
(* Two nodes, one request being routed or synced while another lists the   *)
(* nodes and reaps.  A sync asks for everything or for one node.           *)
(***************************************************************************)
EXTENDS ClusterNodes

CONSTANT n1

MCSyncSets == {{}, {n1}}
=============================================================================
