----------------------------- MODULE MCOutbound -----------------------------
(* Constants of the run over Outbound: two requests for advice, two models   *)
(* on offer, a machine in which the larger fits at 4 bits only and one in     *)
(* which both fit at 16.                                                   *)
EXTENDS Outbound

MCStock == {[size |-> 3, downloads |-> 100], [size |-> 8, downloads |-> 100]}

\* A model that fits a machine of either size, one that fits the larger, and
\* one that cannot run.
MCReplies == {[can |-> TRUE,  need |-> 6,  have |-> Unsaid, speed |-> 20],
              [can |-> TRUE,  need |-> 12, have |-> Unsaid, speed |-> 20],
              [can |-> FALSE, need |-> 3,  have |-> 48,     speed |-> 60]}
=============================================================================
