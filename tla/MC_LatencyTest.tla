--------------------------- MODULE MC_LatencyTest ---------------------------
(***************************************************************************)
(* The endtimes run: three nodes, so that the half-senders layout has one *)
(* non-sender rank on each side of the middle, and two messages per       *)
(* sender, so that a node's count can pass its own messages' count.  The  *)
(* benchmark's termination is checked as a part of MC_Multicast.          *)
(***************************************************************************)
EXTENDS LatencyTest

CONSTANTS junk

MC_num_nodes == 3
MC_num_messages == 2

=============================================================================
