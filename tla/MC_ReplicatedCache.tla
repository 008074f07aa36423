------------------------- MODULE MC_ReplicatedCache -------------------------
(***************************************************************************)
(* One Cache shard of three members (even_sharding_policy(3, 3)), the   *)
(* key "6" node 1 queries, one value and up to three ordered calls:       *)
(* enough for a put, an invalidate and a get of the key in any order,     *)
(* with p2p queries in between.  Node 1 queries member r3 (who = 3) up to *)
(* three times over a window of two buffers, so two requests can be      *)
(* outstanding and sent in either order, and the third reuses a buffer.  *)
(***************************************************************************)
EXTENDS ReplicatedCache

CONSTANTS r1, r2, r3

MC_Replicas == {r1, r2, r3}
MC_Keys == {"6"}
MC_Values == {"Node 3's things"}
MC_MaxOps == 2
MC_WindowSize == 2
MC_MaxQueries == 3

=============================================================================
