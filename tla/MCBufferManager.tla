--------------------------- MODULE MCBufferManager ---------------------------
(***************************************************************************)
(* Model-checking instance of BufferManager: two goroutines, two          *)
(* registered node ids and one transient id, a pool with room for two     *)
(* nodes, so that a third load has to evict.                              *)
(***************************************************************************)
EXTENDS BufferManager

CONSTANTS c1, c2

MCClients == {c1, c2}
MCNodeIds == {1, 2}
=============================================================================
