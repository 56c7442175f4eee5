----------------------------- MODULE MCDbServer -----------------------------
(***************************************************************************)
(* One AOE shard (the pre-allocated group), one KV shard, and three       *)
(* replicas required of each, so that a shard can be created, reach full  *)
(* replication and lose a replica again while start-up waits.             *)
(***************************************************************************)
EXTENDS DbServer

CONSTANTS a1, k1

MCAOEShards == {a1}
MCKVShards == {k1}

=============================================================================
