------------------------------ MODULE DbServer ------------------------------
(***************************************************************************)
(* The start-up and shut-down of the database server, main() and         *)
(* waitClusterStartup of cmd/db-server/main.go, beside the cube cluster  *)
(* it waits for. Each step of main that can fail ends the process with   *)
(* os.Exit(code); waitClusterStartup polls the cluster's router until   *)
(* enough shards are fully replicated or time.After(300 s) fires.        *)
(***************************************************************************)
EXTENDS Integers, FiniteSetsExt

CONSTANTS
    AOEShards,              \* shards the cluster may create in the AOE group
    KVShards,               \* shards the cluster may create in the KV group
    MaxReplicas,            \* Prophet.Replication.MaxReplicas
    PreAllocatedGroupNum    \* ClusterConfig.PreAllocatedGroupNum, the shards required

NormalExit == 0
InitialValuesExit == 1
LoadConfigExit == 2
WaitCubeStartExit == 11

\* The steps of main that call os.Exit(code) when they fail, with the step
\* that follows each: recreateDir, the AOE options, the AOE storage, the
\* cube and cluster configurations, NewCubeDriverWithOptions, a.Start() and
\* runMOServer.
ExitOnFailure ==
    [dir |-> 3, aoe_config |-> 4, aoe |-> 5, cube_config |-> 6,
     cluster_config |-> 7, cube_new |-> 8, cube_start |-> 9, mo_start |-> 12]

NextStep ==
    [dir |-> "pebble", aoe_config |-> "aoe", aoe |-> "cube_config",
     cube_config |-> "cluster_config", cluster_config |-> "cube_new",
     cube_new |-> "cube_start", cube_start |-> "wait", mo_start |-> "serving"]

Shards == AOEShards \cup KVShards

VARIABLES
    pc,             \* the step main is at; "exited" once os.Exit ran
    exitCode,       \* the code given to os.Exit
    pebbleOk,       \* cPebble.NewStorage returned a storage
    router,         \* driver.RaftStore().GetRouter() is not nil
    replicas,       \* replicas[s]: len(shard.Replicas), 0 while s does not exist
    timedOut        \* the time.After channel of waitClusterStartup is ready

vars == <<pc, exitCode, pebbleOk, router, replicas, timedOut>>

cube == <<router, replicas, timedOut>>

Exit(code) ==
    /\ pc' = "exited"
    /\ exitCode' = code
    /\ UNCHANGED pebbleOk

Goto(step) ==
    /\ pc' = step
    /\ UNCHANGED <<exitCode, pebbleOk>>

-----------------------------------------------------------------------------
(* main                                                                    *)

Init ==
    /\ pc = "args"
    /\ exitCode = NormalExit
    /\ pebbleOk = FALSE
    /\ router = FALSE
    /\ replicas = [s \in Shards |-> 0]
    /\ timedOut = FALSE

\* --version prints the build and exits 0; no config file argument exits -1.
CheckArgs ==
    /\ pc = "args"
    /\ \/ Exit(NormalExit)
       \/ Exit(-1)
       \/ Goto("config")
    /\ UNCHANGED cube

LoadConfig ==
    /\ pc = "config"
    /\ \/ Exit(InitialValuesExit)
       \/ Exit(LoadConfigExit)
       \/ Goto("profile")
    /\ UNCHANGED cube

\* The optional CPU and allocation profiles; their stop and write are
\* deferred to main's return.
StartProfile ==
    /\ pc = "profile"
    /\ Goto("dir")
    /\ UNCHANGED cube

\* The error of cPebble.NewStorage is overwritten by the next
\* toml.DecodeFile before anything reads it.
NewPebbleStorage ==
    /\ pc = "pebble"
    /\ pc' = "aoe_config"
    /\ \E ok \in BOOLEAN : pebbleOk' = ok
    /\ UNCHANGED <<exitCode, cube>>

RunStep ==
    /\ pc \in DOMAIN NextStep
    /\ \/ Exit(ExitOnFailure[pc])
       \/ Goto(NextStep[pc])
    /\ UNCHANGED cube

\* A signal arrives: serverShutdown, the driver and storages are closed,
\* cleanup, and main returns, running its deferred calls.
Shutdown ==
    /\ pc = "serving"
    /\ Goto("stopped")
    /\ UNCHANGED cube

-----------------------------------------------------------------------------
(* waitClusterStartup                                                      *)

Existing(group) == {s \in group : replicas[s] > 0}

\* nodeCnt and shardCnt over the AOE group, kvNodeCnt and kvCnt over the KV
\* group, each scan starting its minimum at maxReplicas
ClusterReady ==
    /\ router
    /\ Min({MaxReplicas} \cup {replicas[s] : s \in Existing(AOEShards)}) >= MaxReplicas
    /\ Cardinality(Existing(AOEShards)) >= PreAllocatedGroupNum
    /\ Cardinality(Existing(KVShards)) >= 1
    /\ Min({MaxReplicas} \cup {replicas[s] : s \in Existing(KVShards)}) >= MaxReplicas

\* One pass of the loop: the timeout case of the select comes first; a pass
\* that finds the cluster not ready sleeps 10 ms and changes nothing.
WaitPoll_NoTimeout ==
    /\ pc = "wait"
    /\ ClusterReady /\ Goto("mo_start")
    /\ UNCHANGED cube

WaitPoll ==
    /\ pc = "wait"
    /\ \/ timedOut /\ Exit(WaitCubeStartExit)
       \/ ~timedOut /\ ClusterReady /\ Goto("mo_start")
    /\ UNCHANGED cube

WaitTimeout ==
    /\ pc = "wait"
    /\ ~timedOut
    /\ timedOut' = TRUE
    /\ UNCHANGED <<pc, exitCode, pebbleOk, router, replicas>>

-----------------------------------------------------------------------------
(* The cube cluster, once a.Start() has run: the router appears, shards   *)
(* are created and gain or lose replicas.                                  *)

CubeRunning == pc \in {"wait", "mo_start", "serving"}

RouterUp ==
    /\ CubeRunning /\ ~router
    /\ router' = TRUE
    /\ UNCHANGED <<pc, exitCode, pebbleOk, replicas, timedOut>>

CreateShard(s) ==
    /\ CubeRunning /\ replicas[s] = 0
    /\ replicas' = [replicas EXCEPT ![s] = 1]
    /\ UNCHANGED <<pc, exitCode, pebbleOk, router, timedOut>>

AddReplica(s) ==
    /\ CubeRunning /\ replicas[s] \in 1..(MaxReplicas - 1)
    /\ replicas' = [replicas EXCEPT ![s] = @ + 1]
    /\ UNCHANGED <<pc, exitCode, pebbleOk, router, timedOut>>

RemoveReplica(s) ==
    /\ CubeRunning /\ replicas[s] > 1
    /\ replicas' = [replicas EXCEPT ![s] = @ - 1]
    /\ UNCHANGED <<pc, exitCode, pebbleOk, router, timedOut>>

-----------------------------------------------------------------------------

MainStep == CheckArgs \/ LoadConfig \/ StartProfile \/ NewPebbleStorage \/ RunStep \/ WaitPoll

Cluster == RouterUp \/ \E s \in Shards : CreateShard(s) \/ AddReplica(s) \/ RemoveReplica(s)

Next == MainStep \/ WaitTimeout \/ Shutdown \/ Cluster

\* main runs whenever it is not blocked, and the timer fires once 300 s have
\* passed; a signal may never come and the cluster may never become ready.
Fairness == WF_vars(MainStep) /\ WF_vars(WaitTimeout)

Spec == Init /\ [][Next]_vars /\ Fairness

-----------------------------------------------------------------------------
(* Properties                                                              *)

\* Start-up always ends: main either serves or exits, whatever the cluster
\* does, because waitClusterStartup gives up when its timer fires.
StartupEnds == pc \notin {"serving", "stopped", "exited"} ~> pc \in {"serving", "exited"}

\* main goes past the creation of the pebble storage only when it succeeded,
\* as it does for every other storage and driver it creates.
StorageCreatedBeforeUse ==
    pc \notin {"args", "config", "profile", "dir", "pebble", "exited"} => pebbleOk

=============================================================================
