---------------------------- MODULE BufferManager ----------------------------
(***************************************************************************)
(* The buffer manager of the AOE storage engine                           *)
(* (src/pkg/vm/engine/aoe/storage/buffer/manager/manager.go) with         *)
(* concurrent callers.  Each caller (a goroutine) runs one manager call   *)
(* at a time; a call is split into steps at every lock acquisition and    *)
(* at every point where another goroutine can observe or change the      *)
(* state it depends on.                                                   *)
(*                                                                         *)
(* The node handle, the memory pool and the evict holder are not in      *)
(* src/.  They are modelled by the contract manager.go relies on:         *)
(*   - a handle has a load state, a reference count, an iteration        *)
(*     number and a mutex;                                                *)
(*   - PrepareLoad moves UNLOAD to LOADING and says whether it did;       *)
(*     CommitLoad ends in LOADED, RollbackLoad in UNLOAD;                 *)
(*   - Unloadable() is "not UNLOAD and no references"; UnRef fails at 0;  *)
(*   - an evict node records the handle's iteration when it was queued,  *)
(*     and is current while the handle's iteration is unchanged;          *)
(*   - the pool's Alloc succeeds when the request fits in the capacity,  *)
(*     FreeMemory gives the memory back.                                  *)
(* Every node has the same size, NodeSize.                                *)
(***************************************************************************)
EXTENDS Naturals, FiniteSets, Sequences, Functions

CONSTANTS
    Clients,        \* goroutines calling the manager (model values)
    NodeIds,        \* ids of registered nodes
    TransientStart, \* first id GetNextTransientID hands out
    MaxTransient,   \* bound: number of transient ids
    Capacity,       \* capacity of the memory pool
    NodeSize,       \* capacity of every node
    MaxOps,         \* bound: manager calls per client
    NoOne           \* the owner of an unlocked mutex

ASSUME NoOne \notin Clients /\ NodeIds \subseteq Nat /\ TransientStart \in Nat
ASSUME \A i \in NodeIds : i < TransientStart

TransientIds == TransientStart .. (TransientStart + MaxTransient - 1)
Ids == NodeIds \cup TransientIds

NoEntry == [id |-> 0, iter |-> 0]

VARIABLES
    usage,          \* IMemoryPool usage
    pendingFree,    \* pool nodes handed to `go pNode.FreeMemory()` not yet freed
    hstate,         \* hstate[i]: load state of the handle of id i ("none": no handle)
    refs,           \* refs[i]: the handle's reference count
    iter,           \* iter[i]: the handle's iteration number
    hlock,          \* hlock[i]: goroutine holding the handle's mutex, or NoOne
    mapped,         \* ids in mgr.Nodes
    evictQ,         \* EvictHolder queue of [id, iter]
    nextTransient,  \* mgr.NextTransientID
    pc,             \* pc[c]: where goroutine c is
    op,             \* op[c]: the manager call c is running
    target,         \* target[c]: the node id of that call
    node,           \* node[c]: c holds a pool node from makePoolNode
    victim,         \* victim[c]: the evict node makePoolNode dequeued
    pins,           \* pins[c][i]: pins c holds on node i (its IBufferHandles)
    ops             \* ops[c]: calls c has made

vars == <<usage, pendingFree, hstate, refs, iter, hlock, mapped, evictQ, nextTransient,
          pc, op, target, node, victim, pins, ops>>

Loaded == {i \in Ids : hstate[i] = "loaded"}

(***************************************************************************)
(* The handle and pool contract.                                          *)
(***************************************************************************)
PrepareLoad(i) == hstate[i] = "unload"

Unloadable(i) == hstate[i] # "unload" /\ refs[i] = 0

\* EvictNode.Unloadable: the handle has not been pinned and unpinned since.
IterCurrent(e) == e.iter = iter[e.id]

Fits == usage + NodeSize <= Capacity

\* Where a goroutine goes when makePoolNode returns, by the call it runs.
AfterPoolNode(o) == CASE o = "pin" -> "pin_loaded"
                      [] o = "reg" -> "reg_insert"
                      [] o = "mem" -> "mem_done"

Idle(c) == pc[c] = "idle" /\ ops[c] < MaxOps

Call(c, o, i, next) ==
    /\ pc' = [pc EXCEPT ![c] = next]
    /\ op' = [op EXCEPT ![c] = o]
    /\ target' = [target EXCEPT ![c] = i]
    /\ ops' = [ops EXCEPT ![c] = @ + 1]

Return(c) == pc' = [pc EXCEPT ![c] = "idle"]

(***************************************************************************)
(* Pin(handle): handle.Lock(); if PrepareLoad, makePoolNode, then either  *)
(* RollbackLoad and nil, or SetBuffer and CommitLoad; Ref; Unlock.        *)
(***************************************************************************)
CallPin(c, i) ==
    /\ Idle(c)
    /\ hstate[i] # "none"
    /\ Call(c, "pin", i, "pin_lock")
    /\ UNCHANGED <<usage, pendingFree, hstate, refs, iter, hlock, mapped, evictQ,
                   nextTransient, node, victim, pins>>

\* handle.Lock(); PrepareLoad.  A loaded node is referenced at once and the
\* deferred Unlock runs.
PinLock(c) ==
    LET i == target[c] IN
    /\ pc[c] = "pin_lock"
    /\ hlock[i] = NoOne
    /\ IF PrepareLoad(i)
       THEN /\ hstate' = [hstate EXCEPT ![i] = "loading"]
            /\ hlock' = [hlock EXCEPT ![i] = c]
            /\ pc' = [pc EXCEPT ![c] = "mp_alloc"]
            /\ UNCHANGED <<refs, pins>>
       ELSE /\ refs' = [refs EXCEPT ![i] = @ + 1]
            /\ pins' = [pins EXCEPT ![c][i] = @ + 1]
            /\ Return(c)
            /\ UNCHANGED <<hstate, hlock>>
    /\ UNCHANGED <<usage, pendingFree, iter, mapped, evictQ, nextTransient, op, target,
                   node, victim, ops>>

\* Variant: the nil return after RollbackLoad skips the deferred Unlock.
PinLoaded_KeepsLock(c) ==
    LET i == target[c] IN
    /\ pc[c] = "pin_loaded"
    /\ \/ /\ ~node[c]
          /\ hstate' = [hstate EXCEPT ![i] = "unload"]
          /\ Return(c)
          /\ UNCHANGED <<node, hlock>>
       \/ /\ node[c]
          /\ hstate' = [hstate EXCEPT ![i] = "loaded"]
          /\ node' = [node EXCEPT ![c] = FALSE]
          /\ pc' = [pc EXCEPT ![c] = "pin_ref"]
          /\ UNCHANGED hlock
    /\ UNCHANGED <<usage, pendingFree, refs, iter, mapped, evictQ, nextTransient, op,
                   target, victim, pins, ops>>

\* After makePoolNode: RollbackLoad and return nil, or SetBuffer and CommitLoad.
PinLoaded(c) ==
    LET i == target[c] IN
    /\ pc[c] = "pin_loaded"
    /\ \/ /\ ~node[c]
          /\ hstate' = [hstate EXCEPT ![i] = "unload"]
          /\ hlock' = [hlock EXCEPT ![i] = NoOne]
          /\ Return(c)
          /\ UNCHANGED node
       \/ /\ node[c]
          /\ hstate' = [hstate EXCEPT ![i] = "loaded"]
          /\ node' = [node EXCEPT ![c] = FALSE]
          /\ pc' = [pc EXCEPT ![c] = "pin_ref"]
          /\ UNCHANGED hlock
    /\ UNCHANGED <<usage, pendingFree, refs, iter, mapped, evictQ, nextTransient, op,
                   target, victim, pins, ops>>

\* handle.Ref(); the deferred handle.Unlock().
PinRef(c) ==
    LET i == target[c] IN
    /\ pc[c] = "pin_ref"
    /\ refs' = [refs EXCEPT ![i] = @ + 1]
    /\ pins' = [pins EXCEPT ![c][i] = @ + 1]
    /\ hlock' = [hlock EXCEPT ![i] = NoOne]
    /\ Return(c)
    /\ UNCHANGED <<usage, pendingFree, hstate, iter, mapped, evictQ, nextTransient, op,
                   target, node, victim, ops>>

(***************************************************************************)
(* makePoolNode: Alloc; while it fails, dequeue an evict node, skip it if *)
(* stale (checked without the lock), else lock its handle, re-check,      *)
(* Unload, unlock and Alloc again; an empty queue returns nil.            *)
(***************************************************************************)
\* Variant: Alloc without the capacity check.
MPAlloc_NoCapCheck(c) ==
    /\ pc[c] = "mp_alloc"
    /\ usage' = usage + NodeSize
    /\ node' = [node EXCEPT ![c] = TRUE]
    /\ pc' = [pc EXCEPT ![c] = AfterPoolNode(op[c])]
    /\ UNCHANGED <<pendingFree, hstate, refs, iter, hlock, mapped, evictQ, nextTransient,
                   op, target, victim, pins, ops>>

MPAlloc(c) ==
    /\ pc[c] = "mp_alloc"
    /\ \/ /\ Fits
          /\ usage' = usage + NodeSize
          /\ node' = [node EXCEPT ![c] = TRUE]
          /\ pc' = [pc EXCEPT ![c] = AfterPoolNode(op[c])]
       \/ /\ ~Fits
          /\ pc' = [pc EXCEPT ![c] = "mp_dequeue"]
          /\ UNCHANGED <<usage, node>>
    /\ UNCHANGED <<pendingFree, hstate, refs, iter, hlock, mapped, evictQ, nextTransient,
                   op, target, victim, pins, ops>>

MPDequeue(c) ==
    /\ pc[c] = "mp_dequeue"
    /\ \/ /\ evictQ = <<>>
          /\ pc' = [pc EXCEPT ![c] = AfterPoolNode(op[c])]
          /\ UNCHANGED <<evictQ, victim>>
       \/ /\ evictQ # <<>>
          /\ evictQ' = Tail(evictQ)
          /\ victim' = [victim EXCEPT ![c] = Head(evictQ)]
          /\ pc' = [pc EXCEPT ![c] = IF IterCurrent(Head(evictQ)) THEN "mp_evict"
                                                                   ELSE "mp_dequeue"]
    /\ UNCHANGED <<usage, pendingFree, hstate, refs, iter, hlock, mapped, nextTransient,
                   op, target, node, pins, ops>>

\* Variant: the handle's own Unloadable() is not re-checked under its lock.
MPEvict_NoUnloadableCheck(c) ==
    LET e == victim[c] IN
    /\ pc[c] = "mp_evict"
    /\ hlock[e.id] = NoOne
    /\ IF IterCurrent(e)
       THEN /\ hstate' = [hstate EXCEPT ![e.id] = "unload"]
            /\ usage' = usage - NodeSize
            /\ pc' = [pc EXCEPT ![c] = "mp_alloc"]
       ELSE /\ pc' = [pc EXCEPT ![c] = "mp_dequeue"]
            /\ UNCHANGED <<hstate, usage>>
    /\ UNCHANGED <<pendingFree, refs, iter, hlock, mapped, evictQ, nextTransient, op,
                   target, node, victim, pins, ops>>

\* Lock the victim's handle, re-check, Unload (FreeMemory), Unlock.
MPEvict(c) ==
    LET e == victim[c] IN
    /\ pc[c] = "mp_evict"
    /\ hlock[e.id] = NoOne
    /\ \/ /\ IterCurrent(e) /\ Unloadable(e.id)
          /\ hstate' = [hstate EXCEPT ![e.id] = "unload"]
          /\ usage' = usage - NodeSize
          /\ pc' = [pc EXCEPT ![c] = "mp_alloc"]
       \/ /\ ~(IterCurrent(e) /\ Unloadable(e.id))
          /\ pc' = [pc EXCEPT ![c] = "mp_dequeue"]
          /\ UNCHANGED <<hstate, usage>>
    /\ UNCHANGED <<pendingFree, refs, iter, hlock, mapped, evictQ, nextTransient, op,
                   target, node, victim, pins, ops>>

(***************************************************************************)
(* RegisterSpillableNode: look the id up under RLock; makePoolNode with  *)
(* no lock held; then under Lock, either keep the handle another caller  *)
(* registered meanwhile (its pool node freed by a new goroutine) or      *)
(* insert a new LOADED handle.                                           *)
(***************************************************************************)
CallRegisterSpillableNode(c, i) ==
    /\ Idle(c)
    /\ \/ /\ mapped[i]
          /\ ops' = [ops EXCEPT ![c] = @ + 1]
          /\ UNCHANGED <<pc, op, target>>
       \/ /\ ~mapped[i]
          /\ Call(c, "reg", i, "mp_alloc")
    /\ UNCHANGED <<usage, pendingFree, hstate, refs, iter, hlock, mapped, evictQ,
                   nextTransient, node, victim, pins>>

\* Variant: the losing registration drops its pool node without freeing it.
RegisterInsert_NoFree(c) ==
    LET i == target[c] IN
    /\ pc[c] = "reg_insert"
    /\ node[c]
    /\ IF mapped[i]
       THEN UNCHANGED <<hstate, refs, iter, mapped>>
       ELSE /\ mapped' = [mapped EXCEPT ![i] = TRUE]
            /\ hstate' = [hstate EXCEPT ![i] = "loaded"]
            /\ refs' = [refs EXCEPT ![i] = 0]
            /\ iter' = [iter EXCEPT ![i] = 0]
    /\ node' = [node EXCEPT ![c] = FALSE]
    /\ Return(c)
    /\ UNCHANGED <<usage, pendingFree, hlock, evictQ, nextTransient, op, target, victim,
                   pins, ops>>

RegisterInsert(c) ==
    LET i == target[c] IN
    /\ pc[c] = "reg_insert"
    /\ \/ /\ ~node[c]
          /\ UNCHANGED <<pendingFree, hstate, refs, iter, mapped, node>>
       \/ /\ node[c] /\ mapped[i]
          /\ pendingFree' = pendingFree + 1
          /\ node' = [node EXCEPT ![c] = FALSE]
          /\ UNCHANGED <<hstate, refs, iter, mapped>>
       \/ /\ node[c] /\ ~mapped[i]
          /\ mapped' = [mapped EXCEPT ![i] = TRUE]
          /\ hstate' = [hstate EXCEPT ![i] = "loaded"]
          /\ refs' = [refs EXCEPT ![i] = 0]
          /\ iter' = [iter EXCEPT ![i] = 0]
          /\ node' = [node EXCEPT ![c] = FALSE]
          /\ UNCHANGED pendingFree
    /\ Return(c)
    /\ UNCHANGED <<usage, hlock, evictQ, nextTransient, op, target, victim, pins, ops>>

\* The goroutine started by RegisterSpillableNode: pNode.FreeMemory().
FreeMemory ==
    /\ pendingFree > 0
    /\ pendingFree' = pendingFree - 1
    /\ usage' = usage - NodeSize
    /\ UNCHANGED <<hstate, refs, iter, hlock, mapped, evictQ, nextTransient, pc, op,
                   target, node, victim, pins, ops>>

\* RegisterNode: under Lock, the existing handle or a new UNLOAD one.
RegisterNode(c, i) ==
    /\ Idle(c)
    /\ IF mapped[i]
       THEN UNCHANGED <<hstate, refs, iter, mapped>>
       ELSE /\ mapped' = [mapped EXCEPT ![i] = TRUE]
            /\ hstate' = [hstate EXCEPT ![i] = "unload"]
            /\ refs' = [refs EXCEPT ![i] = 0]
            /\ iter' = [iter EXCEPT ![i] = 0]
    /\ ops' = [ops EXCEPT ![c] = @ + 1]
    /\ UNCHANGED <<usage, pendingFree, hlock, evictQ, nextTransient, pc, op, target, node,
                   victim, pins>>

(***************************************************************************)
(* RegisterMemory: makePoolNode, then a LOADED handle under a fresh       *)
(* transient id, which is not put in mgr.Nodes.                           *)
(***************************************************************************)
\* Calls of RegisterMemory still running.
MemCallsRunning == Cardinality({c \in Clients : pc[c] # "idle" /\ op[c] = "mem"})

CallRegisterMemory(c) ==
    /\ Idle(c)
    /\ nextTransient + MemCallsRunning < TransientStart + MaxTransient
    /\ Call(c, "mem", 0, "mp_alloc")
    /\ UNCHANGED <<usage, pendingFree, hstate, refs, iter, hlock, mapped, evictQ,
                   nextTransient, node, victim, pins>>

RegisterMemoryDone(c) ==
    LET i == nextTransient IN
    /\ pc[c] = "mem_done"
    /\ \/ /\ ~node[c]
          /\ UNCHANGED <<hstate, refs, iter, nextTransient, node>>
       \/ /\ node[c]
          /\ hstate' = [hstate EXCEPT ![i] = "loaded"]
          /\ refs' = [refs EXCEPT ![i] = 0]
          /\ iter' = [iter EXCEPT ![i] = 0]
          /\ nextTransient' = nextTransient + 1
          /\ node' = [node EXCEPT ![c] = FALSE]
    /\ Return(c)
    /\ UNCHANGED <<usage, pendingFree, hlock, mapped, evictQ, op, target, victim, pins, ops>>

(***************************************************************************)
(* Unpin(handle): under the handle's lock, UnRef (panic when there is no *)
(* reference); the last reference queues an evict node with the next     *)
(* iteration.                                                            *)
(***************************************************************************)
CallUnpin(c, i) ==
    /\ Idle(c)
    /\ pins[c][i] > 0
    /\ Call(c, "unpin", i, "unpin")
    /\ UNCHANGED <<usage, pendingFree, hstate, refs, iter, hlock, mapped, evictQ,
                   nextTransient, node, victim, pins>>

Unpin(c) ==
    LET i == target[c] IN
    /\ pc[c] = "unpin"
    /\ hlock[i] = NoOne
    /\ IF refs[i] = 0
       THEN /\ pc' = [pc EXCEPT ![c] = "panic"]
            /\ UNCHANGED <<refs, iter, evictQ, pins>>
       ELSE /\ refs' = [refs EXCEPT ![i] = @ - 1]
            /\ pins' = [pins EXCEPT ![c][i] = @ - 1]
            /\ IF refs[i] = 1
               THEN /\ iter' = [iter EXCEPT ![i] = @ + 1]
                    /\ evictQ' = Append(evictQ, [id |-> i, iter |-> iter[i] + 1])
               ELSE UNCHANGED <<iter, evictQ>>
            /\ Return(c)
    /\ UNCHANGED <<usage, pendingFree, hstate, hlock, mapped, nextTransient, op, target,
                   node, victim, ops>>

(***************************************************************************)
(* The specification.                                                     *)
(***************************************************************************)
\* NewBufferManager: an empty pool, no nodes, an empty evict queue.
Init ==
    /\ usage = 0
    /\ pendingFree = 0
    /\ hstate = [i \in Ids |-> "none"]
    /\ refs = [i \in Ids |-> 0]
    /\ iter = [i \in Ids |-> 0]
    /\ hlock = [i \in Ids |-> NoOne]
    /\ mapped = [i \in Ids |-> FALSE]
    /\ evictQ = <<>>
    /\ nextTransient = TransientStart
    /\ pc = [c \in Clients |-> "idle"]
    /\ op = [c \in Clients |-> "none"]
    /\ target = [c \in Clients |-> 0]
    /\ node = [c \in Clients |-> FALSE]
    /\ victim = [c \in Clients |-> NoEntry]
    /\ pins = [c \in Clients |-> [i \in Ids |-> 0]]
    /\ ops = [c \in Clients |-> 0]

\* A manager call begins.
Begin(c) ==
    \/ \E i \in Ids : CallPin(c, i) \/ CallUnpin(c, i)
    \/ \E i \in NodeIds : CallRegisterSpillableNode(c, i) \/ RegisterNode(c, i)
    \/ CallRegisterMemory(c)

\* A running call takes its next step.
Running(c) ==
    \/ PinLock(c) \/ PinLoaded(c) \/ PinRef(c)
    \/ MPAlloc(c) \/ MPDequeue(c) \/ MPEvict(c)
    \/ RegisterInsert(c) \/ RegisterMemoryDone(c) \/ Unpin(c)

Next == FreeMemory \/ \E c \in Clients : Begin(c) \/ Running(c)

\* Callers need not call the manager; a goroutine inside a call keeps
\* running, and a mutex it waits for is eventually handed to it when it is
\* free infinitely often (sync.Mutex starvation mode).  The freeing
\* goroutine runs.
Fairness == /\ \A c \in Clients : SF_vars(Running(c))
            /\ WF_vars(FreeMemory)

Spec == Init /\ [][Next]_vars /\ Fairness

(***************************************************************************)
(* Properties.                                                            *)
(***************************************************************************)
PCs == {"idle", "pin_lock", "mp_alloc", "mp_dequeue", "mp_evict", "pin_loaded",
        "pin_ref", "reg_insert", "mem_done", "unpin", "panic"}

TypeOK ==
    /\ usage \in 0..Capacity
    /\ pendingFree \in Nat
    /\ hstate \in [Ids -> {"none", "unload", "loading", "loaded"}]
    /\ refs \in [Ids -> Nat] /\ iter \in [Ids -> Nat]
    /\ hlock \in [Ids -> Clients \cup {NoOne}]
    /\ mapped \in [Ids -> BOOLEAN]
    /\ pc \in [Clients -> PCs]
    /\ node \in [Clients -> BOOLEAN]
    /\ pins \in [Clients -> [Ids -> Nat]]

\* No memory leaks and none is counted twice: the pool's usage is exactly
\* the buffers of loaded handles, the pool nodes callers hold between
\* makePoolNode and attaching them, and the nodes a losing
\* RegisterSpillableNode handed to its FreeMemory goroutine.
MemoryAccounting ==
    usage = NodeSize * (Cardinality(Loaded) + Cardinality({c \in Clients : node[c]})
                          + pendingFree)

\* The manager implements the buffer pool: memory is taken only when it
\* fits, a node is pinned only while loaded, and eviction (makePoolNode's
\* Unload after its re-check under the handle lock) never unloads a
\* pinned node.
Pool == INSTANCE BufferPool WITH
            Size <- NodeSize,
            resident <- Loaded,
            pins <- refs,
            spare <- usage - NodeSize * Cardinality(Loaded)

PoolRefinement == Pool!BPSpec

\* Every manager call returns: no goroutine waits forever for a handle
\* lock (Pin holds one handle's lock while makePoolNode locks others),
\* and the eviction loop ends.
CallsReturn == \A c \in Clients : pc[c] # "idle" ~> pc[c] = "idle"

=============================================================================
