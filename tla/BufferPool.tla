----------------------------- MODULE BufferPool -----------------------------
(***************************************************************************)
(* What the buffer manager promises its callers, without handles, locks, *)
(* the evict queue or the order of steps: a pool of Capacity units of    *)
(* memory; a node is resident while it holds Size units of it; memory    *)
(* may be reserved before it is given to a node and given back unused;  *)
(* a node is pinned only while resident and unloaded only while no pin  *)
(* is held on it.                                                        *)
(***************************************************************************)
EXTENDS Naturals, FiniteSets

CONSTANTS
    Ids,        \* node ids (registered and transient)
    Capacity,   \* units of memory in the pool
    Size        \* units a resident node holds

VARIABLES
    resident,   \* nodes whose buffer holds memory
    pins,       \* pins[i]: pins held on node i
    spare       \* units reserved but not attached to a resident node

bvars == <<resident, pins, spare>>

Used == Size * Cardinality(resident) + spare

BPTypeOK ==
    /\ resident \subseteq Ids
    /\ pins \in [Ids -> Nat]
    /\ spare \in Nat

BPInit ==
    /\ resident = {}
    /\ pins = [i \in Ids |-> 0]
    /\ spare = 0

\* Memory is taken from the pool only when it fits.
Reserve ==
    /\ Used + Size <= Capacity
    /\ spare' = spare + Size
    /\ UNCHANGED <<resident, pins>>

\* Reserved memory is given back without having been used.
Release ==
    /\ spare >= Size
    /\ spare' = spare - Size
    /\ UNCHANGED <<resident, pins>>

\* Reserved memory becomes the buffer of a node that had none.
Attach(i) ==
    /\ i \notin resident
    /\ spare >= Size
    /\ resident' = resident \cup {i}
    /\ spare' = spare - Size
    /\ UNCHANGED pins

\* An unpinned node gives its buffer back to the pool.
Evict(i) ==
    /\ i \in resident
    /\ pins[i] = 0
    /\ resident' = resident \ {i}
    /\ UNCHANGED <<pins, spare>>

PinNode(i) ==
    /\ i \in resident
    /\ pins' = [pins EXCEPT ![i] = @ + 1]
    /\ UNCHANGED <<resident, spare>>

UnpinNode(i) ==
    /\ pins[i] > 0
    /\ pins' = [pins EXCEPT ![i] = @ - 1]
    /\ UNCHANGED <<resident, spare>>

BPNext ==
    \/ Reserve
    \/ Release
    \/ \E i \in Ids : Attach(i) \/ Evict(i) \/ PinNode(i) \/ UnpinNode(i)

BPSpec == BPInit /\ [][BPNext]_bvars

=============================================================================
