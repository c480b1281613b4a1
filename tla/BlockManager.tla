----------------------------- MODULE BlockManager -----------------------------
(***************************************************************************)
(* sca::BlockManager (src/kv_cache/block_manager.cpp): the exclusive LIFO  *)
(* block allocator, the host block table, and the table's device mirror.   *)
(*                                                                         *)
(* The module is the open system: the caller may hand any block ids to     *)
(* Free and AppendToTable, in any order, because neither checks that the   *)
(* ids came from Allocate.  PagedKVCache, the only caller in the           *)
(* repository, is modelled in a module of its own that instantiates this   *)
(* one.  A call that is rejected by its argument checks (count <= 0, a     *)
(* null array, a sequence id out of range) returns before it touches any   *)
(* state and is a stuttering step.                                         *)
(***************************************************************************)
EXTENDS Integers, Sequences, FiniteSets

CONSTANTS
  num_blocks,           \* blocks in the pool
  Seqs,                 \* the valid sequence ids, 0 .. max_num_seqs - 1
  max_blocks_per_seq,   \* length of a table row
  MaxIds,               \* bound: longest id array a caller passes
  MaxRevision,          \* bound on table_revision
  MaxEvents             \* bound on each of the two event counters

ASSUME PoolAssumption ==
  /\ num_blocks \in Nat \ {0}
  /\ max_blocks_per_seq \in Nat \ {0}
ASSUME BoundAssumption ==
  /\ MaxIds \in Nat /\ MaxRevision \in Nat /\ MaxEvents \in Nat

VARIABLES
  free_list,            \* LIFO: the last element is allocated next
  in_use,               \* in_use[b]: b was allocated and not yet freed
  table,                \* table_.host, one row per sequence
  table_revision,       \* table_.revision
  table_synced,         \* table_.synced_revision
  table_device,         \* table_.device
  allocation_failures,
  double_free_events

pool == <<free_list, in_use>>
hostTable == <<table, table_revision>>
mirror == <<table_synced, table_device>>
vars == <<free_list, in_use, table, table_revision, table_synced, table_device,
          allocation_failures, double_free_events>>

Blocks == 0 .. num_blocks - 1
Empty == -1                               \* the table's empty-slot mark
BlockIds == Empty .. num_blocks           \* what callers pass: one id off each end too
Columns == 1 .. max_blocks_per_seq
EmptyRow == [i \in Columns |-> Empty]
Ids == UNION {[1 .. n -> BlockIds] : n \in 1 .. MaxIds}

\* BlockManager::Create: the list is filled downwards, so block 0 is on top.
Init ==
  /\ free_list = [i \in 1 .. num_blocks |-> num_blocks - i]
  /\ in_use = [b \in Blocks |-> FALSE]
  /\ table = [s \in Seqs |-> EmptyRow]
  /\ table_device = table
  /\ table_revision = 0
  /\ table_synced = 0
  /\ allocation_failures = 0
  /\ double_free_events = 0

-----------------------------------------------------------------------------
\* The n blocks Allocate pops, in the order it returns them.
Popped(n) == [i \in 1 .. n |-> free_list[Len(free_list) - i + 1]]

\* The pop loop of Allocate.
Take(n) ==
  /\ free_list' = [i \in 1 .. Len(free_list) - n |-> free_list[i]]
  /\ in_use' = [b \in Blocks |-> in_use[b] \/ \E i \in 1 .. n : Popped(n)[i] = b]

AllocationFails(n) ==
  /\ n > Len(free_list)
  /\ allocation_failures < MaxEvents
  /\ allocation_failures' = allocation_failures + 1
  /\ UNCHANGED pool

Allocate(n) ==
  /\ \/ AllocationFails(n)
     \/ /\ n <= Len(free_list)
        /\ Take(n)
        /\ UNCHANGED allocation_failures
  /\ UNCHANGED <<hostTable, mirror, double_free_events>>

\* Mutations of Releases: no range check; no memory of what this call released.
ReleasesUnchecked(ids) ==
  {i \in DOMAIN ids : /\ ids[i] \in Blocks => in_use[ids[i]]
                      /\ \A j \in 1 .. i - 1 : ids[j] # ids[i]}
ReleasesRepeated(ids) == {i \in DOMAIN ids : ids[i] \in Blocks /\ in_use[ids[i]]}

\* The positions of ids at which Free's loop releases a block: in range, live, and
\* not already released by an earlier position of the same array.
Releases(ids) ==
  {i \in DOMAIN ids : /\ ids[i] \in Blocks
                      /\ in_use[ids[i]]
                      /\ \A j \in 1 .. i - 1 : ids[j] # ids[i]}

\* The enumerations of S, a set of positions of an array of length n, in the order
\* the loop visits them (there is exactly one).
InLoopOrder(S, n) ==
  {f \in UNION {[1 .. k -> S] : k \in 0 .. n} :
     /\ \A i \in S : \E k \in DOMAIN f : f[k] = i
     /\ \A k, m \in DOMAIN f : k < m => f[k] < f[m]}

\* The whole loop of Free: released blocks go on top of the list in array order,
\* every other position counts as a double free.
Release(ids) ==
  \E order \in InLoopOrder(Releases(ids), Len(ids)) :
    /\ free_list' = free_list \o [k \in 1 .. Len(order) |-> ids[order[k]]]
    /\ in_use' = [b \in Blocks |-> in_use[b] /\ \A i \in DOMAIN ids : ids[i] # b]
    /\ double_free_events' = double_free_events + Len(ids) - Len(order)
    /\ double_free_events' <= MaxEvents

Free(ids) ==
  /\ Release(ids)
  /\ UNCHANGED <<hostTable, mirror, allocation_failures>>

\* AppendToTable counts the leading run of non-empty columns.
Used(row) ==
  CHOOSE u \in 0 .. max_blocks_per_seq :
    /\ \A i \in 1 .. u : row[i] >= 0
    /\ u < max_blocks_per_seq => row[u + 1] < 0

Fits(s, n) == Used(table[s]) + n <= max_blocks_per_seq

\* The write loop of AppendToTable and its revision bump.
Attach(s, ids) ==
  LET used == Used(table[s]) IN
  /\ table_revision < MaxRevision
  /\ table' = [table EXCEPT ![s] =
                 [i \in Columns |-> IF i \in used + 1 .. used + Len(ids)
                                      THEN ids[i - used] ELSE @[i]]]
  /\ table_revision' = table_revision + 1

AppendToTable(s, ids) ==
  /\ Fits(s, Len(ids))
  /\ Attach(s, ids)
  /\ UNCHANGED <<pool, mirror, allocation_failures, double_free_events>>

\* Mutation of Mapped: the count stops one column early.
MappedShort(row) == Cardinality({i \in Columns : i < max_blocks_per_seq /\ row[i] >= 0})

\* ResetSeq counts the non-empty columns of the whole row and frees that many
\* entries from the front of the row.
Mapped(row) == Cardinality({i \in Columns : row[i] >= 0})

\* Mutation of ResetSeq: the revision is not advanced.
ResetSeqSilent(s) ==
  /\ Release([i \in 1 .. Mapped(table[s]) |-> table[s][i]])
  /\ table' = [table EXCEPT ![s] = EmptyRow]
  /\ UNCHANGED <<table_revision, mirror, allocation_failures>>

ResetSeq(s) ==
  /\ table_revision < MaxRevision
  /\ Release([i \in 1 .. Mapped(table[s]) |-> table[s][i]])
  /\ table' = [table EXCEPT ![s] = EmptyRow]
  /\ table_revision' = table_revision + 1
  /\ UNCHANGED <<mirror, allocation_failures>>

\* The copy reads pageable host memory, which the runtime consumes before the call
\* returns, so the upload is one step on either branch (stream or no stream).
SyncTableToDevice ==
  /\ table_synced # table_revision
  /\ table_device' = table
  /\ table_synced' = table_revision
  /\ UNCHANGED <<pool, hostTable, allocation_failures, double_free_events>>

Next ==
  \/ \E n \in 1 .. num_blocks : Allocate(n)
  \/ \E ids \in Ids : Free(ids)
  \/ \E s \in Seqs, ids \in Ids : AppendToTable(s, ids)
  \/ \E s \in Seqs : ResetSeq(s)
  \/ SyncTableToDevice

Spec == Init /\ [][Next]_vars

-----------------------------------------------------------------------------
\* The types of the allocator's containers: only block ids of the pool are ever free
\* or in use, and table entries are block ids or -1.
TypeOK ==
  /\ free_list \in Seq(Blocks)
  /\ in_use \in [Blocks -> BOOLEAN]
  /\ table \in [Seqs -> [Columns -> BlockIds]]
  /\ table_device \in [Seqs -> [Columns -> BlockIds]]
  /\ table_revision \in Nat
  /\ table_synced \in Nat
  /\ allocation_failures \in Nat
  /\ double_free_events \in Nat

\* No block sits in the free list twice: a later Allocate can never hand one block
\* to two callers.
FreeListDistinct ==
  \A i, j \in DOMAIN free_list : free_list[i] = free_list[j] => i = j

\* A block is in the free list exactly when it is not in use: nothing a caller
\* passes to Free (foreign ids, repeated ids, a row with holes) corrupts the pool.
FreeListComplement ==
  \A b \in Blocks : ~in_use[b] <=> \E i \in DOMAIN free_list : free_list[i] = b

PoolIntegrity == FreeListDistinct /\ FreeListComplement

\* Whenever the two revisions agree, so that SyncTableToDevice skips the upload, the
\* device mirror is the host table.
MirrorFresh == table_synced = table_revision => table_device = table

\* A row without holes is returned to the pool as a whole: after ResetSeq none of
\* its blocks is in use and none is in the row.
ResetReturnsRow ==
  [][\A s \in Seqs :
       /\ table'[s] = EmptyRow /\ table[s] # EmptyRow
       /\ \A i, j \in Columns : i < j /\ table[s][j] >= 0 => table[s][i] >= 0
       => \A i \in Columns : table[s][i] \in Blocks => ~in_use'[table[s][i]]]_vars
=============================================================================
