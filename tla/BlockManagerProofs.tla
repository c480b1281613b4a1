-------------------------- MODULE BlockManagerProofs --------------------------
(***************************************************************************)
(* Proofs about BlockManager for every pool size, every set of sequences   *)
(* and every bound.                                                        *)
(***************************************************************************)
EXTENDS BlockManager, ProofLemmas, FiniteSetTheorems

\* The device mirror never claims a revision the host table has not reached.
SyncBehind == table_synced <= table_revision

\* PoolIntegrity is inductive on top of the types; MirrorFresh needs SyncBehind, since a
\* mirror that were ahead could meet a later revision of a different table.
IInv == TypeOK /\ PoolIntegrity /\ SyncBehind /\ MirrorFresh

-----------------------------------------------------------------------------
\* AppendToTable's scan stops inside the row: Used is a column count.
LEMMA UsedBound ==
  ASSUME NEW row \in [Columns -> BlockIds]
  PROVE  /\ Used(row) \in 0 .. max_blocks_per_seq
         /\ \A i \in 1 .. Used(row) : row[i] >= 0
         /\ Used(row) < max_blocks_per_seq => row[Used(row) + 1] < 0
<1> DEFINE T == {u \in 0 .. max_blocks_per_seq : u < max_blocks_per_seq => row[u + 1] < 0}
<1>1. max_blocks_per_seq \in T
  BY PoolAssumption
<1>2. T \subseteq Nat
  BY PoolAssumption
<1>3. PICK u \in T : \A y \in T : u <= y
  BY <1>1, <1>2, LeastNat
<1>4. \A i \in 1 .. u : row[i] >= 0
  <2>1. SUFFICES ASSUME NEW i \in 1 .. u, ~(row[i] >= 0)
                 PROVE  FALSE
    OBVIOUS
  <2>2. i \in Columns /\ row[i] \in Int
    BY <2>1, PoolAssumption DEF Columns, BlockIds, Empty
  <2>3. i - 1 \in T
    BY <2>1, <2>2, PoolAssumption DEF Columns
  <2> QED
    BY <2>1, <2>3, <1>3, PoolAssumption
<1>5. \E v \in 0 .. max_blocks_per_seq :
        /\ \A i \in 1 .. v : row[i] >= 0
        /\ v < max_blocks_per_seq => row[v + 1] < 0
  BY <1>3, <1>4
<1> QED
  BY <1>5 DEF Used

\* ResetSeq frees at most a whole row.
LEMMA MappedBound ==
  ASSUME NEW row \in [Columns -> BlockIds]
  PROVE  Mapped(row) \in 0 .. max_blocks_per_seq
<1> DEFINE S == {i \in Columns : row[i] >= 0}
<1>1. IsFiniteSet(Columns) /\ Cardinality(Columns) = max_blocks_per_seq
  BY FS_Interval, PoolAssumption DEF Columns
<1>2. S \in SUBSET Columns
  OBVIOUS
<1>3. IsFiniteSet(S) /\ Cardinality(S) <= max_blocks_per_seq
  BY <1>1, <1>2, FS_Subset
<1>4. Cardinality(S) \in Nat
  BY <1>3, FS_CardinalityType
<1> QED
  BY <1>3, <1>4, PoolAssumption DEF Mapped

\* The array that ResetSeq hands to Free.
LEMMA RowPrefix ==
  ASSUME NEW row \in [Columns -> BlockIds]
  PROVE  [i \in 1 .. Mapped(row) |-> row[i]] \in Seq(BlockIds)
<1>1. Mapped(row) \in Nat /\ Mapped(row) <= max_blocks_per_seq
  BY MappedBound, PoolAssumption
<1>2. [i \in 1 .. Mapped(row) |-> row[i]] \in [1 .. Mapped(row) -> BlockIds]
  BY <1>1, PoolAssumption DEF Columns
<1> QED
  BY <1>1, <1>2, FcnIsSeq

-----------------------------------------------------------------------------
\* The pop loop of Allocate keeps the pool intact.
LEMMA TakeStep ==
  ASSUME TypeOK, PoolIntegrity, NEW n \in Nat, n <= Len(free_list), Take(n)
  PROVE  /\ free_list' \in Seq(Blocks)
         /\ in_use' \in [Blocks -> BOOLEAN]
         /\ PoolIntegrity'
<1> DEFINE k == Len(free_list) - n
<1>1. /\ free_list \in Seq(Blocks) /\ in_use \in [Blocks -> BOOLEAN]
      /\ Len(free_list) \in Nat /\ k \in Nat /\ k <= Len(free_list)
  BY DEF TypeOK
<1>2. free_list' \in [1 .. k -> Blocks] /\ \A i \in 1 .. k : free_list'[i] = free_list[i]
  BY <1>1 DEF Take
<1>3. free_list' \in Seq(Blocks) /\ Len(free_list') = k
  BY <1>1, <1>2, FcnIsSeq
<1>4. in_use' \in [Blocks -> BOOLEAN]
  BY <1>1 DEF Take
<1>5. FreeListDistinct'
  BY <1>1, <1>2, <1>3 DEF PoolIntegrity, FreeListDistinct
<1>6. \A b \in Blocks : in_use'[b] <=> in_use[b] \/ \E j \in k + 1 .. Len(free_list) : free_list[j] = b
  <2>1. TAKE b \in Blocks
  <2>2. in_use'[b] <=> in_use[b] \/ \E i \in 1 .. n : free_list[Len(free_list) - i + 1] = b
    BY <1>1 DEF Take, Popped
  <2>3. ASSUME NEW i \in 1 .. n PROVE Len(free_list) - i + 1 \in k + 1 .. Len(free_list)
    BY <1>1
  <2>4. ASSUME NEW j \in k + 1 .. Len(free_list)
        PROVE  Len(free_list) - j + 1 \in 1 .. n /\ Len(free_list) - (Len(free_list) - j + 1) + 1 = j
    BY <1>1
  <2> QED
    BY <2>2, <2>3, <2>4
<1>7. ASSUME NEW b \in Blocks
      PROVE  ~in_use'[b] <=> \E i \in 1 .. k : free_list[i] = b
  <2>1. ~in_use[b] <=> \E i \in 1 .. Len(free_list) : free_list[i] = b
    BY <1>1 DEF PoolIntegrity, FreeListComplement
  <2>2. \A i, j \in 1 .. Len(free_list) : free_list[i] = free_list[j] => i = j
    BY <1>1 DEF PoolIntegrity, FreeListDistinct
  <2> QED
    BY <1>1, <1>6, <2>1, <2>2
<1>8. FreeListComplement'
  BY <1>1, <1>2, <1>3, <1>7 DEF FreeListComplement, Blocks
<1> QED
  BY <1>3, <1>4, <1>5, <1>8 DEF PoolIntegrity

\* The loop of Free keeps the pool intact, whatever ids it is given.
LEMMA ReleaseStep ==
  ASSUME TypeOK, PoolIntegrity, NEW ids \in Seq(BlockIds), Release(ids)
  PROVE  /\ free_list' \in Seq(Blocks)
         /\ in_use' \in [Blocks -> BOOLEAN]
         /\ double_free_events' \in Nat
         /\ PoolIntegrity'
<1> DEFINE R == Releases(ids)
           n == Len(free_list)
<1>1. /\ free_list \in Seq(Blocks) /\ in_use \in [Blocks -> BOOLEAN]
      /\ double_free_events \in Nat
      /\ n \in Nat /\ Len(ids) \in Nat /\ DOMAIN ids = 1 .. Len(ids)
  BY DEF TypeOK
<1>2. PICK order \in InLoopOrder(R, Len(ids)) :
        /\ free_list' = free_list \o [k \in 1 .. Len(order) |-> ids[order[k]]]
        /\ in_use' = [b \in Blocks |-> in_use[b] /\ \A i \in DOMAIN ids : ids[i] # b]
        /\ double_free_events' = double_free_events + Len(ids) - Len(order)
  BY DEF Release
<1>3. PICK m \in 0 .. Len(ids) : order \in [1 .. m -> R]
  BY <1>2, Zenon DEF InLoopOrder
<1>4. /\ \A i \in R : \E k \in DOMAIN order : order[k] = i
      /\ \A k, l \in DOMAIN order : k < l => order[k] < order[l]
  BY <1>2, Zenon DEF InLoopOrder
<1>5. m \in Nat /\ m <= Len(ids) /\ Len(order) = m /\ DOMAIN order = 1 .. m
  BY <1>1, <1>3, FcnIsSeq
<1>6. \A i \in R : /\ i \in 1 .. Len(ids) /\ ids[i] \in Blocks /\ in_use[ids[i]]
                   /\ \A j \in 1 .. i - 1 : ids[j] # ids[i]
  BY <1>1 DEF Releases
<1> DEFINE new == [k \in 1 .. m |-> ids[order[k]]]
<1>7. new \in [1 .. m -> Blocks]
  BY <1>3, <1>6
<1>8. new \in Seq(Blocks) /\ Len(new) = m
  BY <1>5, <1>7, FcnIsSeq
<1>9. free_list' = free_list \o new
  BY <1>2, <1>5
<1> HIDE DEF new
<1>10. /\ free_list' \in Seq(Blocks) /\ Len(free_list') = n + m
       /\ \A i \in 1 .. n : free_list'[i] = free_list[i]
       /\ \A k \in 1 .. m : free_list'[n + k] = new[k]
  <2>1. /\ free_list \o new \in Seq(Blocks)
        /\ Len(free_list \o new) = n + Len(new)
        /\ \A i \in 1 .. n : (free_list \o new)[i] = free_list[i]
        /\ \A k \in 1 .. Len(new) : (free_list \o new)[n + k] = new[k]
    <3>1. free_list \in Seq(Blocks) /\ new \in Seq(Blocks)
      BY <1>1, <1>8
    <3> QED
      BY <3>1, ConcatElements
  <2> QED
    BY <1>8, <1>9, <2>1
<1>11. double_free_events' \in Nat
  BY <1>1, <1>2, <1>5
<1>12. in_use' \in [Blocks -> BOOLEAN]
  BY <1>1, <1>2
<1>13. \A k \in 1 .. m : new[k] \in Blocks /\ in_use[new[k]]
  BY <1>3, <1>6 DEF new
<1>14. \A k, l \in 1 .. m : new[k] = new[l] => k = l
  <2>1. SUFFICES ASSUME NEW k \in 1 .. m, NEW l \in 1 .. m, k < l PROVE new[k] # new[l]
    BY <1>5
  <2>2. order[k] \in R /\ order[l] \in R /\ order[k] < order[l]
    BY <1>3, <1>4, <1>5, <2>1
  <2>3. order[k] \in 1 .. order[l] - 1
    BY <1>1, <1>6, <2>2
  <2> QED
    BY <1>6, <2>2, <2>3 DEF new
<1>15. \A i, j \in 1 .. n : free_list[i] = free_list[j] => i = j
  BY <1>1 DEF PoolIntegrity, FreeListDistinct
<1>16. \A b \in Blocks : ~in_use[b] <=> \E i \in 1 .. n : free_list[i] = b
  BY <1>1 DEF PoolIntegrity, FreeListComplement
<1>17. \A i \in 1 .. n : free_list[i] \in Blocks /\ ~in_use[free_list[i]]
  BY <1>1, <1>16
<1>18. FreeListDistinct'
  <2>1. SUFFICES ASSUME NEW i \in 1 .. n + m, NEW j \in 1 .. n + m, i < j
                 PROVE  free_list'[i] # free_list'[j]
    BY <1>1, <1>5, <1>10 DEF FreeListDistinct
  <2>2. CASE j <= n
    BY <1>1, <1>5, <1>10, <1>15, <2>1, <2>2
  <2>3. CASE i <= n /\ j > n
    <3>1. j - n \in 1 .. m /\ n + (j - n) = j /\ i \in 1 .. n
      BY <1>1, <1>5, <2>1, <2>3
    <3>2. free_list'[j] = new[j - n] /\ free_list'[i] = free_list[i]
      BY <1>10, <3>1
    <3> QED
      BY <1>13, <1>17, <3>1, <3>2
  <2>4. CASE i > n
    <3>1. i - n \in 1 .. m /\ j - n \in 1 .. m /\ i - n # j - n
      BY <1>1, <1>5, <2>1, <2>4
    <3>2. free_list'[n + (i - n)] = new[i - n] /\ free_list'[n + (j - n)] = new[j - n]
      BY <1>10, <3>1
    <3>3. n + (i - n) = i /\ n + (j - n) = j
      BY <1>1, <1>5
    <3> QED
      BY <1>14, <3>1, <3>2, <3>3
  <2> QED
    BY <1>1, <1>5, <2>2, <2>3, <2>4
<1>19. ASSUME NEW b \in Blocks, in_use[b], NEW i0 \in 1 .. Len(ids), ids[i0] = b
       PROVE  \E k \in 1 .. m : new[k] = b
  <2> DEFINE T == {i \in 1 .. Len(ids) : ids[i] = b}
  <2>1. PICK i \in T : \A y \in T : i <= y
    <3>1. i0 \in T /\ T \subseteq Nat
      BY <1>1, <1>19
    <3> QED
      BY <3>1, LeastNat
  <2>2. \A j \in 1 .. i - 1 : ids[j] # b
    BY <1>1, <2>1
  <2>3. i \in R
    BY <1>1, <1>19, <2>1, <2>2 DEF Releases
  <2>4. PICK k \in 1 .. m : order[k] = i
    BY <1>4, <1>5, <2>3
  <2> QED
    BY <2>1, <2>4 DEF new
<1>20. ASSUME NEW b \in Blocks
       PROVE  ~in_use'[b] <=> \E i \in 1 .. n + m : free_list'[i] = b
  <2>1. in_use'[b] <=> in_use[b] /\ \A i \in 1 .. Len(ids) : ids[i] # b
    BY <1>1, <1>2
  <2>2. (\E i \in 1 .. n + m : free_list'[i] = b) <=>
          (\E i \in 1 .. n : free_list[i] = b) \/ (\E k \in 1 .. m : new[k] = b)
    <3>1. ASSUME NEW k \in 1 .. m PROVE n + k \in 1 .. n + m /\ free_list'[n + k] = new[k]
      BY <1>1, <1>5, <1>10
    <3>2. ASSUME NEW i \in 1 .. n PROVE i \in 1 .. n + m /\ free_list'[i] = free_list[i]
      BY <1>1, <1>5, <1>10
    <3>3. ASSUME NEW i \in 1 .. n + m
          PROVE  i \in 1 .. n \/ (i - n \in 1 .. m /\ free_list'[i] = new[i - n])
      <4>1. i \in 1 .. n \/ (i - n \in 1 .. m /\ n + (i - n) = i)
        BY <1>1, <1>5
      <4> QED
        BY <1>10, <4>1
    <3> QED
      BY <3>1, <3>2, <3>3
  <2>3. (\E k \in 1 .. m : new[k] = b) => \E i \in 1 .. Len(ids) : ids[i] = b
    BY <1>3, <1>6 DEF new
  <2> QED
    BY <1>16, <1>19, <2>1, <2>2, <2>3
<1>21. FreeListComplement'
  <2>1. DOMAIN free_list' = 1 .. n + m
    BY <1>1, <1>5, <1>10
  <2> QED
    BY <1>20, <2>1 DEF FreeListComplement, Blocks
<1> QED
  BY <1>10, <1>11, <1>12, <1>18, <1>21 DEF PoolIntegrity

-----------------------------------------------------------------------------
\* Create establishes the invariant.
LEMMA InitIInv == Init => IInv
<1> SUFFICES ASSUME Init PROVE IInv
  OBVIOUS
<1>1. free_list \in [1 .. num_blocks -> Blocks]
  BY PoolAssumption DEF Init, Blocks
<1>2. free_list \in Seq(Blocks) /\ Len(free_list) = num_blocks
  BY <1>1, FcnIsSeq, PoolAssumption
<1>3. EmptyRow \in [Columns -> BlockIds]
  BY PoolAssumption DEF EmptyRow, Columns, BlockIds, Empty
<1>4. TypeOK
  BY <1>2, <1>3 DEF Init, TypeOK
<1>5. FreeListDistinct
  BY <1>2, PoolAssumption DEF Init, FreeListDistinct
<1>6. FreeListComplement
  <2>1. SUFFICES ASSUME NEW b \in Blocks PROVE \E i \in 1 .. num_blocks : free_list[i] = b
    BY <1>2 DEF Init, FreeListComplement
  <2>2. num_blocks - b \in 1 .. num_blocks /\ num_blocks - (num_blocks - b) = b
    BY PoolAssumption DEF Blocks
  <2> QED
    BY <2>2 DEF Init
<1> QED
  BY <1>4, <1>5, <1>6 DEF Init, IInv, PoolIntegrity, SyncBehind, MirrorFresh

\* Every call of the block manager keeps the invariant.
LEMMA NextIInv == IInv /\ [Next]_vars => IInv'
<1> SUFFICES ASSUME IInv, [Next]_vars PROVE IInv'
  OBVIOUS
<1> USE DEF IInv, pool, hostTable, mirror
<1>1. ASSUME NEW n \in 1 .. num_blocks, Allocate(n) PROVE IInv'
  <2>1. CASE AllocationFails(n)
    BY <1>1, <2>1 DEF Allocate, AllocationFails, TypeOK, PoolIntegrity, FreeListDistinct,
       FreeListComplement, SyncBehind, MirrorFresh
  <2>2. CASE n <= Len(free_list) /\ Take(n) /\ UNCHANGED allocation_failures
    <3>1. n \in Nat
      BY PoolAssumption
    <3>2. /\ free_list' \in Seq(Blocks) /\ in_use' \in [Blocks -> BOOLEAN]
          /\ PoolIntegrity'
      BY <2>2, <3>1, TakeStep
    <3>3. UNCHANGED <<hostTable, mirror, double_free_events>>
      BY <1>1 DEF Allocate
    <3> QED
      BY <2>2, <3>2, <3>3 DEF TypeOK, SyncBehind, MirrorFresh
  <2> QED
    BY <1>1, <2>1, <2>2 DEF Allocate
<1>2. ASSUME NEW ids \in Ids, Free(ids) PROVE IInv'
  <2>1. ids \in Seq(BlockIds)
    BY FcnIsSeq, BoundAssumption DEF Ids
  <2>2. /\ free_list' \in Seq(Blocks) /\ in_use' \in [Blocks -> BOOLEAN]
        /\ double_free_events' \in Nat /\ PoolIntegrity'
    BY <1>2, <2>1, ReleaseStep DEF Free
  <2> QED
    BY <1>2, <2>2 DEF Free, TypeOK, SyncBehind, MirrorFresh
<1>3. ASSUME NEW s \in Seqs, NEW ids \in Ids, AppendToTable(s, ids) PROVE IInv'
  <2> DEFINE used == Used(table[s])
             row == [i \in Columns |-> IF i \in used + 1 .. used + Len(ids)
                                        THEN ids[i - used] ELSE table[s][i]]
  <2>1. ids \in Seq(BlockIds) /\ Len(ids) \in Nat
    BY FcnIsSeq, BoundAssumption DEF Ids
  <2>2. table[s] \in [Columns -> BlockIds]
    BY DEF TypeOK
  <2>3. used \in Int
    BY <2>2, UsedBound, PoolAssumption
  <2>4. row \in [Columns -> BlockIds]
    <3> HIDE DEF used
    <3> SUFFICES ASSUME NEW i \in Columns PROVE row[i] \in BlockIds
      OBVIOUS
    <3>1. CASE i \in used + 1 .. used + Len(ids)
      <4>1. i - used \in 1 .. Len(ids)
        BY <2>1, <2>3, <3>1
      <4> QED
        BY <2>1, <3>1, <4>1
    <3>2. CASE ~(i \in used + 1 .. used + Len(ids))
      BY <2>2, <3>2
    <3> QED
      BY <3>1, <3>2
  <2>5. table' = [table EXCEPT ![s] = row] /\ table_revision' = table_revision + 1
    BY <1>3 DEF AppendToTable, Attach
  <2>6. UNCHANGED <<pool, mirror, allocation_failures, double_free_events>>
    BY <1>3 DEF AppendToTable
  <2> HIDE DEF row
  <2>7. TypeOK'
    BY <2>4, <2>5, <2>6 DEF TypeOK
  <2>8. SyncBehind' /\ MirrorFresh'
    BY <2>5, <2>6 DEF TypeOK, SyncBehind, MirrorFresh
  <2> QED
    BY <2>6, <2>7, <2>8 DEF PoolIntegrity, FreeListDistinct, FreeListComplement
<1>4. ASSUME NEW s \in Seqs, ResetSeq(s) PROVE IInv'
  <2> DEFINE ids == [i \in 1 .. Mapped(table[s]) |-> table[s][i]]
  <2>1. ids \in Seq(BlockIds)
    BY RowPrefix DEF TypeOK
  <2>2. /\ free_list' \in Seq(Blocks) /\ in_use' \in [Blocks -> BOOLEAN]
        /\ double_free_events' \in Nat /\ PoolIntegrity'
    <3>1. Release(ids)
      BY <1>4 DEF ResetSeq
    <3> HIDE DEF ids
    <3> QED
      BY <2>1, <3>1, ReleaseStep
  <2>3. EmptyRow \in [Columns -> BlockIds]
    BY PoolAssumption DEF EmptyRow, Columns, BlockIds, Empty
  <2>4. /\ table' = [table EXCEPT ![s] = EmptyRow]
        /\ table_revision' = table_revision + 1
        /\ UNCHANGED <<mirror, allocation_failures>>
    BY <1>4 DEF ResetSeq
  <2> QED
    BY <2>2, <2>3, <2>4 DEF TypeOK, SyncBehind, MirrorFresh
<1>5. CASE SyncTableToDevice
  BY <1>5 DEF SyncTableToDevice, TypeOK, PoolIntegrity, FreeListDistinct, FreeListComplement,
     SyncBehind, MirrorFresh
<1>6. CASE UNCHANGED vars
  BY <1>6 DEF vars, TypeOK, PoolIntegrity, FreeListDistinct, FreeListComplement, SyncBehind,
     MirrorFresh
<1> QED
  BY <1>1, <1>2, <1>3, <1>4, <1>5, <1>6 DEF Next

\* Every reachable state of the allocator is well typed: no caller can make the free
\* list hold something that is not a block of the pool.
THEOREM TypeCorrect == Spec => []TypeOK
<1>1. IInv => TypeOK
  BY DEF IInv
<1> QED
  BY <1>1, InitIInv, NextIInv, PTL DEF Spec

\* BlockManager::Free may be given any ids (foreign, repeated, out of range, a row with
\* holes): the free list stays duplicate-free and the exact complement of in_use_.
THEOREM PoolIntegrityHolds == Spec => []PoolIntegrity
<1>1. IInv => PoolIntegrity
  BY DEF IInv
<1> QED
  BY <1>1, InitIInv, NextIInv, PTL DEF Spec

\* SyncTableToDevice may skip the upload whenever the revisions agree: the device
\* table then equals the host table.
THEOREM MirrorFreshHolds == Spec => []MirrorFresh
<1>1. IInv => MirrorFresh
  BY DEF IInv
<1> QED
  BY <1>1, InitIInv, NextIInv, PTL DEF Spec

-----------------------------------------------------------------------------
\* In a row without holes the two ways of counting agree: what AppendToTable counts from
\* the front, ResetSeq counts over the whole row.
LEMMA NoHolesMapped ==
  ASSUME NEW r \in [Columns -> BlockIds],
         \A i, j \in Columns : i < j /\ r[j] >= 0 => r[i] >= 0
  PROVE  /\ Mapped(r) = Used(r)
         /\ \A i \in Columns : r[i] >= 0 <=> i <= Used(r)
<1>1. PICK u \in 0 .. max_blocks_per_seq :
        /\ u = Used(r)
        /\ \A i \in 1 .. u : r[i] >= 0
        /\ u < max_blocks_per_seq => r[u + 1] < 0
  BY UsedBound
<1>2. max_blocks_per_seq \in Nat \ {0} /\ u \in Nat
  BY PoolAssumption
<1>3. ASSUME NEW i \in Columns, r[i] >= 0
      PROVE  i <= u
  <2> SUFFICES ASSUME i > u
               PROVE  FALSE
    BY <1>2 DEF Columns
  <2>1. u < max_blocks_per_seq /\ u + 1 \in Columns /\ r[u + 1] \in Int
    BY <1>2 DEF Columns, BlockIds, Empty
  <2>2. i = u + 1 \/ u + 1 < i
    BY <1>2 DEF Columns
  <2>3. r[u + 1] >= 0
    BY <1>3, <2>1, <2>2
  <2> QED
    BY <1>1, <2>1, <2>3
<1>4. \A i \in Columns : r[i] >= 0 <=> i <= u
  BY <1>1, <1>2, <1>3 DEF Columns
<1>5. {i \in Columns : r[i] >= 0} = 1 .. u
  BY <1>2, <1>4 DEF Columns
<1>6. Cardinality(1 .. u) = u
  BY <1>2, FS_Interval
<1> QED
  BY <1>1, <1>4, <1>5, <1>6 DEF Mapped

\* A row that ResetSeq did not clear is not cleared at all, and ResetSeq takes all blocks of
\* a row without holes out of use.
LEMMA StepReturnsRow ==
  ASSUME TypeOK, [Next]_vars, NEW s \in Seqs, table'[s] = EmptyRow, table[s] # EmptyRow,
         \A i, j \in Columns : i < j /\ table[s][j] >= 0 => table[s][i] >= 0,
         NEW k \in Columns, table[s][k] \in Blocks
  PROVE  ~in_use'[table[s][k]]
<1> DEFINE r == table[s]
<1>1. r \in [Columns -> BlockIds] /\ table \in [Seqs -> [Columns -> BlockIds]]
  BY DEF TypeOK
<1>2. PICK u \in 0 .. max_blocks_per_seq :
        /\ u = Used(r) /\ u = Mapped(r)
        /\ \A i \in Columns : r[i] >= 0 <=> i <= u
  BY <1>1, NoHolesMapped, UsedBound
<1>3. r[k] >= 0 /\ k <= u /\ 1 \in Columns /\ r[1] >= 0 /\ u >= 1 /\ u \in Nat
  BY <1>2, PoolAssumption DEF Blocks, Columns
<1>4. table' # table
  OBVIOUS
<1>5. ASSUME NEW t \in Seqs, NEW ids \in Ids, AppendToTable(t, ids)
      PROVE  FALSE
  <2>1. table' = [table EXCEPT ![t] =
                    [i \in Columns |-> IF i \in Used(table[t]) + 1 .. Used(table[t]) + Len(ids)
                                         THEN ids[i - Used(table[t])] ELSE table[t][i]]]
    BY <1>5 DEF AppendToTable, Attach
  <2>2. CASE t = s
    <3>1. table'[s][1] = IF 1 \in u + 1 .. u + Len(ids) THEN ids[1 - u] ELSE r[1]
      BY <1>1, <1>2, <1>3, <2>1, <2>2
    <3>2. ~(1 \in u + 1 .. u + Len(ids))
      BY <1>3
    <3>3. table'[s][1] = r[1]
      BY <3>1, <3>2
    <3>4. table'[s][1] = -1
      BY <1>3 DEF EmptyRow, Empty
    <3> QED
      BY <1>3, <3>3, <3>4
  <2>3. CASE t # s
    BY <1>1, <2>1, <2>3
  <2> QED
    BY <2>2, <2>3
<1>6. ASSUME NEW t \in Seqs, ResetSeq(t)
      PROVE  ~in_use'[r[k]]
  <2>1. table' = [table EXCEPT ![t] = EmptyRow]
    BY <1>6 DEF ResetSeq
  <2>2. t = s
    BY <1>1, <2>1
  <2> DEFINE ids == [i \in 1 .. Mapped(r) |-> r[i]]
  <2>3. in_use' = [b \in Blocks |-> in_use[b] /\ \A i \in DOMAIN ids : ids[i] # b]
    BY <1>6, <2>2 DEF ResetSeq, Release
  <2>4. k \in DOMAIN ids /\ ids[k] = r[k]
    BY <1>2, <1>3 DEF Columns
  <2> HIDE DEF ids
  <2> QED
    BY <2>3, <2>4
<1>7. Next
  BY <1>4 DEF vars
<1>8. ~\E n \in 1 .. num_blocks : Allocate(n)
  BY <1>4 DEF Allocate, hostTable
<1>9. (~\E ids \in Ids : Free(ids)) /\ ~SyncTableToDevice
  BY <1>4 DEF Free, SyncTableToDevice, hostTable
<1> QED
  BY <1>5, <1>6, <1>7, <1>8, <1>9 DEF Next

\* ResetSeq counts the mapped columns and frees that many from the front of the row: a row
\* without holes goes back to the pool as a whole, and no other call clears it.
THEOREM ResetReturnsRowHolds == Spec => ResetReturnsRow
<1>1. TypeOK /\ [Next]_vars =>
        [\A s \in Seqs :
           /\ table'[s] = EmptyRow /\ table[s] # EmptyRow
           /\ \A i, j \in Columns : i < j /\ table[s][j] >= 0 => table[s][i] >= 0
           => \A i \in Columns : table[s][i] \in Blocks => ~in_use'[table[s][i]]]_vars
  BY StepReturnsRow
<1> QED
  BY <1>1, TypeCorrect, PTL DEF Spec, ResetReturnsRow
=============================================================================
