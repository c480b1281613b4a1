--------------------------- MODULE PagedCacheProofs ---------------------------
(***************************************************************************)
(* Proofs about the paged cache, its readers and the rollout engine, for   *)
(* every pool size, block size, set of sequences and number of layers:     *)
(* first the invariants of PagedKVCache, then the same with reads in       *)
(* between, what a gather and a paged attention call return, that the      *)
(* cache implements LogicalCache, and what the engine of Rollout gets out  *)
(* of it.  What the allocator keeps intact is taken from                   *)
(* BlockManagerProofs, instantiated with the cache's own pool.             *)
(***************************************************************************)
EXTENDS Rollout, ProofLemmas, FiniteSetTheorems

BMP == INSTANCE BlockManagerProofs WITH MaxIds <- num_blocks

\* The device page table never claims a revision the host has not reached.
SyncBehind == synced_revision <= revision

\* Ownership and LengthCovered support each other (a slot is written only in an owned
\* block), DevicePageTableFresh needs SyncBehind, and NoCrossTalk needs Ownership.
IInv ==
  /\ TypeOK
  /\ Ownership
  /\ LengthCovered
  /\ SyncBehind
  /\ DevicePageTableFresh
  /\ NoCrossTalk

-----------------------------------------------------------------------------
\* A pool of num_blocks blocks, rows as long as the pool.
LEMMA Geometry ==
  /\ num_blocks \in Nat \ {0} /\ block_size \in Nat \ {0} /\ num_layers \in Nat \ {0}
  /\ max_blocks_per_seq = num_blocks
  /\ BM!Blocks = 0 .. num_blocks - 1 /\ BM!Columns = 1 .. num_blocks
  /\ BM!Empty = -1 /\ BM!BlockIds = -1 .. num_blocks
  BY CacheAssumption DEF max_blocks_per_seq, BM!Blocks, BM!Columns, BM!Empty, BM!BlockIds

\* The numbers from 1 to m are m numbers.
LEMMA CardInterval ==
  ASSUME NEW m \in Nat
  PROVE  IsFiniteSet(1 .. m) /\ Cardinality(1 .. m) = m
<1>1. Cardinality(1 .. m) = IF 1 > m THEN 0 ELSE m - 1 + 1
  BY FS_Interval
<1> QED
  BY <1>1, FS_Interval

\* What the pop loop of Allocate hands out was free, without repetition.
LEMMA PoolTake ==
  ASSUME BM!TypeOK, BM!PoolIntegrity, NEW k \in Nat, k <= Len(free_list), BM!Take(k)
  PROVE  /\ free_list' \in Seq(BM!Blocks) /\ Len(free_list') = Len(free_list) - k
         /\ in_use' \in [BM!Blocks -> BOOLEAN]
         /\ BM!PoolIntegrity'
         /\ BM!Popped(k) \in Seq(BM!Blocks) /\ Len(BM!Popped(k)) = k
         /\ \A i \in 1 .. k : ~in_use[BM!Popped(k)[i]]
         /\ \A i, j \in 1 .. k : BM!Popped(k)[i] = BM!Popped(k)[j] => i = j
         /\ \A b \in BM!Blocks : in_use'[b] <=> in_use[b] \/ \E i \in 1 .. k : BM!Popped(k)[i] = b
<1>1. BMP!TypeOK /\ BMP!PoolIntegrity /\ BMP!Take(k)
  BY DEF BM!TypeOK, BMP!TypeOK, BM!Blocks, BMP!Blocks, BM!Columns, BMP!Columns, BM!BlockIds,
     BMP!BlockIds, BM!Empty, BMP!Empty, BM!PoolIntegrity, BMP!PoolIntegrity,
     BM!FreeListDistinct, BMP!FreeListDistinct, BM!FreeListComplement,
     BMP!FreeListComplement, BM!Take, BMP!Take, BM!Popped, BMP!Popped
<1>2. /\ free_list' \in Seq(BMP!Blocks) /\ in_use' \in [BMP!Blocks -> BOOLEAN]
      /\ BMP!PoolIntegrity'
  BY <1>1, BMP!TakeStep, CacheAssumption, CacheBoundAssumption DEF max_blocks_per_seq
<1>3. /\ free_list' \in Seq(BM!Blocks) /\ in_use' \in [BM!Blocks -> BOOLEAN]
      /\ BM!PoolIntegrity'
  BY <1>2 DEF BM!Blocks, BMP!Blocks, BM!PoolIntegrity, BMP!PoolIntegrity,
     BM!FreeListDistinct, BMP!FreeListDistinct, BM!FreeListComplement, BMP!FreeListComplement
<1>4. free_list \in Seq(BM!Blocks) /\ Len(free_list) \in Nat
  BY DEF BM!TypeOK
<1>5. Len(free_list') = Len(free_list) - k
  <2>1. free_list' = [i \in 1 .. Len(free_list) - k |-> free_list[i]]
    BY DEF BM!Take
  <2>2. free_list' \in [1 .. Len(free_list) - k -> BM!Blocks]
    BY <2>1, <1>4
  <2> QED
    BY <2>2, <1>4, FcnIsSeq
<1>6. \A i \in 1 .. k : Len(free_list) - i + 1 \in 1 .. Len(free_list)
  BY <1>4
<1>7. BM!Popped(k) \in [1 .. k -> BM!Blocks]
  BY <1>4, <1>6 DEF BM!Popped
<1>8. BM!Popped(k) \in Seq(BM!Blocks) /\ Len(BM!Popped(k)) = k
  BY <1>7, FcnIsSeq
<1>9. \A i \in 1 .. k : BM!Popped(k)[i] = free_list[Len(free_list) - i + 1]
  BY DEF BM!Popped
<1>10. ASSUME NEW i \in 1 .. k
       PROVE  ~in_use[BM!Popped(k)[i]]
  BY <1>4, <1>6, <1>7, <1>9 DEF BM!PoolIntegrity, BM!FreeListComplement
<1>11. ASSUME NEW i \in 1 .. k, NEW j \in 1 .. k, BM!Popped(k)[i] = BM!Popped(k)[j]
       PROVE  i = j
  <2>1. \A a, b \in 1 .. Len(free_list) : free_list[a] = free_list[b] => a = b
    BY <1>4 DEF BM!PoolIntegrity, BM!FreeListDistinct
  <2>2. Len(free_list) - i + 1 = Len(free_list) - j + 1
    BY <2>1, <1>6, <1>9, <1>11
  <2> QED
    BY <2>2, <1>4
<1>12. \A b \in BM!Blocks : in_use'[b] <=> in_use[b] \/ \E i \in 1 .. k : BM!Popped(k)[i] = b
  BY <1>3 DEF BM!Take, BM!TypeOK
<1> QED
  BY <1>3, <1>5, <1>8, <1>10, <1>11, <1>12

\* Free given live blocks without repetition releases every one of them and counts no
\* double free.
LEMMA PoolRelease ==
  ASSUME BM!TypeOK, BM!PoolIntegrity, NEW ids \in Seq(BM!Blocks), BM!Release(ids),
         \A i \in 1 .. Len(ids) : in_use[ids[i]],
         \A i, j \in 1 .. Len(ids) : ids[i] = ids[j] => i = j
  PROVE  /\ free_list' \in Seq(BM!Blocks) /\ Len(free_list') = Len(free_list) + Len(ids)
         /\ in_use' \in [BM!Blocks -> BOOLEAN]
         /\ BM!PoolIntegrity'
         /\ double_free_events' = double_free_events
         /\ \A b \in BM!Blocks : in_use'[b] <=> in_use[b] /\ \A i \in 1 .. Len(ids) : ids[i] # b
<1>1. BMP!TypeOK /\ BMP!PoolIntegrity /\ BMP!Release(ids)
  BY DEF BM!TypeOK, BMP!TypeOK, BM!Blocks, BMP!Blocks, BM!Columns, BMP!Columns, BM!BlockIds,
     BMP!BlockIds, BM!Empty, BMP!Empty, BM!PoolIntegrity, BMP!PoolIntegrity,
     BM!FreeListDistinct, BMP!FreeListDistinct, BM!FreeListComplement,
     BMP!FreeListComplement, BM!Release, BMP!Release, BM!Releases, BMP!Releases,
     BM!InLoopOrder, BMP!InLoopOrder
<1>2. ids \in Seq(BMP!BlockIds)
  BY Geometry DEF BMP!BlockIds, BMP!Empty
<1>3. /\ free_list' \in Seq(BMP!Blocks) /\ in_use' \in [BMP!Blocks -> BOOLEAN]
      /\ BMP!PoolIntegrity'
  BY <1>1, <1>2, BMP!ReleaseStep, CacheAssumption, CacheBoundAssumption DEF max_blocks_per_seq
<1>4. /\ free_list' \in Seq(BM!Blocks) /\ in_use' \in [BM!Blocks -> BOOLEAN]
      /\ BM!PoolIntegrity'
  BY <1>3 DEF BM!Blocks, BMP!Blocks, BM!PoolIntegrity, BMP!PoolIntegrity,
     BM!FreeListDistinct, BMP!FreeListDistinct, BM!FreeListComplement, BMP!FreeListComplement
<1> DEFINE n == Len(ids)
<1>5. n \in Nat /\ DOMAIN ids = 1 .. n
  OBVIOUS
<1>6. BM!Releases(ids) = 1 .. n
  BY <1>5 DEF BM!Releases
<1>7. PICK order \in BM!InLoopOrder(1 .. n, n) :
        /\ free_list' = free_list \o [k \in 1 .. Len(order) |-> ids[order[k]]]
        /\ in_use' = [b \in BM!Blocks |-> in_use[b] /\ \A i \in DOMAIN ids : ids[i] # b]
        /\ double_free_events' = double_free_events + n - Len(order)
  BY <1>6 DEF BM!Release
<1> HIDE DEF n
<1>8. PICK m \in 0 .. n : order \in [1 .. m -> 1 .. n]
  BY <1>7, Zenon DEF BM!InLoopOrder
<1>9. \A i \in 1 .. n : \E k \in DOMAIN order : order[k] = i
  BY <1>7, Zenon DEF BM!InLoopOrder
<1>10. m \in Nat /\ m <= n /\ Len(order) = m
  BY <1>5, <1>8, FcnIsSeq
<1>11. n <= m
  <2>1. order \in Surjection(1 .. m, 1 .. n)
    BY <1>8, <1>9 DEF Surjection
  <2>2. IsFiniteSet(1 .. m) /\ Cardinality(1 .. m) = m /\ Cardinality(1 .. n) = n
    BY <1>5, <1>10, CardInterval
  <2> QED
    BY <2>1, <2>2, FS_Surjection
<1>12. m = n
  BY <1>5, <1>10, <1>11
<1>13. double_free_events' = double_free_events
  BY <1>5, <1>7, <1>10, <1>12 DEF BM!TypeOK
<1>14. Len(free_list') = Len(free_list) + n
  <2>1. [k \in 1 .. m |-> ids[order[k]]] \in [1 .. m -> BM!Blocks]
    BY <1>5, <1>8
  <2>2. /\ [k \in 1 .. m |-> ids[order[k]]] \in Seq(BM!Blocks)
        /\ Len([k \in 1 .. m |-> ids[order[k]]]) = m
    BY <2>1, <1>10, FcnIsSeq
  <2>3. free_list \in Seq(BM!Blocks) /\ free_list' = free_list \o [k \in 1 .. m |-> ids[order[k]]]
    BY <1>7, <1>10 DEF BM!TypeOK
  <2> QED
    BY <2>2, <2>3, <1>12, ConcatElements
<1>15. \A b \in BM!Blocks : in_use'[b] <=> in_use[b] /\ \A i \in 1 .. n : ids[i] # b
  BY <1>4, <1>5, <1>7 DEF BM!TypeOK
<1> QED
  BY <1>4, <1>13, <1>14, <1>15 DEF n

-----------------------------------------------------------------------------
\* CeilDiv is the least number of blocks that holds a tokens.
LEMMA CeilDivFacts ==
  ASSUME NEW a \in Nat
  PROVE  /\ CeilDiv(a, block_size) \in Nat
         /\ a <= CeilDiv(a, block_size) * block_size
         /\ \A L \in Nat : a <= L * block_size => CeilDiv(a, block_size) <= L
<1>1. block_size \in Nat \ {0}
  BY CacheAssumption
<1>2. PICK q \in Int, m \in Int : /\ q = (a + block_size - 1) \div block_size
                                  /\ m = (a + block_size - 1) % block_size
  BY <1>1
<1>3. a + block_size - 1 = block_size * q + m /\ m \in 0 .. block_size - 1
  BY <1>1, <1>2
<1>4. block_size * q >= a /\ block_size * q < a + block_size
  BY <1>1, <1>3
<1>5. q \in Nat
  BY <1>1, <1>4
<1>6. a <= q * block_size
  BY <1>1, <1>4, <1>5
<1>7. ASSUME NEW L \in Nat, a <= L * block_size
      PROVE  q <= L
  <2>1. block_size * q < (L + 1) * block_size
    BY <1>1, <1>4, <1>7
  <2>2. block_size * (L + 1 - q) > 0
    BY <2>1, <1>1
  <2> QED
    BY <2>2, <1>1
<1> QED
  BY <1>2, <1>5, <1>6, <1>7 DEF CeilDiv

\* The block of a position that L blocks cover is among the first L.
LEMMA BlockOfPosition ==
  ASSUME NEW x \in Nat, NEW L \in Nat, x < L * block_size
  PROVE  /\ x \div block_size \in Nat /\ x % block_size \in 0 .. block_size - 1
         /\ x \div block_size + 1 \in 1 .. L
         /\ x = block_size * (x \div block_size) + (x % block_size)
<1>1. block_size \in Nat \ {0}
  BY CacheAssumption
<1>2. PICK q \in Int, m \in Int : q = x \div block_size /\ m = x % block_size
  BY <1>1
<1>3. x = block_size * q + m /\ m \in 0 .. block_size - 1
  BY <1>1, <1>2
<1>4. q \in Nat
  BY <1>1, <1>3
<1>5. block_size * (L - q) > 0
  BY <1>1, <1>3
<1>6. q + 1 \in 1 .. L
  BY <1>1, <1>4, <1>5
<1> QED
  BY <1>2, <1>3, <1>4, <1>6, Zenon

\* A slot of block b lies in the pool and in no other block.
LEMMA SlotInBlock ==
  ASSUME NEW b \in BM!Blocks, NEW w \in 0 .. block_size - 1
  PROVE  /\ b * block_size + w \in Slots
         /\ (b * block_size + w) \div block_size = b
<1>1. block_size \in Nat \ {0} /\ num_blocks \in Nat \ {0} /\ b \in 0 .. num_blocks - 1
  BY Geometry
<1>2. b * block_size \in Nat /\ b * block_size <= (num_blocks - 1) * block_size
  BY <1>1
<1>3. (num_blocks - 1) * block_size = num_blocks * block_size - block_size
  BY <1>1
<1>4. b * block_size + w \in Slots
  BY <1>1, <1>2, <1>3 DEF Slots
<1>5. b * block_size + w \in Nat /\ b * block_size + w = block_size * b + w
  BY <1>1, <1>2
<1> QED
  BY <1>1, <1>4, <1>5, DivUnique

-----------------------------------------------------------------------------
\* A padded row is a row of block ids.
LEMMA PaddedRow ==
  ASSUME NEW owned \in Seq(BM!Blocks)
  PROVE  /\ Padded(owned) \in [BM!Columns -> BM!BlockIds]
         /\ \A i \in BM!Columns : i <= Len(owned) => /\ Padded(owned)[i] = owned[i]
                                                     /\ owned[i] \in BM!Blocks
         /\ \A i \in BM!Columns : i > Len(owned) => Padded(owned)[i] = BM!Empty
<1>1. \A i \in BM!Columns : i <= Len(owned) => owned[i] \in BM!Blocks
  BY Geometry
<1> QED
  BY <1>1, Geometry DEF Padded

\* AppendToTable's scan of a padded row stops behind the owned blocks.
LEMMA UsedPadded ==
  ASSUME NEW owned \in Seq(BM!Blocks), Len(owned) <= num_blocks
  PROVE  BM!Used(Padded(owned)) = Len(owned)
<1> DEFINE row == Padded(owned)
           L == Len(owned)
           P(u) == /\ \A i \in 1 .. u : row[i] >= 0
                   /\ u < num_blocks => row[u + 1] < 0
<1>1. L \in 0 .. num_blocks
  BY Geometry
<1>2. ASSUME NEW i \in 1 .. num_blocks
      PROVE  IF i <= L THEN row[i] >= 0 ELSE row[i] < 0
  <2>1. i \in BM!Columns /\ L \in Int
    BY Geometry
  <2>2. (i <= L => row[i] \in BM!Blocks) /\ (i > L => row[i] = BM!Empty)
    BY <2>1, PaddedRow
  <2> QED
    BY <2>1, <2>2, Geometry
<1> HIDE DEF row, L
<1>3. P(L)
  BY <1>1, <1>2, Geometry
<1>4. ASSUME NEW u \in 0 .. num_blocks, P(u)
      PROVE  u = L
  <2>1. CASE u < L
    <3>1. u + 1 \in 1 .. num_blocks /\ u + 1 <= L /\ u < num_blocks
      BY <2>1, <1>1, Geometry
    <3> QED
      BY <3>1, <1>2, <1>4, PaddedRow, Geometry DEF row
  <2>2. CASE u > L
    <3>1. L + 1 \in 1 .. u /\ L + 1 \in 1 .. num_blocks /\ ~(L + 1 <= L)
      BY <2>2, <1>1, Geometry
    <3> QED
      BY <3>1, <1>2, <1>4, PaddedRow, Geometry, SMTT(40) DEF row
  <2> QED
    BY <2>1, <2>2, <1>1, Geometry
<1>5. (CHOOSE u \in 0 .. num_blocks : P(u)) = L
  BY <1>1, <1>3, <1>4
<1> QED
  BY <1>5, Geometry DEF BM!Used, row, L

\* ResetSeq hands exactly the owned blocks to Free.
LEMMA MappedPadded ==
  ASSUME NEW owned \in Seq(BM!Blocks), Len(owned) <= num_blocks
  PROVE  [i \in 1 .. BM!Mapped(Padded(owned)) |-> Padded(owned)[i]] = owned
<1>1. Len(owned) \in Nat /\ owned = [i \in 1 .. Len(owned) |-> owned[i]]
  OBVIOUS
<1>2. \A i \in 1 .. num_blocks :
        Padded(owned)[i] >= 0 <=> i <= Len(owned)
  BY PaddedRow, Geometry, SMTT(40)
<1>3. {i \in BM!Columns : Padded(owned)[i] >= 0} = 1 .. Len(owned)
  BY <1>1, <1>2, Geometry
<1>4. BM!Mapped(Padded(owned)) = Len(owned)
  <2>1. BM!Mapped(Padded(owned)) = BM!Cardinality(1 .. Len(owned))
    BY <1>3, Zenon DEF BM!Mapped
  <2>2. BM!Cardinality(1 .. Len(owned)) = Cardinality(1 .. Len(owned))
    BY DEF BM!Cardinality, Cardinality
  <2> QED
    BY <2>1, <2>2, <1>1, CardInterval
<1>5. \A i \in 1 .. Len(owned) : Padded(owned)[i] = owned[i]
  BY PaddedRow, Geometry
<1> QED
  BY <1>1, <1>4, <1>5

\* Attaching blocks to a padded row pads the longer list.
LEMMA AttachPadded ==
  ASSUME NEW owned \in Seq(BM!Blocks), NEW ids \in Seq(BM!Blocks),
         Len(owned) + Len(ids) <= num_blocks
  PROVE  [i \in BM!Columns |-> IF i \in Len(owned) + 1 .. Len(owned) + Len(ids)
                                THEN ids[i - Len(owned)] ELSE Padded(owned)[i]]
           = Padded(owned \o ids)
<1> DEFINE L == Len(owned)
           M == Len(ids)
<1>1. /\ L \in Nat /\ M \in Nat /\ Len(owned \o ids) = L + M
      /\ \A i \in 1 .. L : (owned \o ids)[i] = owned[i]
      /\ \A k \in 1 .. M : (owned \o ids)[L + k] = ids[k]
  BY ConcatElements
<1> HIDE DEF L, M
<1>2. ASSUME NEW i \in BM!Columns
      PROVE  (IF i \in L + 1 .. L + M THEN ids[i - L] ELSE Padded(owned)[i])
               = Padded(owned \o ids)[i]
  <2>1. i \in Nat \ {0} /\ Padded(owned \o ids)[i] = IF i <= L + M THEN (owned \o ids)[i] ELSE BM!Empty
    BY <1>1, Geometry DEF Padded
  <2>2. CASE i \in L + 1 .. L + M
    <3>1. i - L \in 1 .. M /\ L + (i - L) = i /\ i <= L + M
      BY <2>1, <2>2, <1>1
    <3>2. (owned \o ids)[i] = ids[i - L]
      BY <3>1, <1>1
    <3> QED
      BY <3>1, <3>2, <2>1, <2>2
  <2>3. CASE i <= L
    <3>1. i \in 1 .. L /\ i <= L + M /\ i \notin L + 1 .. L + M
      BY <2>1, <2>3, <1>1
    <3> QED
      BY <3>1, <2>1, <2>3, <1>1 DEF Padded, L
  <2>4. CASE i > L + M
    <3>1. ~(i <= L) /\ ~(i <= L + M) /\ i \notin L + 1 .. L + M
      BY <2>1, <2>4, <1>1
    <3> QED
      BY <3>1, <2>1 DEF Padded, L
  <2> QED
    BY <2>1, <2>2, <2>3, <2>4, <1>1
<1> QED
  BY <1>2 DEF Padded, L, M

-----------------------------------------------------------------------------
\* The blocks a sequence owns and the free blocks are different blocks of one pool.
LEMMA OwnedAndFree ==
  ASSUME TypeOK, Ownership, NEW s \in Seqs
  PROVE  /\ Len(seq_blocks[s]) \in Nat /\ Len(free_list) \in Nat
         /\ Len(seq_blocks[s]) + Len(free_list) <= num_blocks
<1> DEFINE own == seq_blocks[s]
           L == Len(own)
           n == Len(free_list)
           F == [i \in 1 .. n + L |-> IF i <= n THEN free_list[i] ELSE own[i - n]]
<1>1. /\ own \in Seq(BM!Blocks) /\ free_list \in Seq(BM!Blocks) /\ L \in Nat /\ n \in Nat
      /\ DOMAIN own = 1 .. L /\ DOMAIN free_list = 1 .. n
  BY DEF TypeOK, BM!TypeOK
<1>2. \A i, j \in 1 .. n : free_list[i] = free_list[j] => i = j
  BY <1>1 DEF Ownership, BM!PoolIntegrity, BM!FreeListDistinct
<1>3. \A i, j \in 1 .. L : own[i] = own[j] => i = j
  BY <1>1 DEF Ownership, ExclusiveOwnership
<1>4. \A i \in 1 .. n, j \in 1 .. L : free_list[i] # own[j]
  <2>1. \A i \in 1 .. n : free_list[i] \in BM!Blocks /\ ~in_use[free_list[i]]
    BY <1>1 DEF Ownership, BM!PoolIntegrity, BM!FreeListComplement
  <2>2. \A j \in 1 .. L : own[j] \in BM!Blocks /\ in_use[own[j]]
    BY <1>1 DEF Ownership, NoBlockLost, Owns
  <2> QED
    BY <2>1, <2>2
<1> HIDE DEF own, L, n
<1>5. \A i \in 1 .. n + L : i \in 1 .. n \/ (~(i <= n) /\ i - n \in 1 .. L)
  BY <1>1
<1>6. F \in [1 .. n + L -> BM!Blocks]
  BY <1>1, <1>5
<1>7. ASSUME NEW i \in 1 .. n + L, NEW j \in 1 .. n + L, F[i] = F[j]
      PROVE  i = j
  <2>1. CASE i \in 1 .. n /\ j \in 1 .. n
    BY <2>1, <1>1, <1>2, <1>7
  <2>2. CASE i \in 1 .. n /\ ~(j <= n) /\ j - n \in 1 .. L
    BY <2>2, <1>1, <1>4, <1>7
  <2>3. CASE j \in 1 .. n /\ ~(i <= n) /\ i - n \in 1 .. L
    BY <2>3, <1>1, <1>4, <1>7
  <2>4. CASE ~(i <= n) /\ i - n \in 1 .. L /\ ~(j <= n) /\ j - n \in 1 .. L
    <3>1. i - n = j - n
      BY <2>4, <1>3, <1>7
    <3> QED
      BY <3>1, <1>1
  <2> QED
    BY <2>1, <2>2, <2>3, <2>4, <1>5
<1>8. F \in Injection(1 .. n + L, BM!Blocks)
  BY <1>6, <1>7 DEF Injection, IsInjective
<1>9. IsFiniteSet(BM!Blocks) /\ Cardinality(BM!Blocks) = num_blocks
  <2>1. Cardinality(0 .. num_blocks - 1) = IF 0 > num_blocks - 1 THEN 0 ELSE num_blocks - 1 - 0 + 1
    BY Geometry, FS_Interval
  <2> QED
    BY <2>1, Geometry, FS_Interval
<1>10. n + L \in Nat /\ Cardinality(1 .. n + L) = n + L
  BY <1>1, CardInterval
<1>11. Cardinality(1 .. n + L) <= Cardinality(BM!Blocks)
  BY <1>8, <1>9, FS_Injection
<1> QED
  BY <1>1, <1>9, <1>10, <1>11 DEF n, L, own

\* AppendTokens' reservation: the owned list of s grows at its end by blocks nobody
\* owned, in all three copies, until it covers n more tokens.
LEMMA ReserveStep ==
  ASSUME TypeOK, Ownership, NEW s \in Seqs, NEW n \in Nat, Reserve(s, n)
  PROVE  /\ BM!TypeOK' /\ Ownership'
         /\ seq_blocks' \in [Seqs -> Seq(BM!Blocks)]
         /\ page_table_host' \in [Seqs -> [BM!Columns -> BM!BlockIds]]
         /\ seq_lengths[s] + n <= Len(seq_blocks'[s]) * block_size
         /\ \A w \in Seqs \ {s} : seq_blocks'[w] = seq_blocks[w]
         /\ Len(seq_blocks[s]) <= Len(seq_blocks'[s])
         /\ \A i \in 1 .. Len(seq_blocks[s]) : seq_blocks'[s][i] = seq_blocks[s][i]
         /\ Len(seq_blocks'[s]) <= num_blocks
         /\ page_table_host'[s] = Padded(seq_blocks'[s])
         /\ LET k == IF ToAllocate(s, n) > 0 THEN ToAllocate(s, n) ELSE 0 IN
            /\ k \in Nat /\ k <= Len(free_list)
            /\ Len(seq_blocks'[s]) = Len(seq_blocks[s]) + k
            /\ Len(free_list') = Len(free_list) - k
<1> DEFINE own == seq_blocks[s]
           k == ToAllocate(s, n)
           fresh == BM!Popped(k)
<1>1. /\ own \in Seq(BM!Blocks) /\ Len(own) \in Nat /\ DOMAIN own = 1 .. Len(own)
      /\ seq_lengths[s] \in Nat /\ seq_lengths[s] + n \in Nat
      /\ BM!TypeOK /\ free_list \in Seq(BM!Blocks) /\ Len(free_list) \in Nat
      /\ in_use \in [BM!Blocks -> BOOLEAN]
      /\ seq_blocks \in [Seqs -> Seq(BM!Blocks)]
  BY DEF TypeOK, BM!TypeOK
<1>2. /\ CeilDiv(seq_lengths[s] + n, block_size) \in Nat
      /\ seq_lengths[s] + n <= CeilDiv(seq_lengths[s] + n, block_size) * block_size
  BY <1>1, CeilDivFacts
<1>3. k = CeilDiv(seq_lengths[s] + n, block_size) - Len(own) /\ k \in Int
  BY <1>1, <1>2 DEF ToAllocate
<1>4. Len(own) + Len(free_list) <= num_blocks
  BY OwnedAndFree
<1>5. table[s] = Padded(own) /\ page_table_host[s] = Padded(own)
  BY DEF Ownership, RowsAgree
<1> HIDE DEF k
<1>6. /\ \/ /\ k > 0 /\ k <= Len(free_list) /\ BM!Take(k) /\ BM!Attach(s, fresh)
            /\ seq_blocks' = [seq_blocks EXCEPT ![s] = @ \o fresh]
         \/ /\ k <= 0
            /\ UNCHANGED <<free_list, in_use, table, table_revision, seq_blocks>>
      /\ page_table_host' = [page_table_host EXCEPT ![s] = Padded(seq_blocks'[s])]
      /\ UNCHANGED <<table_synced, table_device, allocation_failures, double_free_events>>
  BY Zenon DEF Reserve, k
<1>7. CASE k <= 0
  <2>1. /\ UNCHANGED <<free_list, in_use, table, table_revision, seq_blocks>>
        /\ page_table_host' = [page_table_host EXCEPT ![s] = Padded(seq_blocks'[s])]
        /\ UNCHANGED <<table_synced, table_device, allocation_failures, double_free_events>>
    <3>1. ~(k > 0)
      BY <1>3, <1>7
    <3> QED
      BY <3>1, <1>6, Zenon
  <2>2. page_table_host' = page_table_host
    BY <2>1, <1>5 DEF TypeOK
  <2>3. seq_lengths[s] + n <= Len(own) * block_size
    <3>1. CeilDiv(seq_lengths[s] + n, block_size) <= Len(own)
      BY <1>1, <1>2, <1>3, <1>7
    <3>2. CeilDiv(seq_lengths[s] + n, block_size) * block_size <= Len(own) * block_size
      BY <3>1, <1>1, <1>2, Geometry
    <3>3. CeilDiv(seq_lengths[s] + n, block_size) * block_size \in Int /\ Len(own) * block_size \in Int
      BY <1>1, <1>2, Geometry
    <3> QED
      BY <3>2, <3>3, <1>1, <1>2
  <2>4. BM!TypeOK'
    BY <2>1, <1>1 DEF BM!TypeOK
  <2>5. Ownership'
    BY <2>1, <2>2 DEF Ownership, BM!PoolIntegrity, BM!FreeListDistinct, BM!FreeListComplement,
       ExclusiveOwnership, NoBlockLost, RowsAgree, NoDoubleFree, Owns, Padded
  <2>6. /\ Len(own) <= num_blocks
        /\ (IF k > 0 THEN k ELSE 0) = 0
        /\ Len(seq_blocks'[s]) = Len(own) + 0 /\ Len(free_list') = Len(free_list) - 0
    BY <2>1, <1>1, <1>3, <1>4, <1>7, Geometry
  <2> QED
    BY <2>1, <2>2, <2>3, <2>4, <2>5, <2>6, <1>1, <1>5 DEF TypeOK, k
<1>8. CASE k > 0
  <2>1. /\ k <= Len(free_list) /\ BM!Take(k) /\ BM!Attach(s, fresh)
        /\ seq_blocks' = [seq_blocks EXCEPT ![s] = @ \o fresh]
        /\ page_table_host' = [page_table_host EXCEPT ![s] = Padded(seq_blocks'[s])]
        /\ UNCHANGED <<table_synced, table_device, allocation_failures, double_free_events>>
    <3>1. ~(k <= 0)
      BY <1>3, <1>8
    <3> QED
      BY <3>1, <1>6, Zenon
  <2>2. k \in Nat /\ BM!PoolIntegrity
    BY <1>3, <1>8 DEF Ownership
  <2>3. /\ free_list' \in Seq(BM!Blocks) /\ Len(free_list') = Len(free_list) - k
        /\ in_use' \in [BM!Blocks -> BOOLEAN]
        /\ BM!PoolIntegrity'
        /\ fresh \in Seq(BM!Blocks) /\ Len(fresh) = k
        /\ \A i \in 1 .. k : ~in_use[fresh[i]]
        /\ \A i, j \in 1 .. k : fresh[i] = fresh[j] => i = j
        /\ \A b \in BM!Blocks : in_use'[b] <=> in_use[b] \/ \E i \in 1 .. k : fresh[i] = b
    BY <2>1, <2>2, <1>1, PoolTake
  <2> HIDE DEF fresh
  <2>4. /\ own \o fresh \in Seq(BM!Blocks) /\ Len(own \o fresh) = Len(own) + k
        /\ \A i \in 1 .. Len(own) : (own \o fresh)[i] = own[i]
        /\ \A i \in 1 .. k : (own \o fresh)[Len(own) + i] = fresh[i]
    <3>1. /\ own \o fresh \in Seq(BM!Blocks) /\ Len(own \o fresh) = Len(own) + Len(fresh)
          /\ \A i \in 1 .. Len(own) : (own \o fresh)[i] = own[i]
          /\ \A i \in 1 .. Len(fresh) : (own \o fresh)[Len(own) + i] = fresh[i]
      <4>1. own \in Seq(BM!Blocks) /\ fresh \in Seq(BM!Blocks)
        BY <2>3, <1>1
      <4> HIDE DEF own
      <4> QED
        BY <4>1, ConcatElements
    <3> QED
      BY <3>1, <2>3
  <2>5. /\ seq_blocks'[s] = own \o fresh
        /\ \A w \in Seqs \ {s} : seq_blocks'[w] = seq_blocks[w]
        /\ seq_blocks' \in [Seqs -> Seq(BM!Blocks)]
    BY <2>1, <2>4, <1>1
  <2>6. Padded(own \o fresh) \in [BM!Columns -> BM!BlockIds]
    BY <2>4, PaddedRow
  <2>7. /\ page_table_host'[s] = Padded(own \o fresh)
        /\ \A w \in Seqs \ {s} : page_table_host'[w] = page_table_host[w]
        /\ page_table_host' \in [Seqs -> [BM!Columns -> BM!BlockIds]]
    BY <2>1, <2>5, <2>6 DEF TypeOK
  <2>8. /\ table'[s] = Padded(own \o fresh)
        /\ \A w \in Seqs \ {s} : table'[w] = table[w]
        /\ table' \in [Seqs -> [BM!Columns -> BM!BlockIds]]
        /\ table_revision' \in Nat
    <3>1. Len(own) <= num_blocks /\ Len(own) + Len(fresh) <= num_blocks
      BY <2>1, <2>2, <2>3, <1>1, <1>4, Geometry
    <3>2. BM!Used(table[s]) = Len(own)
      BY <3>1, <1>1, <1>5, UsedPadded
    <3>3. table' = [table EXCEPT ![s] =
                      [i \in BM!Columns |-> IF i \in Len(own) + 1 .. Len(own) + Len(fresh)
                                             THEN fresh[i - Len(own)] ELSE table[s][i]]]
      BY <2>1, <3>2 DEF BM!Attach
    <3>4. [i \in BM!Columns |-> IF i \in Len(own) + 1 .. Len(own) + Len(fresh)
                                  THEN fresh[i - Len(own)] ELSE Padded(own)[i]]
            = Padded(own \o fresh)
      BY <3>1, <2>3, <1>1, AttachPadded
    <3>5. table' = [table EXCEPT ![s] = Padded(own \o fresh)]
      BY <3>3, <3>4, <1>5
    <3> QED
      BY <3>5, <2>1, <2>6, <1>1 DEF BM!TypeOK, BM!Attach
  <2>9. BM!TypeOK'
    BY <2>1, <2>3, <2>8, <1>1 DEF BM!TypeOK
  <2>10. \A i \in 1 .. Len(own) + k :
           i \in 1 .. Len(own) \/ (i - Len(own) \in 1 .. k /\ Len(own) + (i - Len(own)) = i)
    BY <2>2, <1>1
  <2>11. ASSUME NEW b \in BM!Blocks
         PROVE  (\E i \in 1 .. Len(own) + k : (own \o fresh)[i] = b) <=>
                  (\E i \in 1 .. Len(own) : own[i] = b) \/ (\E i \in 1 .. k : fresh[i] = b)
    <3>1. \A i \in 1 .. k : Len(own) + i \in 1 .. Len(own) + k
      BY <2>2, <1>1
    <3>2. \A i \in 1 .. Len(own) : i \in 1 .. Len(own) + k
      BY <2>2, <1>1
    <3> QED
      BY <3>1, <3>2, <2>4, <2>10
  <2>12. ASSUME NEW w \in Seqs, NEW i \in DOMAIN seq_blocks[w]
         PROVE  seq_blocks[w][i] \in BM!Blocks /\ in_use[seq_blocks[w][i]]
    BY <1>1 DEF Ownership, NoBlockLost, Owns
  <2>13. \A i \in 1 .. k : fresh[i] \in BM!Blocks
    BY <2>3
  <2>14. DOMAIN (own \o fresh) = 1 .. Len(own) + k
    BY <2>4
  <2>15. ExclusiveOwnership'
    <3>1. SUFFICES ASSUME NEW q \in Seqs, NEW w \in Seqs, NEW i \in DOMAIN seq_blocks'[q],
                          NEW j \in DOMAIN seq_blocks'[w],
                          seq_blocks'[q][i] = seq_blocks'[w][j]
                   PROVE  q = w /\ i = j
      BY DEF ExclusiveOwnership
    <3>2. \A a, b \in Seqs : \A x \in DOMAIN seq_blocks[a], y \in DOMAIN seq_blocks[b] :
            seq_blocks[a][x] = seq_blocks[b][y] => a = b /\ x = y
      BY DEF Ownership, ExclusiveOwnership
    <3>3. \A a \in Seqs : \A x \in DOMAIN seq_blocks'[a] :
            \/ /\ x \in DOMAIN seq_blocks[a]
               /\ seq_blocks'[a][x] = seq_blocks[a][x]
            \/ /\ a = s /\ x - Len(own) \in 1 .. k /\ Len(own) + (x - Len(own)) = x
               /\ seq_blocks'[a][x] = fresh[x - Len(own)]
      BY <2>4, <2>5, <2>10, <2>14, <1>1
    <3>4. ASSUME NEW a \in Seqs, NEW x \in DOMAIN seq_blocks[a], NEW y \in 1 .. k
          PROVE  seq_blocks[a][x] # fresh[y]
      <4>1. in_use[seq_blocks[a][x]] /\ ~in_use[fresh[y]]
        BY <2>3, <2>12
      <4> QED
        BY <4>1
    <3>5. CASE i \in DOMAIN seq_blocks[q] /\ seq_blocks'[q][i] = seq_blocks[q][i]
      <4>1. CASE j \in DOMAIN seq_blocks[w] /\ seq_blocks'[w][j] = seq_blocks[w][j]
        <5>1. seq_blocks[q][i] = seq_blocks[w][j]
          BY <4>1, <3>1, <3>5
        <5> QED
          BY <5>1, <4>1, <3>2, <3>5
      <4>2. CASE /\ w = s /\ j - Len(own) \in 1 .. k
                 /\ seq_blocks'[w][j] = fresh[j - Len(own)]
        BY <4>2, <3>1, <3>4, <3>5
      <4> QED
        BY <4>1, <4>2, <3>3
    <3>6. CASE /\ q = s /\ i - Len(own) \in 1 .. k /\ Len(own) + (i - Len(own)) = i
               /\ seq_blocks'[q][i] = fresh[i - Len(own)]
      <4>1. CASE j \in DOMAIN seq_blocks[w] /\ seq_blocks'[w][j] = seq_blocks[w][j]
        BY <4>1, <3>1, <3>4, <3>6
      <4>2. CASE /\ w = s /\ j - Len(own) \in 1 .. k /\ Len(own) + (j - Len(own)) = j
                 /\ seq_blocks'[w][j] = fresh[j - Len(own)]
        <5>1. i - Len(own) = j - Len(own)
          BY <4>2, <3>1, <3>6, <2>3
        <5> QED
          BY <5>1, <4>2, <3>6
      <4> QED
        BY <4>1, <4>2, <3>3
    <3> QED
      BY <3>3, <3>5, <3>6
  <2>16. NoBlockLost'
    <3>1. ASSUME NEW b \in BM!Blocks
          PROVE  (\E w \in Seqs : Owns(w, b))' <=>
                   (\E w \in Seqs : Owns(w, b)) \/ \E i \in 1 .. k : fresh[i] = b
      <4>1. Owns(s, b)' <=> Owns(s, b) \/ \E i \in 1 .. k : fresh[i] = b
        BY <2>5, <2>11, <2>14, <1>1 DEF Owns
      <4>2. \A w \in Seqs \ {s} : Owns(w, b)' <=> Owns(w, b)
        BY <2>5 DEF Owns
      <4> QED
        BY <4>1, <4>2
    <3>2. \A b \in BM!Blocks : in_use[b] <=> \E w \in Seqs : Owns(w, b)
      BY DEF Ownership, NoBlockLost
    <3>3. \A b \in BM!Blocks : in_use'[b] <=> (\E w \in Seqs : Owns(w, b))'
      BY <3>1, <3>2, <2>3
    <3> QED
      BY <3>3, Geometry DEF NoBlockLost, BM!Blocks
  <2>17. RowsAgree'
    <3>1. ASSUME NEW w \in Seqs
          PROVE  table'[w] = Padded(seq_blocks'[w]) /\ page_table_host'[w] = Padded(seq_blocks'[w])
      <4>1. table[w] = Padded(seq_blocks[w]) /\ page_table_host[w] = Padded(seq_blocks[w])
        BY DEF Ownership, RowsAgree
      <4> QED
        BY <4>1, <2>5, <2>7, <2>8
    <3> QED
      BY <3>1 DEF RowsAgree
  <2>18. Ownership'
    BY <2>1, <2>3, <2>15, <2>16, <2>17 DEF Ownership, NoDoubleFree
  <2>19. seq_lengths[s] + n <= Len(seq_blocks'[s]) * block_size
    <3>1. Len(own) + k = CeilDiv(seq_lengths[s] + n, block_size)
      BY <1>1, <1>2, <1>3
    <3> QED
      BY <3>1, <2>4, <2>5, <1>2
  <2>20. /\ Len(own) <= Len(seq_blocks'[s]) /\ Len(seq_blocks'[s]) <= num_blocks
         /\ (IF k > 0 THEN k ELSE 0) = k
         /\ Len(seq_blocks'[s]) = Len(own) + k
    BY <2>1, <2>2, <2>4, <2>5, <1>1, <1>4, <1>8, Geometry, SMTT(40)
  <2>21. \A i \in 1 .. Len(own) : seq_blocks'[s][i] = own[i]
    BY <2>4, <2>5
  <2> QED
    BY <2>1, <2>2, <2>3, <2>5, <2>7, <2>9, <2>18, <2>19, <2>20, <2>21 DEF k
<1> QED
  BY <1>3, <1>7, <1>8

\* A padded empty list is an empty row.
LEMMA PaddedEmpty == Padded(<<>>) = BM!EmptyRow
<1>1. \A i \in BM!Columns : ~(i <= Len(<<>>))
  BY Geometry
<1> QED
  BY <1>1 DEF Padded, BM!EmptyRow

\* The host half of ResetSeq: exactly the blocks of s go back to the pool, none is
\* counted as a double free, and the three copies of the list are empty.
LEMMA DropStep ==
  ASSUME TypeOK, Ownership, NEW s \in Seqs, DropSequence(s)
  PROVE  /\ BM!TypeOK' /\ Ownership'
         /\ seq_blocks' \in [Seqs -> Seq(BM!Blocks)]
         /\ page_table_host' \in [Seqs -> [BM!Columns -> BM!BlockIds]]
         /\ seq_blocks'[s] = <<>>
         /\ \A w \in Seqs \ {s} : seq_blocks'[w] = seq_blocks[w]
         /\ Len(free_list') = Len(free_list) + Len(seq_blocks[s])
<1> DEFINE own == seq_blocks[s]
<1>1. /\ own \in Seq(BM!Blocks) /\ Len(own) \in Nat /\ DOMAIN own = 1 .. Len(own)
      /\ BM!TypeOK /\ seq_blocks \in [Seqs -> Seq(BM!Blocks)]
  BY DEF TypeOK
<1>2. Len(own) <= num_blocks
  BY OwnedAndFree, Geometry
<1>3. table[s] = Padded(own)
  BY DEF Ownership, RowsAgree
<1>4. BM!Release(own)
  <2>1. BM!Release([i \in 1 .. BM!Mapped(table[s]) |-> table[s][i]])
    BY DEF DropSequence, BM!ResetSeq
  <2>2. [i \in 1 .. BM!Mapped(table[s]) |-> table[s][i]] = own
    BY <1>1, <1>2, <1>3, MappedPadded
  <2> QED
    BY <2>1, <2>2
<1>5. /\ \A i \in 1 .. Len(own) : in_use[own[i]]
      /\ \A i, j \in 1 .. Len(own) : own[i] = own[j] => i = j
      /\ BM!PoolIntegrity
  <2>1. \A i \in 1 .. Len(own) : in_use[own[i]]
    BY <1>1 DEF Ownership, NoBlockLost, Owns
  <2>2. \A i, j \in 1 .. Len(own) : own[i] = own[j] => i = j
    BY <1>1 DEF Ownership, ExclusiveOwnership
  <2> QED
    BY <2>1, <2>2 DEF Ownership
<1>6. /\ free_list' \in Seq(BM!Blocks) /\ Len(free_list') = Len(free_list) + Len(own)
      /\ in_use' \in [BM!Blocks -> BOOLEAN]
      /\ BM!PoolIntegrity'
      /\ double_free_events' = double_free_events
      /\ \A b \in BM!Blocks : in_use'[b] <=> in_use[b] /\ \A i \in 1 .. Len(own) : own[i] # b
  <2> HIDE DEF own
  <2> QED
    BY <1>1, <1>4, <1>5, PoolRelease
<1>7. /\ seq_blocks' = [seq_blocks EXCEPT ![s] = <<>>]
      /\ page_table_host' = [page_table_host EXCEPT ![s] = BM!EmptyRow]
      /\ table' = [table EXCEPT ![s] = BM!EmptyRow]
      /\ table_revision' = table_revision + 1
      /\ UNCHANGED <<table_synced, table_device, allocation_failures>>
  BY DEF DropSequence, BM!ResetSeq, BM!mirror
<1>8. BM!EmptyRow \in [BM!Columns -> BM!BlockIds]
  BY Geometry DEF BM!EmptyRow
<1>9. /\ seq_blocks' \in [Seqs -> Seq(BM!Blocks)] /\ seq_blocks'[s] = <<>>
      /\ \A w \in Seqs \ {s} : seq_blocks'[w] = seq_blocks[w]
      /\ page_table_host' \in [Seqs -> [BM!Columns -> BM!BlockIds]]
      /\ table' \in [Seqs -> [BM!Columns -> BM!BlockIds]]
  BY <1>1, <1>7, <1>8 DEF TypeOK, BM!TypeOK
<1>10. BM!TypeOK'
  BY <1>1, <1>6, <1>7, <1>9 DEF BM!TypeOK
<1>11. ExclusiveOwnership'
  <2>1. \A w \in Seqs : \A i \in DOMAIN seq_blocks'[w] :
          i \in DOMAIN seq_blocks[w] /\ seq_blocks'[w][i] = seq_blocks[w][i]
    BY <1>9
  <2> QED
    BY <2>1 DEF Ownership, ExclusiveOwnership
<1>12. NoBlockLost'
  <2>1. ASSUME NEW b \in BM!Blocks
        PROVE  in_use'[b] <=> (\E w \in Seqs : Owns(w, b))'
    <3>1. ~Owns(s, b)'
      BY <1>9 DEF Owns
    <3>2. \A w \in Seqs \ {s} : Owns(w, b)' <=> Owns(w, b)
      BY <1>9 DEF Owns
    <3>3. Owns(s, b) <=> \E i \in 1 .. Len(own) : own[i] = b
      BY <1>1 DEF Owns
    <3>4. \A w \in Seqs \ {s} : Owns(s, b) => ~Owns(w, b)
      BY DEF Ownership, ExclusiveOwnership, Owns
    <3>5. in_use[b] <=> \E w \in Seqs : Owns(w, b)
      BY DEF Ownership, NoBlockLost
    <3> QED
      BY <3>1, <3>2, <3>3, <3>4, <3>5, <1>6
  <2> QED
    BY <2>1, Geometry DEF NoBlockLost, BM!Blocks
<1>13. RowsAgree'
  <2>1. ASSUME NEW w \in Seqs
        PROVE  table'[w] = Padded(seq_blocks'[w]) /\ page_table_host'[w] = Padded(seq_blocks'[w])
    <3>1. table[w] = Padded(seq_blocks[w]) /\ page_table_host[w] = Padded(seq_blocks[w])
      BY DEF Ownership, RowsAgree
    <3> QED
      BY <3>1, <1>1, <1>7, PaddedEmpty DEF TypeOK, BM!TypeOK
  <2> QED
    BY <2>1 DEF RowsAgree
<1>14. Ownership'
  BY <1>6, <1>11, <1>12, <1>13 DEF Ownership, NoDoubleFree
<1> QED
  BY <1>6, <1>9, <1>10, <1>14

-----------------------------------------------------------------------------
\* The slot of a covered position lies in the owned block of that position.
LEMMA SlotOfOwned ==
  ASSUME NEW owned \in Seq(BM!Blocks), Len(owned) <= num_blocks,
         NEW x \in Nat, x < Len(owned) * block_size
  PROVE  /\ x \div block_size + 1 \in DOMAIN owned
         /\ owned[x \div block_size + 1] \in BM!Blocks
         /\ x % block_size \in 0 .. block_size - 1
         /\ SlotOf(Padded(owned), x)
              = owned[x \div block_size + 1] * block_size + (x % block_size)
         /\ SlotOf(Padded(owned), x) \in Slots
         /\ SlotOf(Padded(owned), x) \div block_size = owned[x \div block_size + 1]
<1>1. Len(owned) \in Nat /\ DOMAIN owned = 1 .. Len(owned)
  OBVIOUS
<1>2. x \div block_size + 1 \in 1 .. Len(owned) /\ x % block_size \in 0 .. block_size - 1
  BY <1>1, BlockOfPosition
<1>3. PICK c \in 1 .. Len(owned), w \in 0 .. block_size - 1 :
        c = x \div block_size + 1 /\ w = x % block_size
  BY <1>2
<1>4. c \in BM!Columns /\ c <= Len(owned)
  BY <1>1, <1>3, Geometry
<1>5. Padded(owned)[c] = owned[c] /\ owned[c] \in BM!Blocks
  BY <1>4, PaddedRow
<1>6. SlotOf(Padded(owned), x) = owned[c] * block_size + w
  BY <1>3, <1>5 DEF SlotOf
<1>7. owned[c] * block_size + w \in Slots /\ (owned[c] * block_size + w) \div block_size = owned[c]
  BY <1>5, SlotInBlock
<1> QED
  BY <1>1, <1>3, <1>5, <1>6, <1>7

\* kv_append_kernel writes tokens of s, and only into blocks that s owns.
LEMMA KvAppendStep ==
  ASSUME TypeOK, NEW s \in Seqs, NEW layer \in Layers, NEW toks \in Batches(s),
         seq_blocks'[s] \in Seq(BM!Blocks), Len(seq_blocks'[s]) <= num_blocks,
         page_table_host'[s] = Padded(seq_blocks'[s]),
         seq_lengths[s] + Len(toks) <= Len(seq_blocks'[s]) * block_size,
         KvAppend(layer, UploadedSlots(s, Len(toks)), toks)
  PROVE  /\ kv' \in [Layers -> [Slots -> Tokens \union {Blank}]]
         /\ \A l \in Layers, x \in Slots :
              \/ kv'[l][x] = kv[l][x]
              \/ kv'[l][x] \in {s} \X Vals /\ Owns(s, x \div block_size)'
<1> DEFINE n == Len(toks)
           own == seq_blocks'[s]
           slots == UploadedSlots(s, n)
           writer(x) == CHOOSE t \in DOMAIN slots : slots[t] = x
<1>1. n \in Nat /\ toks \in [1 .. n -> {s} \X Vals]
  BY FcnIsSeq, CacheBoundAssumption DEF Batches
<1>2. slots = [t \in 1 .. n |-> SlotOf(Padded(own), seq_lengths[s] + t - 1)]
  BY DEF UploadedSlots, ComputeSlotMapping
<1>3. ASSUME NEW t \in 1 .. n
      PROVE  slots[t] \in Slots /\ \E i \in DOMAIN own : own[i] = slots[t] \div block_size
  <2>1. seq_lengths[s] \in Nat /\ Len(own) * block_size \in Nat
    BY Geometry DEF TypeOK
  <2>2. seq_lengths[s] + t - 1 \in Nat /\ seq_lengths[s] + t - 1 < Len(own) * block_size
    BY <2>1, <1>1
  <2>3. PICK x \in Nat : x = seq_lengths[s] + t - 1
    BY <2>2
  <2>4. slots[t] = SlotOf(Padded(own), x)
    BY <1>2, <2>3
  <2>5. /\ x \div block_size + 1 \in DOMAIN own
        /\ SlotOf(Padded(own), x) \in Slots
        /\ SlotOf(Padded(own), x) \div block_size = own[x \div block_size + 1]
    BY <2>2, <2>3, SlotOfOwned
  <2> QED
    BY <2>4, <2>5
<1>4. DOMAIN slots = 1 .. n
  BY <1>2
<1> HIDE DEF slots, n
<1>5. ASSUME NEW x \in Slots, \E t \in DOMAIN slots : slots[t] = x
      PROVE  toks[writer(x)] \in {s} \X Vals /\ Owns(s, x \div block_size)'
  <2>1. writer(x) \in 1 .. n /\ slots[writer(x)] = x
    BY <1>4, <1>5
  <2>2. Owns(s, x \div block_size)'
    <3>1. \E i \in DOMAIN own : own[i] = x \div block_size
      BY <2>1, <1>3
    <3> QED
      BY <3>1 DEF Owns
  <2> QED
    BY <2>1, <2>2, <1>1
<1>6. kv' = [kv EXCEPT ![layer] =
               [x \in Slots |-> IF \E t \in DOMAIN slots : slots[t] = x
                                  THEN toks[writer(x)] ELSE kv[layer][x]]]
  BY DEF KvAppend, slots, n
<1> DEFINE new == [x \in Slots |-> IF \E t \in DOMAIN slots : slots[t] = x
                                     THEN toks[writer(x)] ELSE kv[layer][x]]
<1>7. kv \in [Layers -> [Slots -> Tokens \union {Blank}]]
  BY DEF TypeOK
<1> HIDE DEF writer
<1>8. \A x \in Slots : \/ new[x] = kv[layer][x]
                       \/ new[x] \in {s} \X Vals /\ Owns(s, x \div block_size)'
  BY <1>5
<1>9. new \in [Slots -> Tokens \union {Blank}]
  <2>1. \A x \in Slots : new[x] \in Tokens \union {Blank}
    BY <1>7, <1>8 DEF Tokens
  <2> QED
    BY <2>1
<1> HIDE DEF new
<1>10. kv' = [kv EXCEPT ![layer] = new]
  BY <1>6 DEF new
<1> QED
  BY <1>7, <1>8, <1>9, <1>10

\* kv_reset_kernel only blanks slots, and blanks every slot of the listed blocks.
LEMMA KvResetStep ==
  ASSUME TypeOK, NEW ls \in SUBSET Layers, NEW ids \in Seq(BM!Blocks), KvResetBlock(ls, ids)
  PROVE  /\ kv' \in [Layers -> [Slots -> Tokens \union {Blank}]]
         /\ \A l \in Layers, x \in Slots : kv'[l][x] \in {kv[l][x], Blank}
         /\ \A l \in ls, x \in Slots :
              (\E i \in DOMAIN ids : ids[i] = x \div block_size) => kv'[l][x] = Blank
<1>1. kv \in [Layers -> [Slots -> Tokens \union {Blank}]]
  BY DEF TypeOK
<1>2. ASSUME NEW l \in Layers
      PROVE  kv'[l] = IF l \in ls
                        THEN [x \in Slots |-> IF \E i \in DOMAIN ids : ids[i] = x \div block_size
                                                THEN Blank ELSE kv[l][x]]
                        ELSE kv[l]
  BY DEF KvResetBlock
<1>3. ASSUME NEW l \in Layers
      PROVE  kv'[l] \in [Slots -> Tokens \union {Blank}]
  BY <1>1, <1>2, ZenonT(40)
<1>4. kv' = [l \in Layers |-> kv'[l]]
  BY DEF KvResetBlock
<1> QED
  BY <1>1, <1>2, <1>3, <1>4

\* An overtaken reset blanks slots of its layers, whichever they are, and is recorded.
LEMMA KvResetLateStep ==
  ASSUME TypeOK, NEW ls \in SUBSET Layers, NEW s \in Seqs, KvResetLate(ls, s)
  PROVE  /\ kv' \in [Layers -> [Slots -> Tokens \union {Blank}]]
         /\ \A l \in Layers, x \in Slots : kv'[l][x] \in {kv[l][x], Blank}
         /\ \A l \in Layers \ ls : kv'[l] = kv[l]
         /\ late' \subseteq Overtaken /\ late \subseteq late' /\ late' # {}
<1>1. kv \in [Layers -> [Slots -> Tokens \union {Blank}]] /\ late \subseteq Overtaken
      /\ seq_blocks[s] \in Seq(BM!Blocks)
  BY DEF TypeOK
<1>2. PICK cleared \in [ls -> LateClears \union {SlotsOf(seq_blocks[s])}] :
        /\ kv' = [l \in Layers |->
                    IF l \in ls
                      THEN [x \in Slots |-> IF x \in cleared[l] THEN Blank ELSE kv[l][x]]
                      ELSE kv[l]]
        /\ late' = late \union {[seq |-> s, ids |-> seq_blocks[s], cleared |-> cleared]}
  BY DEF KvResetLate
<1>3. [seq |-> s, ids |-> seq_blocks[s], cleared |-> cleared] \in Overtaken
  <2>1. LateClears \union {SlotsOf(seq_blocks[s])} \subseteq SUBSET Slots
    BY LateAssumption DEF SlotsOf
  <2>2. cleared \in [ls -> SUBSET Slots]
    BY <2>1
  <2>3. cleared \in UNION {[w -> SUBSET Slots] : w \in SUBSET Layers}
    BY <2>2
  <2> QED
    BY <2>3, <1>1 DEF Overtaken
<1>4. ASSUME NEW l \in Layers
      PROVE  /\ kv'[l] \in [Slots -> Tokens \union {Blank}]
             /\ \A x \in Slots : kv'[l][x] \in {kv[l][x], Blank}
             /\ l \notin ls => kv'[l] = kv[l]
  <2>1. CASE l \notin ls
    BY <2>1, <1>1, <1>2
  <2>2. CASE l \in ls
    <3>1. kv'[l] = [x \in Slots |-> IF x \in cleared[l] THEN Blank ELSE kv[l][x]]
      BY <2>2, <1>2
    <3> QED
      BY <3>1, <2>2, <1>1
  <2> QED
    BY <2>1, <2>2
<1>5. kv' = [l \in Layers |-> kv'[l]]
  BY <1>2
<1> QED
  BY <1>1, <1>2, <1>3, <1>4, <1>5

-----------------------------------------------------------------------------
\* After a reservation every sequence owns at least what it owned.
LEMMA OwnsGrows ==
  ASSUME TypeOK, Ownership, NEW s \in Seqs, NEW n \in Nat, Reserve(s, n),
         NEW w \in Seqs, NEW b, Owns(w, b)
  PROVE  Owns(w, b)'
<1>1. PICK i \in DOMAIN seq_blocks[w] : seq_blocks[w][i] = b
  BY DEF Owns
<1>2. CASE w # s
  BY <1>1, <1>2, ReserveStep DEF Owns
<1>3. CASE w = s
  <2>1. /\ seq_blocks[s] \in Seq(BM!Blocks)
        /\ seq_blocks'[s] \in Seq(BM!Blocks) /\ Len(seq_blocks[s]) <= Len(seq_blocks'[s])
        /\ \A j \in 1 .. Len(seq_blocks[s]) : seq_blocks'[s][j] = seq_blocks[s][j]
    BY ReserveStep DEF TypeOK
  <2>2. i \in DOMAIN seq_blocks'[s] /\ seq_blocks'[s][i] = b
    BY <2>1, <1>1, <1>3
  <2> QED
    BY <2>2, <1>3 DEF Owns
<1> QED
  BY <1>2, <1>3

\* Whatever an append does after its reservation, it writes only tokens of s into blocks
\* of s, so no token ends up in a foreign block.
LEMMA AppendNoCrossTalk ==
  ASSUME TypeOK, Ownership, NoCrossTalk, NEW s \in Seqs, NEW n \in Nat, Reserve(s, n),
         KernelRuns' => KernelRuns, UNCHANGED late,
         \A l \in Layers, x \in Slots :
           \/ kv'[l][x] = kv[l][x]
           \/ kv'[l][x] \in {s} \X Vals /\ Owns(s, x \div block_size)'
  PROVE  NoCrossTalk'
<1> SUFFICES ASSUME KernelRuns', late' = {}, NEW l \in Layers, NEW x \in Slots, kv'[l][x] # Blank
             PROVE  (Owns(kv[l][x][1], x \div block_size))'
  BY DEF NoCrossTalk
<1>1. CASE kv'[l][x] \in {s} \X Vals /\ Owns(s, x \div block_size)'
  <2>1. kv'[l][x][1] = s
    BY <1>1
  <2> QED
    BY <2>1, <1>1 DEF Owns
<1>2. CASE kv'[l][x] = kv[l][x]
  <2>1. Owns(kv[l][x][1], x \div block_size)
    BY <1>2 DEF NoCrossTalk
  <2>2. kv[l][x][1] \in Seqs
    BY <1>2 DEF TypeOK, Tokens
  <2>3. PICK w \in Seqs : w = kv[l][x][1]
    BY <2>2
  <2>4. Owns(w, x \div block_size)'
    BY <2>1, <2>3, OwnsGrows
  <2> QED
    BY <2>3, <2>4, <1>2 DEF Owns
<1> QED
  BY <1>1, <1>2

\* An append that fails after its reservation: the host rows grow without a new
\* revision, and the device rows stay a prefix of them.
LEMMA FailedAppendKeeps ==
  ASSUME IInv, NEW s \in Seqs, NEW n \in Nat, Reserve(s, n),
         UNCHANGED <<seq_lengths, revision, synced_revision, page_table_device>>,
         KernelRuns' => KernelRuns
  PROVE  LengthCovered' /\ SyncBehind' /\ DevicePageTableFresh'
<1>1. /\ seq_blocks \in [Seqs -> Seq(BM!Blocks)] /\ seq_blocks' \in [Seqs -> Seq(BM!Blocks)]
      /\ Len(seq_blocks[s]) <= Len(seq_blocks'[s])
      /\ \A w \in Seqs \ {s} : seq_blocks'[w] = seq_blocks[w]
      /\ \A i \in 1 .. Len(seq_blocks[s]) : seq_blocks'[s][i] = seq_blocks[s][i]
      /\ Ownership' /\ TypeOK /\ Ownership
  BY ReserveStep DEF IInv, TypeOK
<1>2. ASSUME NEW w \in Seqs
      PROVE  /\ Len(seq_blocks[w]) \in Nat /\ Len(seq_blocks'[w]) \in Nat
             /\ Len(seq_blocks[w]) <= Len(seq_blocks'[w])
             /\ \A i \in 1 .. Len(seq_blocks[w]) : seq_blocks'[w][i] = seq_blocks[w][i]
             /\ seq_lengths[w] \in Nat
             /\ seq_lengths[w] <= Len(seq_blocks[w]) * block_size
  <2>1. /\ Len(seq_blocks[w]) \in Nat /\ Len(seq_blocks'[w]) \in Nat
    BY <1>1
  <2>2. /\ Len(seq_blocks[w]) <= Len(seq_blocks'[w])
        /\ \A i \in 1 .. Len(seq_blocks[w]) : seq_blocks'[w][i] = seq_blocks[w][i]
    <3>1. CASE w = s
      BY <3>1, <1>1
    <3>2. CASE w # s
      BY <3>2, <2>1, <1>1
    <3> QED
      BY <3>1, <3>2
  <2>3. seq_lengths[w] \in Nat /\ seq_lengths[w] <= Len(seq_blocks[w]) * block_size
    BY DEF IInv, TypeOK, LengthCovered
  <2> QED
    BY <2>1, <2>2, <2>3
<1>3. LengthCovered'
  <2>1. ASSUME NEW w \in Seqs
        PROVE  seq_lengths[w] <= Len(seq_blocks'[w]) * block_size
    <3>1. PICK a \in Nat, b \in Nat : a = Len(seq_blocks[w]) /\ b = Len(seq_blocks'[w])
      BY <1>2
    <3>2. a <= b /\ seq_lengths[w] <= a * block_size /\ seq_lengths[w] \in Nat
      BY <3>1, <1>2
    <3>3. a * block_size \in Nat /\ b * block_size \in Nat /\ a * block_size <= b * block_size
      <4>1. block_size \in Nat
        BY Geometry
      <4>2. a <= b
        BY <3>2
      <4> QED
        BY <4>1, <4>2
    <3> QED
      BY <3>1, <3>2, <3>3
  <2> QED
    BY <2>1 DEF LengthCovered
<1>4. DevicePageTableFresh'
  <2> SUFFICES ASSUME synced_revision = revision, KernelRuns, NEW w \in Seqs, NEW i \in BM!Columns
               PROVE  /\ i <= CeilDiv(seq_lengths[w], block_size) =>
                           page_table_device[w][i] = seq_blocks'[w][i]
                      /\ page_table_device[w][i] # BM!Empty =>
                           page_table_device[w][i] = page_table_host'[w][i]
    BY Geometry DEF DevicePageTableFresh, CeilDiv, BM!Columns, BM!Empty
  <2>1. /\ i <= CeilDiv(seq_lengths[w], block_size) =>
             page_table_device[w][i] = seq_blocks[w][i]
        /\ page_table_device[w][i] # BM!Empty =>
             page_table_device[w][i] = page_table_host[w][i]
    BY DEF IInv, DevicePageTableFresh
  <2>2. CeilDiv(seq_lengths[w], block_size) \in Nat
        /\ CeilDiv(seq_lengths[w], block_size) <= Len(seq_blocks[w])
    BY <1>2, CeilDivFacts
  <2>3. i \in Nat \ {0}
    BY Geometry
  <2>4. ASSUME i <= Len(seq_blocks[w])
        PROVE  /\ seq_blocks'[w][i] = seq_blocks[w][i]
               /\ page_table_host'[w][i] = seq_blocks[w][i]
               /\ page_table_host[w][i] = seq_blocks[w][i]
    <3>1. i \in 1 .. Len(seq_blocks[w]) /\ i <= Len(seq_blocks'[w])
      BY <2>3, <2>4, <1>2
    <3>2. page_table_host[w] = Padded(seq_blocks[w]) /\ page_table_host'[w] = Padded(seq_blocks'[w])
      BY <1>1 DEF Ownership, RowsAgree
    <3>3. seq_blocks'[w][i] = seq_blocks[w][i]
      BY <3>1, <1>2
    <3>4. seq_blocks[w] \in Seq(BM!Blocks) /\ seq_blocks'[w] \in Seq(BM!Blocks)
      BY <1>1
    <3>5. Padded(seq_blocks[w])[i] = seq_blocks[w][i] /\ Padded(seq_blocks'[w])[i] = seq_blocks'[w][i]
      BY <3>1, <3>4, <2>4, PaddedRow
    <3> QED
      BY <3>2, <3>3, <3>5
  <2>5. ASSUME i > Len(seq_blocks[w])
        PROVE  page_table_host[w][i] = BM!Empty
    <3>1. page_table_host[w] = Padded(seq_blocks[w]) /\ seq_blocks[w] \in Seq(BM!Blocks)
      BY <1>1 DEF Ownership, RowsAgree
    <3> QED
      BY <3>1, <2>5, PaddedRow
  <2> QED
    BY <2>1, <2>2, <2>3, <2>4, <2>5, <1>2
<1>5. SyncBehind'
  BY DEF IInv, SyncBehind
<1> QED
  BY <1>3, <1>4, <1>5

\* What the outcomes of a call may leave in the CUDA runtime's error state.
LEMMA ErrorStates ==
  ASSUME TypeOK, \/ LaunchRaw
                 \/ cuda_error' \in MaybeStale(TRUE)
                 \/ cuda_error' \in MaybeStale(~slot_mapping_device')
                 \/ UNCHANGED cuda_error
  PROVE  /\ cuda_error' \in {"none", "stale", "lost"}
         /\ KernelRuns' => KernelRuns
  BY DEF TypeOK, LaunchRaw, MaybeStale, KernelRuns

\* The slot buffer's type.
LEMMA BufferType ==
  ASSUME TypeOK, NEW n \in Nat, GrowBuffer(n)
  PROVE  slot_mapping_device' \in BOOLEAN /\ slot_mapping_capacity' \in Nat
  BY CacheAssumption DEF TypeOK, GrowBuffer, slotBuffer

-----------------------------------------------------------------------------
\* Create establishes the invariant.
LEMMA InitIInv == Init => IInv
<1> SUFFICES ASSUME Init
             PROVE  IInv
  OBVIOUS
<1>1. BM!TypeOK /\ BM!PoolIntegrity
  <2>1. BMP!Init
    BY DEF Init, BM!Init, BMP!Init, BM!Blocks, BMP!Blocks, BM!EmptyRow, BMP!EmptyRow,
       BM!Columns, BMP!Columns, BM!Empty, BMP!Empty
  <2>2. BMP!IInv
    BY <2>1, BMP!InitIInv, CacheAssumption, CacheBoundAssumption DEF max_blocks_per_seq
  <2>3. BMP!TypeOK /\ BMP!PoolIntegrity
    BY <2>2 DEF BMP!IInv
  <2> QED
    BY <2>3 DEF BM!TypeOK, BMP!TypeOK, BM!Blocks, BMP!Blocks, BM!Columns, BMP!Columns,
       BM!BlockIds, BMP!BlockIds, BM!Empty, BMP!Empty, BM!PoolIntegrity, BMP!PoolIntegrity,
       BM!FreeListDistinct, BMP!FreeListDistinct, BM!FreeListComplement,
       BMP!FreeListComplement
<1>2. BM!EmptyRow \in [BM!Columns -> BM!BlockIds]
  BY Geometry DEF BM!EmptyRow
<1>3. TypeOK
  <2>1. seq_lengths \in [Seqs -> Nat] /\ seq_blocks \in [Seqs -> Seq(BM!Blocks)]
    BY DEF Init
  <2>2. /\ page_table_host \in [Seqs -> [BM!Columns -> BM!BlockIds]]
        /\ page_table_device \in [Seqs -> [BM!Columns -> BM!BlockIds]]
    BY <1>2 DEF Init
  <2>3. kv \in [Layers -> [Slots -> Tokens \union {Blank}]]
    BY DEF Init
  <2>4. /\ revision \in Nat /\ synced_revision \in Nat
        /\ num_appends \in Nat /\ num_resets \in Nat
        /\ slot_mapping_device \in BOOLEAN /\ slot_mapping_capacity \in Nat
        /\ cuda_error \in {"none", "stale", "lost"} /\ late \subseteq Overtaken
    BY DEF Init
  <2> QED
    BY <2>1, <2>2, <2>3, <2>4, <1>1, Zenon DEF TypeOK
<1>4. \A s \in Seqs : seq_blocks[s] = <<>> /\ seq_lengths[s] = 0
  BY DEF Init
<1>5. Ownership
  <2>1. ExclusiveOwnership /\ NoBlockLost /\ NoDoubleFree
    BY <1>4 DEF Init, BM!Init, ExclusiveOwnership, NoBlockLost, NoDoubleFree, Owns
  <2>2. RowsAgree
    BY <1>4, PaddedEmpty DEF Init, BM!Init, RowsAgree
  <2> QED
    BY <2>1, <2>2, <1>1 DEF Ownership
<1>6. LengthCovered
  BY <1>4, Geometry DEF LengthCovered
<1>7. DevicePageTableFresh
  <2>1. CeilDiv(0, block_size) <= 0 /\ CeilDiv(0, block_size) \in Nat
    BY CeilDivFacts, Geometry
  <2> QED
    BY <2>1, <1>4, Geometry DEF Init, DevicePageTableFresh, BM!EmptyRow
<1>8. SyncBehind /\ NoCrossTalk
  BY DEF Init, SyncBehind, NoCrossTalk
<1> QED
  BY <1>3, <1>5, <1>6, <1>7, <1>8 DEF IInv

\* An append that the pool refuses changes the failure counter only.
LEMMA RefusedIInv ==
  ASSUME IInv, NEW s \in Seqs, NEW n \in 1 .. MaxAppend, AppendTokensRefused(s, n)
  PROVE  IInv'
<1>1. /\ allocation_failures' \in Nat
      /\ UNCHANGED <<free_list, in_use, table, table_revision, table_synced, table_device,
                     double_free_events, seq_lengths, seq_blocks, page_table_host, revision,
                     synced_revision, num_appends, num_resets, page_table_device,
                     slot_mapping_device, slot_mapping_capacity, kv, late, cuda_error>>
  BY DEF IInv, TypeOK, BM!TypeOK, AppendTokensRefused, BM!AllocationFails, BM!pool, counters,
     pageTable, slotBuffer
<1>2. TypeOK'
  BY <1>1 DEF IInv, TypeOK, BM!TypeOK
<1>3. Ownership'
  BY <1>1 DEF IInv, Ownership, BM!PoolIntegrity, BM!FreeListDistinct, BM!FreeListComplement,
     ExclusiveOwnership, NoBlockLost, RowsAgree, NoDoubleFree, Owns, Padded
<1>4. LengthCovered' /\ SyncBehind' /\ DevicePageTableFresh' /\ NoCrossTalk'
  BY <1>1 DEF IInv, LengthCovered, SyncBehind, DevicePageTableFresh, NoCrossTalk, Owns,
     KernelRuns, CeilDiv
<1> QED
  BY <1>2, <1>3, <1>4 DEF IInv

\* The three ways in which an append fails after its reservation.
LEMMA FailedAppendIInv ==
  ASSUME IInv, NEW s \in Seqs, NEW n \in Nat, Reserve(s, n),
         UNCHANGED <<seq_lengths, revision, num_appends, num_resets, synced_revision,
                     page_table_device, late>>,
         slot_mapping_device' \in BOOLEAN, slot_mapping_capacity' \in Nat,
         cuda_error' \in {"none", "stale", "lost"}, KernelRuns' => KernelRuns,
         kv' \in [Layers -> [Slots -> Tokens \union {Blank}]],
         \A l \in Layers, x \in Slots :
           \/ kv'[l][x] = kv[l][x]
           \/ kv'[l][x] \in {s} \X Vals /\ Owns(s, x \div block_size)'
  PROVE  IInv'
<1>1. TypeOK /\ Ownership /\ NoCrossTalk
  BY DEF IInv
<1>2. /\ BM!TypeOK' /\ Ownership'
      /\ seq_blocks' \in [Seqs -> Seq(BM!Blocks)]
      /\ page_table_host' \in [Seqs -> [BM!Columns -> BM!BlockIds]]
  BY <1>1, ReserveStep
<1>3. TypeOK'
  BY <1>1, <1>2 DEF TypeOK
<1>4. LengthCovered' /\ SyncBehind' /\ DevicePageTableFresh'
  BY FailedAppendKeeps
<1>5. NoCrossTalk'
  BY <1>1, AppendNoCrossTalk
<1> QED
  BY <1>2, <1>3, <1>4, <1>5 DEF IInv

\* No room for the slot buffer: the reservation stays, nothing is written.
LEMMA NoBufferIInv ==
  ASSUME IInv, NEW s \in Seqs, NEW n \in 1 .. MaxAppend, AppendTokensNoBuffer(s, n)
  PROVE  IInv'
<1>1. n \in Nat /\ TypeOK
  BY CacheBoundAssumption DEF IInv
<1>2. /\ Reserve(s, n)
      /\ UNCHANGED <<seq_lengths, revision, num_appends, num_resets, synced_revision,
                     page_table_device, kv, late, slot_mapping_capacity>>
      /\ slot_mapping_device' = FALSE /\ cuda_error' \in MaybeStale(TRUE)
  BY DEF AppendTokensNoBuffer, counters, pageTable
<1>3. cuda_error' \in {"none", "stale", "lost"} /\ (KernelRuns' => KernelRuns)
  BY <1>1, <1>2, ErrorStates
<1>4. /\ slot_mapping_capacity' \in Nat /\ kv' \in [Layers -> [Slots -> Tokens \union {Blank}]]
  BY <1>1, <1>2 DEF TypeOK
<1> QED
  BY <1>1, <1>2, <1>3, <1>4, FailedAppendIInv

\* KVCache::Append refuses the tensors: the reservation stays, nothing is written.
LEMMA RejectedIInv ==
  ASSUME IInv, NEW s \in Seqs, NEW n \in 1 .. MaxAppend, AppendTokensRejected(s, n)
  PROVE  IInv'
<1>1. n \in Nat /\ TypeOK
  BY CacheBoundAssumption DEF IInv
<1>2. /\ Reserve(s, n) /\ GrowBuffer(n)
      /\ UNCHANGED <<seq_lengths, revision, num_appends, num_resets, synced_revision,
                     page_table_device, kv, late>>
      /\ cuda_error' \in MaybeStale(~slot_mapping_device')
  BY DEF AppendTokensRejected, counters, pageTable
<1>3. cuda_error' \in {"none", "stale", "lost"} /\ (KernelRuns' => KernelRuns)
  BY <1>1, <1>2, ErrorStates
<1>4. slot_mapping_device' \in BOOLEAN /\ slot_mapping_capacity' \in Nat
  BY <1>1, <1>2, BufferType
<1>5. kv' \in [Layers -> [Slots -> Tokens \union {Blank}]]
  BY <1>1, <1>2 DEF TypeOK
<1> QED
  BY <1>1, <1>2, <1>3, <1>4, <1>5, FailedAppendIInv

\* The length of a batch.
LEMMA BatchLength ==
  ASSUME NEW s \in Seqs, NEW toks \in Batches(s)
  PROVE  Len(toks) \in Nat \ {0} /\ toks \in [1 .. Len(toks) -> {s} \X Vals]
<1>1. PICK n \in 1 .. MaxAppend : toks \in [1 .. n -> {s} \X Vals]
  BY DEF Batches
<1>2. n \in Nat \ {0}
  BY CacheBoundAssumption
<1> QED
  BY <1>1, <1>2, FcnIsSeq

\* A launch that reports an error, whether or not its tokens were written.
LEMMA LaunchFailsIInv ==
  ASSUME IInv, NEW s \in Seqs, NEW layer \in Layers, NEW toks \in Batches(s),
         AppendTokensLaunchFails(s, layer, toks)
  PROVE  IInv'
<1> DEFINE n == Len(toks)
<1>1. n \in Nat /\ TypeOK /\ Ownership
  BY BatchLength DEF IInv
<1>2. /\ Reserve(s, n) /\ GrowBuffer(n) /\ LaunchRaw
      /\ UNCHANGED <<seq_lengths, revision, num_appends, num_resets, synced_revision,
                     page_table_device, late>>
      /\ IF KernelRuns THEN KvAppend(layer, UploadedSlots(s, n), toks) ELSE UNCHANGED kv
  BY DEF AppendTokensLaunchFails, counters, pageTable
<1>3. cuda_error' \in {"none", "stale", "lost"} /\ (KernelRuns' => KernelRuns)
  BY <1>1, <1>2, ErrorStates
<1>4. slot_mapping_device' \in BOOLEAN /\ slot_mapping_capacity' \in Nat
  BY <1>1, <1>2, BufferType
<1>5. /\ kv' \in [Layers -> [Slots -> Tokens \union {Blank}]]
      /\ \A l \in Layers, x \in Slots :
           \/ kv'[l][x] = kv[l][x]
           \/ kv'[l][x] \in {s} \X Vals /\ Owns(s, x \div block_size)'
  <2>1. CASE ~KernelRuns
    BY <2>1, <1>1, <1>2 DEF TypeOK
  <2>2. CASE KernelRuns
    <3>1. /\ seq_blocks'[s] \in Seq(BM!Blocks) /\ Len(seq_blocks'[s]) <= num_blocks
          /\ page_table_host'[s] = Padded(seq_blocks'[s])
          /\ seq_lengths[s] + n <= Len(seq_blocks'[s]) * block_size
      BY <1>1, <1>2, ReserveStep
    <3>2. KvAppend(layer, UploadedSlots(s, n), toks)
      BY <2>2, <1>2
    <3> QED
      BY <3>1, <3>2, <1>1, KvAppendStep
  <2> QED
    BY <2>1, <2>2
<1> HIDE DEF n
<1> QED
  BY <1>1, <1>2, <1>3, <1>4, <1>5, FailedAppendIInv

\* A successful append advances length and revision together; the reservation covers
\* the new length.
LEMMA AppendIInv ==
  ASSUME IInv, NEW s \in Seqs, NEW layer \in Layers, NEW toks \in Batches(s),
         AppendTokens(s, layer, toks)
  PROVE  IInv'
<1> DEFINE n == Len(toks)
<1>1. n \in Nat /\ TypeOK /\ Ownership /\ NoCrossTalk
  BY BatchLength DEF IInv
<1>2. /\ Reserve(s, n) /\ GrowBuffer(n) /\ LaunchRaw
      /\ KvAppend(layer, UploadedSlots(s, n), toks)
      /\ seq_lengths' = [seq_lengths EXCEPT ![s] = @ + n]
      /\ revision' = revision + 1 /\ num_appends' = num_appends + 1
      /\ UNCHANGED <<num_resets, synced_revision, page_table_device, late>>
  BY DEF AppendTokens, pageTable
<1>3. cuda_error' \in {"none", "stale", "lost"} /\ (KernelRuns' => KernelRuns)
  BY <1>1, <1>2, ErrorStates
<1>4. slot_mapping_device' \in BOOLEAN /\ slot_mapping_capacity' \in Nat
  BY <1>1, <1>2, BufferType
<1>5. /\ BM!TypeOK' /\ Ownership'
      /\ seq_blocks' \in [Seqs -> Seq(BM!Blocks)]
      /\ page_table_host' \in [Seqs -> [BM!Columns -> BM!BlockIds]]
      /\ seq_blocks'[s] \in Seq(BM!Blocks) /\ Len(seq_blocks'[s]) <= num_blocks
      /\ page_table_host'[s] = Padded(seq_blocks'[s])
      /\ seq_lengths[s] + n <= Len(seq_blocks'[s]) * block_size
      /\ \A w \in Seqs \ {s} : seq_blocks'[w] = seq_blocks[w]
  BY <1>1, <1>2, ReserveStep
<1>6. /\ kv' \in [Layers -> [Slots -> Tokens \union {Blank}]]
      /\ \A l \in Layers, x \in Slots :
           \/ kv'[l][x] = kv[l][x]
           \/ kv'[l][x] \in {s} \X Vals /\ Owns(s, x \div block_size)'
  BY <1>1, <1>2, <1>5, KvAppendStep
<1> HIDE DEF n
<1>7. TypeOK'
  <2>1. /\ seq_lengths' \in [Seqs -> Nat] /\ revision' \in Nat /\ num_appends' \in Nat
        /\ num_resets' \in Nat /\ synced_revision' \in Nat
        /\ page_table_device' \in [Seqs -> [BM!Columns -> BM!BlockIds]] /\ late' \subseteq Overtaken
    BY <1>1, <1>2 DEF TypeOK
  <2> QED
    BY <2>1, <1>3, <1>4, <1>5, <1>6 DEF TypeOK
<1>8. LengthCovered'
  <2>1. ASSUME NEW w \in Seqs
        PROVE  seq_lengths'[w] <= Len(seq_blocks'[w]) * block_size
    <3>1. CASE w = s
      BY <3>1, <1>1, <1>2, <1>5 DEF TypeOK
    <3>2. CASE w # s
      BY <3>2, <1>1, <1>2, <1>5 DEF TypeOK, IInv, LengthCovered
    <3> QED
      BY <3>1, <3>2
  <2> QED
    BY <2>1 DEF LengthCovered
<1>9. SyncBehind' /\ DevicePageTableFresh'
  BY <1>1, <1>2 DEF IInv, TypeOK, SyncBehind, DevicePageTableFresh
<1>10. NoCrossTalk'
  BY <1>1, <1>2, <1>3, <1>6, AppendNoCrossTalk
<1> QED
  BY <1>5, <1>7, <1>8, <1>9, <1>10 DEF IInv

\* A reset: unless the context is lost or a kernel was overtaken, no token is left in the
\* blocks that go back to the pool.
LEMMA DropIInv ==
  ASSUME IInv, NEW s \in Seqs, DropSequence(s),
         cuda_error' \in {"none", "stale", "lost"},
         kv' \in [Layers -> [Slots -> Tokens \union {Blank}]],
         late' \subseteq Overtaken, late \subseteq late',
         KernelRuns' /\ late' = {} =>
           /\ KernelRuns
           /\ \A l \in Layers, x \in Slots :
                /\ kv'[l][x] \in {kv[l][x], Blank}
                /\ Owns(s, x \div block_size) => kv'[l][x] = Blank
  PROVE  IInv'
<1>1. TypeOK /\ Ownership
  BY DEF IInv
<1>2. /\ BM!TypeOK' /\ Ownership'
      /\ seq_blocks' \in [Seqs -> Seq(BM!Blocks)]
      /\ page_table_host' \in [Seqs -> [BM!Columns -> BM!BlockIds]]
      /\ seq_blocks'[s] = <<>>
      /\ \A w \in Seqs \ {s} : seq_blocks'[w] = seq_blocks[w]
  BY <1>1, DropStep
<1>3. /\ seq_lengths' = [seq_lengths EXCEPT ![s] = 0]
      /\ revision' = revision + 1 /\ num_resets' = num_resets + 1
      /\ UNCHANGED <<num_appends, synced_revision, page_table_device, slot_mapping_device,
                     slot_mapping_capacity>>
  BY DEF DropSequence, pageTable, slotBuffer
<1>4. TypeOK'
  <2>1. /\ seq_lengths' \in [Seqs -> Nat] /\ revision' \in Nat /\ num_appends' \in Nat
        /\ num_resets' \in Nat /\ synced_revision' \in Nat
        /\ page_table_device' \in [Seqs -> [BM!Columns -> BM!BlockIds]]
        /\ slot_mapping_device' \in BOOLEAN /\ slot_mapping_capacity' \in Nat
    BY <1>1, <1>3 DEF TypeOK
  <2> QED
    BY <2>1, <1>2 DEF TypeOK
<1>5. LengthCovered'
  <2>1. ASSUME NEW w \in Seqs
        PROVE  seq_lengths'[w] <= Len(seq_blocks'[w]) * block_size
    <3>1. CASE w = s
      BY <3>1, <1>1, <1>2, <1>3, Geometry DEF TypeOK
    <3>2. CASE w # s
      BY <3>2, <1>1, <1>2, <1>3 DEF TypeOK, IInv, LengthCovered
    <3> QED
      BY <3>1, <3>2
  <2> QED
    BY <2>1 DEF LengthCovered
<1>6. SyncBehind' /\ DevicePageTableFresh'
  BY <1>1, <1>3 DEF IInv, TypeOK, SyncBehind, DevicePageTableFresh
<1>7. NoCrossTalk'
  <2> SUFFICES ASSUME KernelRuns', late' = {}, NEW l \in Layers, NEW x \in Slots, kv'[l][x] # Blank
               PROVE  Owns(kv[l][x][1], x \div block_size)'
    BY DEF NoCrossTalk
  <2>1. kv'[l][x] = kv[l][x] /\ ~Owns(s, x \div block_size)
    OBVIOUS
  <2>2. Owns(kv[l][x][1], x \div block_size)
    BY <2>1 DEF IInv, NoCrossTalk
  <2>3. kv[l][x][1] \in Seqs
    BY <2>1, <1>1 DEF TypeOK, Tokens
  <2>4. PICK w \in Seqs : w = kv[l][x][1]
    BY <2>3
  <2>5. w # s
    BY <2>1, <2>2, <2>4
  <2>6. Owns(w, x \div block_size)'
    BY <2>2, <2>4, <2>5, <1>2 DEF Owns
  <2> QED
    BY <2>1, <2>4, <2>6 DEF Owns
<1> QED
  BY <1>2, <1>4, <1>5, <1>6, <1>7 DEF IInv

\* Resetting a sequence that owns nothing.
LEMMA ResetEmptyIInv ==
  ASSUME IInv, NEW s \in Seqs, ResetSeqEmpty(s)
  PROVE  IInv'
<1>1. seq_blocks[s] = <<>> /\ DropSequence(s) /\ UNCHANGED <<kv, late, cuda_error>>
  BY DEF ResetSeqEmpty
<1>2. \A b : ~Owns(s, b)
  BY <1>1 DEF Owns
<1>3. /\ cuda_error' \in {"none", "stale", "lost"} /\ (KernelRuns' => KernelRuns)
      /\ kv' \in [Layers -> [Slots -> Tokens \union {Blank}]] /\ late' \subseteq Overtaken
  BY <1>1 DEF IInv, TypeOK, KernelRuns
<1> QED
  BY <1>1, <1>2, <1>3, DropIInv

\* A successful ResetSeq returns the blocks, blanked unless the kernels faulted or were
\* overtaken.
LEMMA ResetIInv ==
  ASSUME IInv, NEW s \in Seqs, ResetSeq(s)
  PROVE  IInv'
<1>1. /\ DropSequence(s) /\ LaunchOk
      /\ \/ KvResetBlock(Layers, seq_blocks[s]) /\ UNCHANGED <<late, cuda_error>>
         \/ KvResetLate(Layers, s) /\ UNCHANGED cuda_error
         \/ UNCHANGED <<kv, late>> /\ cuda_error' = "lost"
  BY DEF ResetSeq
<1>2. TypeOK /\ seq_blocks[s] \in Seq(BM!Blocks) /\ late \subseteq Overtaken
  BY DEF IInv, TypeOK
<1>3. CASE KvResetBlock(Layers, seq_blocks[s]) /\ UNCHANGED <<late, cuda_error>>
  <2>1. /\ kv' \in [Layers -> [Slots -> Tokens \union {Blank}]]
        /\ \A l \in Layers, x \in Slots : kv'[l][x] \in {kv[l][x], Blank}
        /\ \A l \in Layers, x \in Slots :
             (\E i \in DOMAIN seq_blocks[s] : seq_blocks[s][i] = x \div block_size) =>
               kv'[l][x] = Blank
    BY <1>2, <1>3, KvResetStep
  <2>2. cuda_error' \in {"none", "stale", "lost"} /\ (KernelRuns' => KernelRuns)
    BY <1>2, <1>3 DEF TypeOK, KernelRuns
  <2>3. \A l \in Layers, x \in Slots : Owns(s, x \div block_size) => kv'[l][x] = Blank
    BY <2>1 DEF Owns
  <2> QED
    BY <2>1, <2>2, <2>3, <1>1, <1>2, <1>3, DropIInv
<1>4. CASE UNCHANGED <<kv, late>> /\ cuda_error' = "lost"
  <2>1. ~KernelRuns' /\ kv' \in [Layers -> [Slots -> Tokens \union {Blank}]]
    BY <1>2, <1>4 DEF KernelRuns, TypeOK
  <2> QED
    BY <2>1, <1>1, <1>2, <1>4, DropIInv
<1>5. CASE KvResetLate(Layers, s) /\ UNCHANGED cuda_error
  <2>1. /\ kv' \in [Layers -> [Slots -> Tokens \union {Blank}]]
        /\ late' \subseteq Overtaken /\ late \subseteq late' /\ late' # {}
    BY <1>2, <1>5, KvResetLateStep
  <2>2. cuda_error' \in {"none", "stale", "lost"}
    BY <1>2, <1>5 DEF TypeOK
  <2> QED
    BY <2>1, <2>2, <1>1, DropIInv
<1> QED
  BY <1>1, <1>3, <1>4, <1>5

\* Steps that leave the host state alone and write no token.
LEMMA HostUnchangedIInv ==
  ASSUME IInv,
         UNCHANGED <<bmVars, seq_lengths, seq_blocks, page_table_host, revision, counters,
                     slotBuffer>>,
         cuda_error' \in {"none", "stale", "lost"}, KernelRuns' => KernelRuns,
         kv' \in [Layers -> [Slots -> Tokens \union {Blank}]],
         \A l \in Layers, x \in Slots : kv'[l][x] \in {kv[l][x], Blank},
         late' \subseteq Overtaken, late \subseteq late',
         \/ UNCHANGED pageTable
         \/ ForceSyncPageTable
  PROVE  IInv'
<1>1. UNCHANGED <<free_list, in_use, table, table_revision, table_synced, table_device,
                  allocation_failures, double_free_events, seq_lengths, seq_blocks,
                  page_table_host, revision, num_appends, num_resets, slot_mapping_device,
                  slot_mapping_capacity>>
  BY DEF bmVars, counters, slotBuffer
<1>2. \/ UNCHANGED <<page_table_device, synced_revision>>
      \/ /\ page_table_device' = IF KernelRuns THEN page_table_host ELSE page_table_device
         /\ synced_revision' = revision
  BY DEF ForceSyncPageTable, pageTable
<1>3. TypeOK'
  <2>1. /\ page_table_device' \in [Seqs -> [BM!Columns -> BM!BlockIds]]
        /\ synced_revision' \in Nat
    BY <1>2 DEF IInv, TypeOK
  <2> QED
    BY <2>1, <1>1 DEF IInv, TypeOK, BM!TypeOK
<1>4. Ownership'
  BY <1>1 DEF IInv, Ownership, BM!PoolIntegrity, BM!FreeListDistinct, BM!FreeListComplement,
     ExclusiveOwnership, NoBlockLost, RowsAgree, NoDoubleFree, Owns, Padded
<1>5. LengthCovered' /\ SyncBehind'
  BY <1>1, <1>2 DEF IInv, TypeOK, LengthCovered, SyncBehind
<1>6. DevicePageTableFresh'
  <2>1. CASE UNCHANGED <<page_table_device, synced_revision>>
    BY <2>1, <1>1 DEF IInv, DevicePageTableFresh, CeilDiv
  <2>2. CASE /\ page_table_device' = IF KernelRuns THEN page_table_host ELSE page_table_device
             /\ synced_revision' = revision
    <3> SUFFICES ASSUME KernelRuns', NEW s \in Seqs, NEW i \in BM!Columns,
                        i <= CeilDiv(seq_lengths[s], block_size)
                 PROVE  page_table_host[s][i] = seq_blocks[s][i]
      BY <2>2, <1>1 DEF DevicePageTableFresh, CeilDiv
    <3>1. /\ seq_blocks[s] \in Seq(BM!Blocks) /\ seq_lengths[s] \in Nat
          /\ Len(seq_blocks[s]) \in Nat /\ i \in Nat
          /\ page_table_host[s] = Padded(seq_blocks[s])
          /\ seq_lengths[s] <= Len(seq_blocks[s]) * block_size
      BY Geometry DEF IInv, TypeOK, Ownership, RowsAgree, LengthCovered
    <3>2. /\ CeilDiv(seq_lengths[s], block_size) \in Nat
          /\ CeilDiv(seq_lengths[s], block_size) <= Len(seq_blocks[s])
      BY <3>1, CeilDivFacts
    <3>3. i <= Len(seq_blocks[s])
      BY <3>1, <3>2
    <3> QED
      BY <3>1, <3>3, PaddedRow
  <2> QED
    BY <2>1, <2>2, <1>2
<1>7. NoCrossTalk'
  <2> SUFFICES ASSUME KernelRuns', late' = {}, NEW l \in Layers, NEW x \in Slots, kv'[l][x] # Blank
               PROVE  Owns(kv[l][x][1], x \div block_size)'
    BY DEF NoCrossTalk
  <2>1. kv'[l][x] = kv[l][x]
    OBVIOUS
  <2>2. Owns(kv[l][x][1], x \div block_size)
    BY <2>1 DEF IInv, NoCrossTalk
  <2> QED
    BY <2>1, <2>2, <1>1 DEF Owns
<1> QED
  BY <1>3, <1>4, <1>5, <1>6, <1>7 DEF IInv

\* A ResetSeq that fails keeps the blocks, blanked or not.
LEMMA ResetFailsIInv ==
  ASSUME IInv, NEW s \in Seqs, ResetSeqFails(s)
  PROVE  IInv'
<1>1. /\ TypeOK /\ seq_blocks[s] \in Seq(BM!Blocks) /\ {0} \in SUBSET Layers
      /\ late \subseteq Overtaken
  <2>1. 0 \in Layers
    BY CacheAssumption DEF Layers
  <2> QED
    BY <2>1 DEF IInv, TypeOK
<1>2. /\ UNCHANGED <<bmVars, seq_lengths, seq_blocks, page_table_host, revision, counters,
                     slotBuffer>>
      /\ UNCHANGED pageTable
      /\ \/ /\ LaunchRaw
            /\ \/ KvResetBlock({0}, seq_blocks[s]) /\ UNCHANGED late
               \/ KvResetLate({0}, s)
               \/ UNCHANGED <<kv, late>>
         \/ cuda_error' = "lost" /\ UNCHANGED <<kv, late>>
  BY DEF ResetSeqFails
<1>3. cuda_error' \in {"none", "stale", "lost"} /\ (KernelRuns' => KernelRuns)
  BY <1>1, <1>2, ErrorStates DEF KernelRuns
<1>4. /\ kv' \in [Layers -> [Slots -> Tokens \union {Blank}]]
      /\ \A l \in Layers, x \in Slots : kv'[l][x] \in {kv[l][x], Blank}
      /\ late' \subseteq Overtaken /\ late \subseteq late'
  <2>1. CASE UNCHANGED <<kv, late>>
    BY <2>1, <1>1 DEF TypeOK
  <2>2. CASE KvResetBlock({0}, seq_blocks[s]) /\ UNCHANGED late
    BY <2>2, <1>1, KvResetStep
  <2>3. CASE KvResetLate({0}, s)
    BY <2>3, <1>1, KvResetLateStep
  <2> QED
    BY <2>1, <2>2, <2>3, <1>2
<1> QED
  BY <1>2, <1>3, <1>4, HostUnchangedIInv

\* Synchronising the page table, and an error of somebody else, leave the host state alone.
LEMMA SyncIInv ==
  ASSUME IInv, SyncPageTable \/ ForceSyncPageTable \/ ForeignCudaError
  PROVE  IInv'
<1>1. kv \in [Layers -> [Slots -> Tokens \union {Blank}]]
      /\ cuda_error \in {"none", "stale", "lost"} /\ late \subseteq Overtaken
  BY DEF IInv, TypeOK
<1>2. CASE ForceSyncPageTable
  <2>1. UNCHANGED <<bmVars, seq_lengths, seq_blocks, page_table_host, revision, counters,
                    slotBuffer>> /\ UNCHANGED <<kv, late, cuda_error>>
    BY <1>2 DEF ForceSyncPageTable
  <2>2. cuda_error' \in {"none", "stale", "lost"} /\ (KernelRuns' => KernelRuns)
    BY <2>1, <1>1 DEF KernelRuns
  <2> QED
    BY <2>1, <2>2, <1>1, <1>2, HostUnchangedIInv
<1>3. CASE ForeignCudaError
  <2>1. /\ UNCHANGED <<bmVars, seq_lengths, seq_blocks, page_table_host, revision, counters,
                       slotBuffer>> /\ UNCHANGED pageTable /\ UNCHANGED <<kv, late>>
        /\ cuda_error = "none" /\ cuda_error' = "stale"
    BY <1>3 DEF ForeignCudaError
  <2>2. cuda_error' \in {"none", "stale", "lost"} /\ (KernelRuns' => KernelRuns)
    BY <2>1 DEF KernelRuns
  <2> QED
    BY <2>1, <2>2, <1>1, HostUnchangedIInv
<1> QED
  BY <1>2, <1>3 DEF SyncPageTable

\* Every call keeps the invariant.
LEMMA NextIInv == IInv /\ [Next]_vars => IInv'
<1>1. ASSUME IInv, Next
      PROVE  IInv'
  <2>1. CASE \E s \in Seqs, n \in 1 .. MaxAppend :
               \/ AppendTokensRefused(s, n)
               \/ AppendTokensNoBuffer(s, n)
               \/ AppendTokensRejected(s, n)
    BY <2>1, <1>1, RefusedIInv, NoBufferIInv, RejectedIInv
  <2>2. CASE \E s \in Seqs : \E layer \in Layers, toks \in Batches(s) :
               \/ AppendTokens(s, layer, toks)
               \/ AppendTokensLaunchFails(s, layer, toks)
    BY <2>2, <1>1, AppendIInv, LaunchFailsIInv
  <2>3. CASE \E s \in Seqs : ResetSeqEmpty(s) \/ ResetSeq(s) \/ ResetSeqFails(s)
    BY <2>3, <1>1, ResetEmptyIInv, ResetIInv, ResetFailsIInv
  <2>4. CASE SyncPageTable \/ ForceSyncPageTable \/ ForeignCudaError
    BY <2>4, <1>1, SyncIInv
  <2> QED
    BY <2>1, <2>2, <2>3, <2>4, <1>1 DEF Next
<1>2. ASSUME IInv, UNCHANGED vars
      PROVE  IInv'
  <2>1. /\ UNCHANGED <<bmVars, seq_lengths, seq_blocks, page_table_host, revision, counters,
                       slotBuffer>> /\ UNCHANGED pageTable /\ UNCHANGED <<kv, late, cuda_error>>
    BY <1>2 DEF vars
  <2>2. /\ kv' \in [Layers -> [Slots -> Tokens \union {Blank}]]
        /\ cuda_error' \in {"none", "stale", "lost"} /\ (KernelRuns' => KernelRuns)
        /\ late' \subseteq Overtaken
    BY <2>1, <1>2 DEF IInv, TypeOK, KernelRuns
  <2> QED
    BY <2>1, <2>2, <1>2, HostUnchangedIInv
<1> QED
  BY <1>1, <1>2

\* The cache's invariant holds after every call.
LEMMA SpecIInv == Spec => []IInv
  BY InitIInv, NextIInv, PTL DEF Spec

-----------------------------------------------------------------------------
\* Every reachable state of the cache is well typed: both tables hold block ids of the
\* pool, and every slot a known token or nothing.
THEOREM TypeCorrect == Spec => []TypeOK
<1>1. IInv => TypeOK
  BY DEF IInv
<1> QED
  BY <1>1, SpecIInv, PTL

\* Blocks are exclusive, none is lost or freed twice, and the three copies of a block
\* list agree, after every call and every failure half-way through one.
THEOREM OwnershipHolds == Spec => []Ownership
<1>1. IInv => Ownership
  BY DEF IInv
<1> QED
  BY <1>1, SpecIInv, PTL

\* Every position below a length lies in an owned block.
THEOREM LengthCoveredHolds == Spec => []LengthCovered
<1>1. IInv => LengthCovered
  BY DEF IInv
<1> QED
  BY <1>1, SpecIInv, PTL

\* The table row has room for whatever Allocate granted, so the rollback branch of
\* AppendTokens is dead code.
THEOREM TableHasRoomHolds == Spec => []TableHasRoom
<1>1. ASSUME IInv
      PROVE  TableHasRoom
  <2>1. SUFFICES ASSUME NEW s \in Seqs, NEW n \in 0 .. Len(free_list)
                 PROVE  BM!Used(table[s]) + n <= num_blocks
    BY Geometry DEF TableHasRoom, BM!Fits
  <2>2. /\ seq_blocks[s] \in Seq(BM!Blocks) /\ table[s] = Padded(seq_blocks[s])
    BY <1>1 DEF IInv, TypeOK, Ownership, RowsAgree
  <2>3. /\ Len(seq_blocks[s]) \in Nat /\ Len(free_list) \in Nat
        /\ Len(seq_blocks[s]) + Len(free_list) <= num_blocks
    BY <1>1, OwnedAndFree DEF IInv
  <2>4. Len(seq_blocks[s]) <= num_blocks
    BY <2>3, Geometry
  <2>5. BM!Used(table[s]) = Len(seq_blocks[s])
    BY <2>2, <2>4, UsedPadded
  <2> QED
    BY <2>3, <2>5, Geometry
<1> QED
  BY <1>1, SpecIInv, PTL

\* SyncPageTable may skip the upload while the revisions agree, although failed appends
\* change the host rows without a new revision.
THEOREM DevicePageTableFreshHolds == Spec => []DevicePageTableFresh
<1>1. IInv => DevicePageTableFresh
  BY DEF IInv
<1> QED
  BY <1>1, SpecIInv, PTL

\* A reused block carries nothing of its former owner over.
THEOREM NoCrossTalkHolds == Spec => []NoCrossTalk
<1>1. IInv => NoCrossTalk
  BY DEF IInv
<1> QED
  BY <1>1, SpecIInv, PTL

-----------------------------------------------------------------------------
\* What a slot may hold.
Contents == Tokens \union {Blank}

-----------------------------------------------------------------------------
\* Two positions of owned lists that share a slot have the same block and offset.
LEMMA SlotsDiffer ==
  ASSUME NEW a \in Seq(BM!Blocks), NEW b \in Seq(BM!Blocks),
         Len(a) <= num_blocks, Len(b) <= num_blocks,
         NEW x \in Nat, x < Len(a) * block_size, NEW y \in Nat, y < Len(b) * block_size,
         SlotOf(Padded(a), x) = SlotOf(Padded(b), y)
  PROVE  /\ a[x \div block_size + 1] = b[y \div block_size + 1]
         /\ x % block_size = y % block_size
<1>1. /\ SlotOf(Padded(a), x) \div block_size = a[x \div block_size + 1]
      /\ SlotOf(Padded(a), x) = a[x \div block_size + 1] * block_size + (x % block_size)
      /\ a[x \div block_size + 1] \in BM!Blocks
      /\ x % block_size \in 0 .. block_size - 1
  BY SlotOfOwned
<1>2. /\ SlotOf(Padded(b), y) \div block_size = b[y \div block_size + 1]
      /\ SlotOf(Padded(b), y) = b[y \div block_size + 1] * block_size + (y % block_size)
      /\ y % block_size \in 0 .. block_size - 1
  BY SlotOfOwned
<1>3. PICK c \in BM!Blocks, i \in 0 .. block_size - 1, j \in 0 .. block_size - 1 :
        /\ c = a[x \div block_size + 1] /\ c = b[y \div block_size + 1]
        /\ i = x % block_size /\ j = y % block_size
        /\ c * block_size + i = c * block_size + j
  BY <1>1, <1>2
<1>4. PICK d \in Int : d = c * block_size
  BY Geometry
<1>5. i = j
  <2>1. d + i = d + j /\ i \in Int /\ j \in Int
    BY <1>3, <1>4, Geometry
  <2> QED
    BY <2>1
<1> QED
  BY <1>3, <1>5

\* Different positions that the blocks of a sequence cover have different slots.
LEMMA SlotInjective ==
  ASSUME TypeOK, Ownership, NEW s \in Seqs,
         NEW x \in Nat, x < Len(seq_blocks[s]) * block_size,
         NEW y \in Nat, y < Len(seq_blocks[s]) * block_size,
         SlotOf(page_table_host[s], x) = SlotOf(page_table_host[s], y)
  PROVE  x = y
<1>1. /\ seq_blocks[s] \in Seq(BM!Blocks)
      /\ page_table_host[s] = Padded(seq_blocks[s])
  BY DEF TypeOK, Ownership, RowsAgree
<1>2. Len(seq_blocks[s]) <= num_blocks
  BY OwnedAndFree, Geometry
<1>3. /\ seq_blocks[s][x \div block_size + 1] = seq_blocks[s][y \div block_size + 1]
      /\ x % block_size = y % block_size
  BY <1>1, <1>2, SlotsDiffer
<1>4. /\ x \div block_size + 1 \in DOMAIN seq_blocks[s]
      /\ y \div block_size + 1 \in DOMAIN seq_blocks[s]
  BY <1>1, <1>2, SlotOfOwned
<1>5. x \div block_size + 1 = y \div block_size + 1
  BY <1>3, <1>4 DEF Ownership, ExclusiveOwnership
<1>6. /\ x = block_size * (x \div block_size) + (x % block_size)
      /\ y = block_size * (y \div block_size) + (y % block_size)
      /\ x \div block_size \in Nat /\ y \div block_size \in Nat
  BY <1>1, BlockOfPosition
<1>7. x \div block_size = y \div block_size
  BY <1>5, <1>6
<1> QED
  BY <1>3, <1>6, <1>7

\* A position below the length is covered.
LEMMA ViewPosition ==
  ASSUME IInv, NEW w \in Seqs, NEW p \in 1 .. seq_lengths[w]
  PROVE  /\ p - 1 \in Nat /\ p - 1 < Len(seq_blocks[w]) * block_size
         /\ p - 1 < seq_lengths[w]
         /\ SlotOf(page_table_host[w], p - 1) \in Slots
         /\ Owns(w, SlotOf(page_table_host[w], p - 1) \div block_size)
<1>1. /\ seq_blocks[w] \in Seq(BM!Blocks) /\ seq_lengths[w] \in Nat
      /\ page_table_host[w] = Padded(seq_blocks[w])
      /\ seq_lengths[w] <= Len(seq_blocks[w]) * block_size
  BY DEF IInv, TypeOK, Ownership, RowsAgree, LengthCovered
<1>2. Len(seq_blocks[w]) <= num_blocks
  BY OwnedAndFree, Geometry DEF IInv
<1>3. Len(seq_blocks[w]) * block_size \in Int
  BY <1>1, Geometry
<1>4. p - 1 \in Nat /\ p - 1 < Len(seq_blocks[w]) * block_size /\ p - 1 < seq_lengths[w]
  BY <1>1, <1>3
<1>5. PICK x \in Nat : x = p - 1
  BY <1>4
<1>6. /\ x \div block_size + 1 \in DOMAIN seq_blocks[w]
      /\ SlotOf(Padded(seq_blocks[w]), x) \in Slots
      /\ SlotOf(Padded(seq_blocks[w]), x) \div block_size = seq_blocks[w][x \div block_size + 1]
  BY <1>1, <1>2, <1>4, <1>5, SlotOfOwned
<1> QED
  BY <1>1, <1>4, <1>5, <1>6 DEF Owns

\* What a caller reads back is a sequence of tokens or blanks.
LEMMA ViewType ==
  ASSUME IInv, NEW l \in Layers, NEW w \in Seqs
  PROVE  /\ View(l, w) \in [1 .. seq_lengths[w] -> Contents]
         /\ View(l, w) \in Seq(Contents) /\ Len(View(l, w)) = seq_lengths[w]
         /\ seq_lengths[w] \in Nat
<1>1. \A p \in 1 .. seq_lengths[w] : SlotOf(page_table_host[w], p - 1) \in Slots
  BY ViewPosition
<1>2. kv \in [Layers -> [Slots -> Contents]] /\ seq_lengths[w] \in Nat
  BY DEF IInv, TypeOK, Contents
<1>3. View(l, w) \in [1 .. seq_lengths[w] -> Contents]
  BY <1>1, <1>2 DEF View
<1> QED
  BY <1>2, <1>3, FcnIsSeq

\* A reservation moves no position of any sequence.
LEMMA ReserveKeepsSlots ==
  ASSUME IInv, NEW s \in Seqs, NEW n \in Nat, Reserve(s, n),
         NEW w \in Seqs, NEW p \in 1 .. seq_lengths[w]
  PROVE  SlotOf(page_table_host'[w], p - 1) = SlotOf(page_table_host[w], p - 1)
<1>1. /\ seq_blocks[w] \in Seq(BM!Blocks) /\ Ownership' /\ Ownership /\ TypeOK
      /\ seq_blocks' \in [Seqs -> Seq(BM!Blocks)]
      /\ Len(seq_blocks[s]) <= Len(seq_blocks'[s])
      /\ \A q \in Seqs \ {s} : seq_blocks'[q] = seq_blocks[q]
      /\ \A i \in 1 .. Len(seq_blocks[s]) : seq_blocks'[s][i] = seq_blocks[s][i]
      /\ Len(seq_blocks'[s]) <= num_blocks
  BY ReserveStep DEF IInv, TypeOK
<1>2. page_table_host[w] = Padded(seq_blocks[w]) /\ page_table_host'[w] = Padded(seq_blocks'[w])
  BY <1>1 DEF Ownership, RowsAgree
<1>3. CASE w # s
  BY <1>1, <1>2, <1>3
<1>4. CASE w = s
  <2>1. PICK x \in Nat : x = p - 1 /\ x < Len(seq_blocks[w]) * block_size
    BY ViewPosition
  <2>2. /\ seq_blocks[w] \in Seq(BM!Blocks) /\ seq_blocks'[w] \in Seq(BM!Blocks)
        /\ Len(seq_blocks[w]) \in Nat /\ Len(seq_blocks'[w]) \in Nat
        /\ Len(seq_blocks[w]) <= Len(seq_blocks'[w])
        /\ Len(seq_blocks'[w]) <= num_blocks /\ Len(seq_blocks[w]) <= num_blocks
    BY <1>1, <1>4, Geometry
  <2>3. x \div block_size + 1 \in 1 .. Len(seq_blocks[w])
    BY <2>1, <2>2, BlockOfPosition
  <2>4. PICK c \in 1 .. Len(seq_blocks[w]) : c = x \div block_size + 1
    BY <2>3
  <2>5. c \in BM!Columns /\ c <= Len(seq_blocks[w]) /\ c <= Len(seq_blocks'[w])
    BY <2>2, <2>4, Geometry
  <2>6. Padded(seq_blocks[w])[c] = seq_blocks[w][c] /\ Padded(seq_blocks'[w])[c] = seq_blocks'[w][c]
    BY <2>2, <2>5, PaddedRow
  <2> QED
    BY <1>1, <1>2, <1>4, <2>1, <2>4, <2>6 DEF SlotOf
<1> QED
  BY <1>3, <1>4

\* kv_append_kernel on the slots of a reservation: the batch is at the positions behind
\* the length, in order, and no position below a length changes in any layer.
LEMMA AppendExact ==
  ASSUME IInv, NEW s \in Seqs, NEW layer \in Layers, NEW toks \in Batches(s),
         Reserve(s, Len(toks)), KvAppend(layer, UploadedSlots(s, Len(toks)), toks)
  PROVE  /\ \A l \in Layers, w \in Seqs : \A p \in 1 .. seq_lengths[w] :
              kv'[l][SlotOf(page_table_host[w], p - 1)] = kv[l][SlotOf(page_table_host[w], p - 1)]
         /\ \A t \in 1 .. Len(toks) :
              kv'[layer][SlotOf(page_table_host'[s], seq_lengths[s] + t - 1)] = toks[t]
         /\ \A t \in 1 .. Len(toks) :
              /\ SlotOf(page_table_host'[s], seq_lengths[s] + t - 1) \in Slots
              /\ \E i \in DOMAIN seq_blocks'[s] :
                   seq_blocks'[s][i]
                     = SlotOf(page_table_host'[s], seq_lengths[s] + t - 1) \div block_size
<1> DEFINE n == Len(toks)
           start == seq_lengths[s]
           slots == UploadedSlots(s, n)
           own == seq_blocks'[s]
<1>1. /\ n \in Nat \ {0} /\ TypeOK /\ Ownership /\ start \in Nat
      /\ kv \in [Layers -> [Slots -> Contents]]
  BY BatchLength DEF IInv, TypeOK, Contents
<1>2. /\ Ownership' /\ seq_blocks' \in [Seqs -> Seq(BM!Blocks)]
      /\ seq_blocks'[s] \in Seq(BM!Blocks) /\ Len(seq_blocks'[s]) <= num_blocks
      /\ start + n <= Len(own) * block_size
      /\ page_table_host'[s] = Padded(seq_blocks'[s])
      /\ \A w \in Seqs \ {s} : seq_blocks'[w] = seq_blocks[w]
      /\ Len(seq_blocks[s]) <= Len(seq_blocks'[s])
  BY <1>1, ReserveStep
<1>3. slots = [t \in 1 .. n |-> SlotOf(Padded(own), start + t - 1)]
  BY <1>2 DEF UploadedSlots, ComputeSlotMapping
<1>4. ASSUME NEW t \in 1 .. n
      PROVE  /\ start + t - 1 \in Nat /\ start + t - 1 < Len(own) * block_size
             /\ slots[t] \in Slots
             /\ \E i \in DOMAIN own : own[i] = slots[t] \div block_size
             /\ slots[t] = SlotOf(Padded(own), start + t - 1)
  <2>1. Len(own) * block_size \in Nat
    BY <1>2, Geometry
  <2>2. start + t - 1 \in Nat /\ start + t - 1 < Len(own) * block_size
    BY <2>1, <1>1, <1>2
  <2>3. PICK x \in Nat : x = start + t - 1
    BY <2>2
  <2>4. /\ x \div block_size + 1 \in DOMAIN own
        /\ SlotOf(Padded(own), x) \in Slots
        /\ SlotOf(Padded(own), x) \div block_size = own[x \div block_size + 1]
    BY <2>2, <2>3, <1>2, SlotOfOwned
  <2> QED
    BY <2>2, <2>3, <2>4, <1>3
<1>5. DOMAIN slots = 1 .. n
  BY <1>3
<1> HIDE DEF slots, n, start, own
\* The state after the reservation, before anything else changes.
<1>6. ASSUME NEW a \in Nat, NEW b \in Nat, NEW w \in Seqs,
             a < Len(seq_blocks'[s]) * block_size, b < Len(seq_blocks'[w]) * block_size,
             SlotOf(page_table_host'[s], a) = SlotOf(page_table_host'[w], b)
      PROVE  s = w /\ a = b
  <2>1. page_table_host'[w] = Padded(seq_blocks'[w]) /\ seq_blocks'[w] \in Seq(BM!Blocks)
    BY <1>2 DEF Ownership, RowsAgree
  <2>2. Len(seq_blocks'[w]) <= num_blocks
    <3>1. CASE w = s
      BY <3>1, <1>2
    <3>2. CASE w # s
      <4>1. seq_blocks'[w] = seq_blocks[w]
        BY <3>2, <1>2
      <4>2. Len(seq_blocks[w]) <= num_blocks
        BY <1>1, OwnedAndFree, Geometry
      <4> QED
        BY <4>1, <4>2
    <3> QED
      BY <3>1, <3>2
  <2>3. /\ seq_blocks'[s][a \div block_size + 1] = seq_blocks'[w][b \div block_size + 1]
        /\ a % block_size = b % block_size
    BY <1>2, <1>6, <2>1, <2>2, SlotsDiffer
  <2>4. /\ a \div block_size + 1 \in DOMAIN seq_blocks'[s]
        /\ b \div block_size + 1 \in DOMAIN seq_blocks'[w]
    BY <1>2, <1>6, <2>1, <2>2, SlotOfOwned
  <2>5. s = w /\ a \div block_size + 1 = b \div block_size + 1
    BY <2>3, <2>4, <1>2 DEF Ownership, ExclusiveOwnership
  <2>6. /\ a = block_size * (a \div block_size) + (a % block_size)
        /\ b = block_size * (b \div block_size) + (b % block_size)
        /\ a \div block_size \in Nat /\ b \div block_size \in Nat
    BY <1>2, <1>6, <2>1, BlockOfPosition
  <2>7. a \div block_size = b \div block_size
    BY <2>5, <2>6
  <2> QED
    BY <2>3, <2>5, <2>6, <2>7
<1>7. kv' = [kv EXCEPT ![layer] =
               [x \in Slots |-> IF \E t \in DOMAIN slots : slots[t] = x
                                  THEN toks[CHOOSE t \in DOMAIN slots : slots[t] = x]
                                  ELSE kv[layer][x]]]
  BY DEF KvAppend, slots, n
<1>8. \A l \in Layers \ {layer} : kv'[l] = kv[l]
  BY <1>1, <1>7
<1>9. \A x \in Slots : kv'[layer][x] = IF \E t \in DOMAIN slots : slots[t] = x
                                         THEN toks[CHOOSE t \in DOMAIN slots : slots[t] = x]
                                         ELSE kv[layer][x]
  BY <1>1, <1>7
<1>10. ASSUME NEW l \in Layers, NEW w \in Seqs, NEW p \in 1 .. seq_lengths[w]
       PROVE  kv'[l][SlotOf(page_table_host[w], p - 1)] = kv[l][SlotOf(page_table_host[w], p - 1)]
  <2>1. CASE l # layer
    BY <2>1, <1>8
  <2>2. CASE l = layer
    <3>1. PICK y \in Nat : y = p - 1 /\ y < Len(seq_blocks[w]) * block_size /\ y < seq_lengths[w]
      BY ViewPosition
    <3>2. PICK x \in Slots : x = SlotOf(page_table_host[w], y)
      BY <3>1, ViewPosition
    <3>3. x = SlotOf(page_table_host'[w], y)
      BY <3>1, <3>2, <1>1, ReserveKeepsSlots DEF n
    <3>4. y < Len(seq_blocks'[w]) * block_size
      <4>1. CASE w # s
        BY <4>1, <3>1, <1>2
      <4>2. CASE w = s
        <5>1. Len(own) * block_size \in Int
          BY <1>2, Geometry DEF own
        <5> QED
          BY <5>1, <4>2, <3>1, <1>1, <1>2 DEF start, own
      <4> QED
        BY <4>1, <4>2
    <3>5. ASSUME NEW t \in 1 .. n, slots[t] = x
          PROVE  FALSE
      <4>1. PICK a \in Nat : a = start + t - 1 /\ a < Len(own) * block_size
        BY <1>4
      <4>2. SlotOf(page_table_host'[s], a) = SlotOf(page_table_host'[w], y)
        BY <4>1, <3>3, <3>5, <1>2, <1>4 DEF own
      <4>3. s = w /\ a = y
        BY <4>1, <4>2, <3>4, <1>6 DEF own
      <4> QED
        BY <4>1, <4>3, <3>1, <1>1 DEF start
    <3>6. kv'[layer][x] = kv[layer][x]
      BY <3>5, <1>5, <1>9
    <3> QED
      BY <2>2, <3>1, <3>2, <3>6
  <2> QED
    BY <2>1, <2>2
<1>11. ASSUME NEW t \in 1 .. n
       PROVE  /\ kv'[layer][SlotOf(page_table_host'[s], start + t - 1)] = toks[t]
              /\ SlotOf(page_table_host'[s], start + t - 1) \in Slots
              /\ \E i \in DOMAIN own :
                   own[i] = SlotOf(page_table_host'[s], start + t - 1) \div block_size
  <2>1. /\ slots[t] \in Slots /\ slots[t] = SlotOf(page_table_host'[s], start + t - 1)
        /\ \E i \in DOMAIN own : own[i] = slots[t] \div block_size
    BY <1>2, <1>4 DEF own
  <2>2. ASSUME NEW u \in 1 .. n, slots[u] = slots[t]
        PROVE  u = t
    <3>1. PICK a \in Nat : a = start + u - 1 /\ a < Len(own) * block_size
      BY <1>4
    <3>2. PICK b \in Nat : b = start + t - 1 /\ b < Len(own) * block_size
      BY <1>4
    <3>3. SlotOf(page_table_host'[s], a) = SlotOf(page_table_host'[s], b)
      BY <3>1, <3>2, <2>2, <1>2, <1>4 DEF own
    <3>4. a = b
      BY <3>1, <3>2, <3>3, <1>6 DEF own
    <3> QED
      BY <3>1, <3>2, <3>4, <1>1
  <2>3. (CHOOSE u \in DOMAIN slots : slots[u] = slots[t]) = t
    BY <2>2, <1>5
  <2>4. kv'[layer][slots[t]] = toks[t]
    BY <2>1, <2>3, <1>5, <1>9
  <2> QED
    BY <2>1, <2>4
<1> QED
  BY <1>10, <1>11 DEF start, n, own

-----------------------------------------------------------------------------
\* The abstract state: what a layer of a sequence reads back.
LEMMA LogicalLength ==
  ASSUME IInv, NEW s \in Seqs
  PROVE  Logical!Length(s) = seq_lengths[s]
<1>1. 0 \in Layers
  BY CacheAssumption DEF Layers
<1>2. Len(View(0, s)) = seq_lengths[s]
  BY <1>1, ViewType
<1> QED
  BY <1>1, <1>2 DEF Logical!Length

\* The reservation of AppendTokens is the abstract one: blocks already held are used
\* first, the rest comes from the pool.
LEMMA ReserveRefines ==
  ASSUME IInv, NEW s \in Seqs, NEW n \in Nat, Reserve(s, n)
  PROVE  Logical!Reserve(s, n)
<1> DEFINE k == IF ToAllocate(s, n) > 0 THEN ToAllocate(s, n) ELSE 0
<1>1. /\ seq_blocks' \in [Seqs -> Seq(BM!Blocks)]
      /\ k \in Nat /\ k <= Len(free_list)
      /\ Len(seq_blocks'[s]) = Len(seq_blocks[s]) + k
      /\ Len(free_list') = Len(free_list) - k
      /\ \A w \in Seqs \ {s} : seq_blocks'[w] = seq_blocks[w]
  BY ReserveStep DEF IInv
<1>2. Logical!BlocksFor(Logical!Length(s) + n) - Len(seq_blocks[s]) = ToAllocate(s, n)
  BY LogicalLength DEF Logical!BlocksFor, ToAllocate, CeilDiv
<1> HIDE DEF k
<1>3. [w \in Seqs |-> Len(seq_blocks'[w])]
        = [[w \in Seqs |-> Len(seq_blocks[w])] EXCEPT ![s] = @ + k]
  BY <1>1
<1>4. [w \in Seqs |-> Len(seq_blocks[w])][s] = Len(seq_blocks[s])
  OBVIOUS
<1> QED
  BY <1>1, <1>2, <1>3, <1>4 DEF Logical!Reserve, k

\* If no layer of any sequence reads back anything else, the abstract log is unchanged.
LEMMA SameViews ==
  ASSUME UNCHANGED seq_lengths,
         \A l \in Layers, w \in Seqs : \A p \in 1 .. seq_lengths[w] :
           kv'[l][SlotOf(page_table_host'[w], p - 1)] = kv[l][SlotOf(page_table_host[w], p - 1)]
  PROVE  UNCHANGED [l \in Layers |-> [s \in Seqs |-> View(l, s)]]
<1>1. \A l \in Layers, w \in Seqs :
        [p \in 1 .. seq_lengths'[w] |-> kv'[l][SlotOf(page_table_host'[w], p - 1)]]
          = [p \in 1 .. seq_lengths[w] |-> kv[l][SlotOf(page_table_host[w], p - 1)]]
  OBVIOUS
<1> QED
  BY <1>1 DEF View

\* An append that reports an error after its reservation is the abstract failing append,
\* although its kernel may have run.
LEMMA FailedAppendRefines ==
  ASSUME IInv, NEW s \in Seqs, NEW n \in Nat, Reserve(s, n), UNCHANGED <<seq_lengths, late>>,
         \A l \in Layers, w \in Seqs : \A p \in 1 .. seq_lengths[w] :
           kv'[l][SlotOf(page_table_host[w], p - 1)] = kv[l][SlotOf(page_table_host[w], p - 1)]
  PROVE  Logical!AppendFails(s, n)
<1>1. \A l \in Layers, w \in Seqs : \A p \in 1 .. seq_lengths[w] :
        kv'[l][SlotOf(page_table_host'[w], p - 1)] = kv[l][SlotOf(page_table_host[w], p - 1)]
  BY ReserveKeepsSlots
<1>2. UNCHANGED [l \in Layers |-> [w \in Seqs |-> View(l, w)]]
  BY <1>1, SameViews
<1>3. Logical!Reserve(s, n)
  BY ReserveRefines
<1>4. UNCHANGED (late = {})
  OBVIOUS
<1> QED
  BY <1>2, <1>3, <1>4 DEF Logical!AppendFails

\* In a live context in which every reset kernel read its ids in time, a slot of one of
\* s's blocks holds a token of s or nothing.
LEMMA OwnSlots ==
  ASSUME TypeOK, Ownership, NoCrossTalk, KernelRuns, late = {}, NEW s \in Seqs,
         NEW l \in Layers, NEW x \in Slots, Owns(s, x \div block_size)
  PROVE  kv[l][x] \in ({s} \X Vals) \union {Blank}
<1>1. kv[l][x] \in Tokens \union {Blank}
  BY DEF TypeOK
<1>2. CASE kv[l][x] # Blank
  <2>1. PICK w \in Seqs, v \in Vals : kv[l][x] = <<w, v>>
    BY <1>1, <1>2 DEF Tokens
  <2>2. Owns(w, x \div block_size)
    <3>1. Owns(kv[l][x][1], x \div block_size)
      BY <1>2 DEF NoCrossTalk
    <3>2. kv[l][x][1] = w
      BY <2>1
    <3> QED
      BY <3>1, <3>2
  <2>3. w = s
    BY <2>2 DEF Owns, Ownership, ExclusiveOwnership
  <2> QED
    BY <2>1, <2>3
<1> QED
  BY <1>2

\* A successful append is the abstract one; what the other layers read back at the new
\* positions is what their slots of the same blocks hold.
LEMMA AppendRefines ==
  ASSUME IInv, IInv', NEW s \in Seqs, NEW layer \in Layers, NEW toks \in Batches(s),
         AppendTokens(s, layer, toks)
  PROVE  Logical!AppendTokens(s, layer, toks)
<1> DEFINE n == Len(toks)
           start == seq_lengths[s]
           Own == (IF late = {} THEN {s} \X Vals ELSE Seqs \X Vals) \union {Blank}
           pos(t) == SlotOf(page_table_host'[s], start + t - 1)
           tail(l) == [t \in 1 .. n |-> kv'[l][pos(t)]]
           rest == [l \in Layers \ {layer} |-> tail(l)]
<1>1. /\ Reserve(s, n) /\ LaunchOk /\ LaunchRaw
      /\ KvAppend(layer, UploadedSlots(s, n), toks)
      /\ seq_lengths' = [seq_lengths EXCEPT ![s] = @ + n] /\ UNCHANGED late
  BY DEF AppendTokens
<1>2. n \in Nat \ {0} /\ toks \in [1 .. n -> {s} \X Vals] /\ start \in Nat
  BY BatchLength DEF IInv, TypeOK
<1>3. /\ seq_lengths'[s] = start + n
      /\ \A w \in Seqs \ {s} : seq_lengths'[w] = seq_lengths[w]
  BY <1>1 DEF IInv, TypeOK
<1>4. /\ \A l \in Layers, w \in Seqs : \A p \in 1 .. seq_lengths[w] :
           kv'[l][SlotOf(page_table_host'[w], p - 1)] = kv[l][SlotOf(page_table_host[w], p - 1)]
      /\ \A t \in 1 .. n : /\ kv'[layer][pos(t)] = toks[t]
                           /\ pos(t) \in Slots
                           /\ \E i \in DOMAIN seq_blocks'[s] :
                                seq_blocks'[s][i] = pos(t) \div block_size
  <2>1. n \in Nat
    BY <1>2
  <2>2. \A w \in Seqs : \A p \in 1 .. seq_lengths[w] :
          SlotOf(page_table_host'[w], p - 1) = SlotOf(page_table_host[w], p - 1)
    BY <2>1, <1>1, ReserveKeepsSlots
  <2> QED
    BY <2>2, <1>1, AppendExact
<1>5. KernelRuns'
  BY <1>1 DEF LaunchOk, LaunchRaw, KernelRuns
<1>6. ASSUME NEW l \in Layers, NEW t \in 1 .. n
      PROVE  kv'[l][pos(t)] \in Own
  <2>1. PICK x \in Slots : x = pos(t)
    BY <1>4
  <2>2. \E i \in DOMAIN seq_blocks'[s] : seq_blocks'[s][i] = x \div block_size
    BY <2>1, <1>4
  <2>3. /\ kv'[l][x] \in Tokens \union {Blank}
        /\ \A a, b \in Seqs : \A i \in DOMAIN seq_blocks'[a], j \in DOMAIN seq_blocks'[b] :
             seq_blocks'[a][i] = seq_blocks'[b][j] => a = b
        /\ late = {} /\ kv'[l][x] # Blank => \E i \in DOMAIN seq_blocks'[kv'[l][x][1]] :
             seq_blocks'[kv'[l][x][1]][i] = x \div block_size
    <3>1. kv'[l][x] \in Tokens \union {Blank}
      BY DEF IInv, TypeOK
    <3>2. \A a, b \in Seqs : \A i \in DOMAIN seq_blocks'[a], j \in DOMAIN seq_blocks'[b] :
            seq_blocks'[a][i] = seq_blocks'[b][j] => a = b
      BY DEF IInv, Ownership, ExclusiveOwnership
    <3>3. late = {} /\ kv'[l][x] # Blank => \E i \in DOMAIN seq_blocks'[kv'[l][x][1]] :
            seq_blocks'[kv'[l][x][1]][i] = x \div block_size
      BY <1>1, <1>5 DEF IInv, NoCrossTalk, Owns
    <3> QED
      BY <3>1, <3>2, <3>3
  <2>4. CASE kv'[l][x] # Blank
    <3>1. PICK w \in Seqs, v \in Vals : kv'[l][x] = <<w, v>>
      BY <2>3, <2>4 DEF Tokens
    <3>2. late = {} => w = s
      BY <3>1, <2>2, <2>3, <2>4
    <3>3. kv'[l][x] \in IF late = {} THEN {s} \X Vals ELSE Seqs \X Vals
      BY <3>1, <3>2
    <3> QED
      BY <3>3, <2>1
  <2> QED
    BY <2>1, <2>4
<1> HIDE DEF n, start, pos, Own
<1>7. \A l \in Layers : tail(l) \in [1 .. n -> Own]
  BY <1>6
<1>8. tail(layer) = toks
  BY <1>2, <1>4
<1> HIDE DEF tail
<1>9. rest \in [Layers \ {layer} -> [1 .. n -> Own]]
  BY <1>7
<1>10. \A l \in Layers : (IF l = layer THEN toks ELSE rest[l]) = tail(l)
  BY <1>8
<1> HIDE DEF rest
<1>11. ASSUME NEW l \in Layers, NEW w \in Seqs
       PROVE  [p \in 1 .. seq_lengths'[w] |-> kv'[l][SlotOf(page_table_host'[w], p - 1)]]
                = IF w = s THEN View(l, s) \o tail(l) ELSE View(l, w)
  <2>1. CASE w # s
    BY <2>1, <1>3, <1>4 DEF View
  <2>2. CASE w = s
    <3>1. /\ View(l, s) \in [1 .. start -> Contents] /\ tail(l) \in [1 .. n -> Contents]
      <4>1. View(l, s) \in [1 .. start -> Contents]
        BY ViewType DEF start
      <4>2. Own \subseteq Contents
        BY DEF Own, Contents, Tokens
      <4> QED
        BY <4>1, <4>2, <1>7
    <3>2. View(l, s) \o tail(l) = [i \in 1 .. start + n |->
                                     IF i <= start THEN View(l, s)[i] ELSE tail(l)[i - start]]
      <4>1. /\ View(l, s) \in Seq(Contents) /\ Len(View(l, s)) = start
            /\ tail(l) \in Seq(Contents) /\ Len(tail(l)) = n
        BY <3>1, <1>2, FcnIsSeq
      <4>2. View(l, s) \o tail(l)
              = [i \in 1 .. Len(View(l, s)) + Len(tail(l)) |->
                   IF i <= Len(View(l, s)) THEN View(l, s)[i] ELSE tail(l)[i - Len(View(l, s))]]
        BY <4>1, ConcatIsFcn
      <4> QED
        BY <4>1, <4>2
    <3>3. ASSUME NEW i \in 1 .. start + n
          PROVE  kv'[l][SlotOf(page_table_host'[s], i - 1)]
                   = IF i <= start THEN View(l, s)[i] ELSE tail(l)[i - start]
      <4>1. CASE i <= start
        <5>1. i \in 1 .. start
          BY <4>1, <1>2
        <5> QED
          BY <5>1, <4>1, <1>4 DEF View, start
      <4>2. CASE ~(i <= start)
        <5>1. PICK t \in 1 .. n : t = i - start /\ start + t - 1 = i - 1
          BY <4>2, <1>2
        <5>2. tail(l)[t] = kv'[l][pos(t)]
          BY DEF tail
        <5> QED
          BY <5>1, <5>2, <4>2 DEF pos
      <4> QED
        BY <4>1, <4>2
    <3> QED
      BY <3>2, <3>3, <2>2, <1>3
  <2> QED
    BY <2>1, <2>2
<1>12. [l \in Layers |-> [w \in Seqs |-> View(l, w)]]'
         = [l \in Layers |-> [[w \in Seqs |-> View(l, w)] EXCEPT ![s] =
                                @ \o IF l = layer THEN toks ELSE rest[l]]]
  <2>1. [l \in Layers |-> [w \in Seqs |-> View(l, w)]]'
          = [l \in Layers |-> [w \in Seqs |->
               [p \in 1 .. seq_lengths'[w] |-> kv'[l][SlotOf(page_table_host'[w], p - 1)]]]]
    BY DEF View
  <2>2. [l \in Layers |-> [w \in Seqs |->
               [p \in 1 .. seq_lengths'[w] |-> kv'[l][SlotOf(page_table_host'[w], p - 1)]]]]
          = [l \in Layers |-> [w \in Seqs |->
               IF w = s THEN View(l, s) \o tail(l) ELSE View(l, w)]]
    BY <1>11
  <2>3. \A l \in Layers :
          [[w \in Seqs |-> View(l, w)] EXCEPT ![s] = @ \o IF l = layer THEN toks ELSE rest[l]]
            = [w \in Seqs |-> IF w = s THEN View(l, s) \o tail(l) ELSE View(l, w)]
    BY <1>10
  <2> QED
    BY <2>1, <2>2, <2>3
<1>13. Logical!Reserve(s, n)
  BY <1>1, <1>2, ReserveRefines
<1>14. Own = Logical!Leftovers(s)
  BY DEF Own, Logical!Leftovers, Logical!Own
<1>15. UNCHANGED (late = {})
  BY <1>1
<1>16. \E rest0 \in [Layers \ {layer} -> [1 .. Len(toks) -> Logical!Leftovers(s)]] :
         [l \in Layers |-> [w \in Seqs |-> View(l, w)]]'
           = [l \in Layers |-> [[l0 \in Layers |-> [w \in Seqs |-> View(l0, w)]][l] EXCEPT ![s] =
                                @ \o IF l = layer THEN toks ELSE rest0[l]]]
  <2>1. rest \in [Layers \ {layer} -> [1 .. Len(toks) -> Logical!Leftovers(s)]]
    BY <1>9, <1>14 DEF n
  <2>2. [l \in Layers |-> [w \in Seqs |-> View(l, w)]]'
           = [l \in Layers |-> [[l0 \in Layers |-> [w \in Seqs |-> View(l0, w)]][l] EXCEPT ![s] =
                                @ \o IF l = layer THEN toks ELSE rest[l]]]
    BY <1>12
  <2> QED
    BY <2>1, <2>2
<1>17. Logical!Reserve(s, Len(toks))
  BY <1>13 DEF n
<1> QED
  BY <1>15, <1>16, <1>17, Zenon DEF Logical!AppendTokens

\* kv_reset_kernel blanks the slots of the listed blocks in its layers, nothing else.
LEMMA KvResetExact ==
  ASSUME NEW ls, NEW ids, KvResetBlock(ls, ids), kv \in [Layers -> [Slots -> Contents]]
  PROVE  \A l \in Layers, x \in Slots :
           kv'[l][x] = IF l \in ls /\ \E i \in DOMAIN ids : ids[i] = x \div block_size
                         THEN Blank ELSE kv[l][x]
<1>1. \A l \in Layers :
        kv'[l] = IF l \in ls
                 THEN [y \in Slots |-> IF \E i \in DOMAIN ids : ids[i] = y \div block_size
                                         THEN Blank ELSE kv[l][y]]
                 ELSE kv[l]
  BY DEF KvResetBlock
<1> QED
  BY <1>1

\* The slot of a position of w is in a block of s only if w is s.
LEMMA ResetScope ==
  ASSUME IInv, NEW s \in Seqs, NEW w \in Seqs, NEW p \in 1 .. seq_lengths[w]
  PROVE  (\E i \in DOMAIN seq_blocks[s] :
            seq_blocks[s][i] = SlotOf(page_table_host[w], p - 1) \div block_size) <=> w = s
<1>1. Owns(w, SlotOf(page_table_host[w], p - 1) \div block_size)
  BY ViewPosition
<1>2. ExclusiveOwnership
  BY DEF IInv, Ownership
<1> QED
  BY <1>1, <1>2 DEF Owns, ExclusiveOwnership

\* A reset that returns Ok and was not overtaken is the abstract one, whether its kernels
\* cleared the blocks or the context was lost: no position of another sequence changes.
LEMMA ResetInTimeRefines ==
  ASSUME IInv, NEW s \in Seqs, DropSequence(s), UNCHANGED late,
         KvResetBlock(Layers, seq_blocks[s]) \/ UNCHANGED kv
  PROVE  Logical!Reset(s)
<1>1. /\ DropSequence(s)
      /\ \/ KvResetBlock(Layers, seq_blocks[s])
         \/ UNCHANGED kv
  OBVIOUS
<1>2. /\ seq_blocks' \in [Seqs -> Seq(BM!Blocks)]
      /\ seq_blocks'[s] = <<>>
      /\ \A w \in Seqs \ {s} : seq_blocks'[w] = seq_blocks[w]
      /\ Len(free_list') = Len(free_list) + Len(seq_blocks[s])
  BY <1>1, DropStep DEF IInv
<1>3. /\ seq_lengths' = [seq_lengths EXCEPT ![s] = 0]
      /\ page_table_host' = [page_table_host EXCEPT ![s] = BM!EmptyRow]
  BY <1>1 DEF DropSequence
<1>4. /\ seq_lengths'[s] = 0
      /\ \A w \in Seqs \ {s} : /\ seq_lengths'[w] = seq_lengths[w]
                               /\ page_table_host'[w] = page_table_host[w]
  BY <1>3 DEF IInv, TypeOK
<1>5. kv \in [Layers -> [Slots -> Contents]]
  BY DEF IInv, TypeOK, Contents
<1>6. ASSUME NEW l \in Layers, NEW w \in Seqs \ {s}, NEW p \in 1 .. seq_lengths[w]
      PROVE  kv'[l][SlotOf(page_table_host[w], p - 1)] = kv[l][SlotOf(page_table_host[w], p - 1)]
  <2>1. CASE UNCHANGED kv
    BY <2>1
  <2>2. CASE KvResetBlock(Layers, seq_blocks[s])
    <3>1. PICK x \in Slots : x = SlotOf(page_table_host[w], p - 1)
      BY ViewPosition
    <3>2. ~ \E i \in DOMAIN seq_blocks[s] : seq_blocks[s][i] = x \div block_size
      BY <3>1, ResetScope
    <3>3. \A m \in Layers, y \in Slots :
            kv'[m][y] = IF m \in Layers /\ \E i \in DOMAIN seq_blocks[s] :
                                             seq_blocks[s][i] = y \div block_size
                          THEN Blank ELSE kv[m][y]
      <4>1. seq_blocks[s] \in Seq(BM!Blocks) /\ Layers \in SUBSET Layers
        BY DEF IInv, TypeOK
      <4> QED
        BY <4>1, <2>2, <1>5, KvResetExact
    <3>4. kv'[l][x] = kv[l][x]
      BY <3>2, <3>3
    <3> QED
      BY <3>1, <3>4
  <2> QED
    BY <2>1, <2>2, <1>1
<1>7. ASSUME NEW l \in Layers, NEW w \in Seqs
      PROVE  [p \in 1 .. seq_lengths'[w] |-> kv'[l][SlotOf(page_table_host'[w], p - 1)]]
               = IF w = s THEN <<>> ELSE View(l, w)
  <2>1. CASE w = s
    BY <2>1, <1>4
  <2>2. CASE w # s
    BY <2>2, <1>4, <1>6 DEF View
  <2> QED
    BY <2>1, <2>2
<1>8. [l \in Layers |-> [w \in Seqs |-> View(l, w)]]'
        = [l \in Layers |-> [[w \in Seqs |-> View(l, w)] EXCEPT ![s] = <<>>]]
  <2>1. [l \in Layers |-> [w \in Seqs |-> View(l, w)]]'
          = [l \in Layers |-> [w \in Seqs |->
               [p \in 1 .. seq_lengths'[w] |-> kv'[l][SlotOf(page_table_host'[w], p - 1)]]]]
    BY DEF View
  <2>2. [l \in Layers |-> [w \in Seqs |->
               [p \in 1 .. seq_lengths'[w] |-> kv'[l][SlotOf(page_table_host'[w], p - 1)]]]]
          = [l \in Layers |-> [w \in Seqs |-> IF w = s THEN <<>> ELSE View(l, w)]]
    BY <1>7
  <2>3. \A l \in Layers : [[w \in Seqs |-> View(l, w)] EXCEPT ![s] = <<>>]
                            = [w \in Seqs |-> IF w = s THEN <<>> ELSE View(l, w)]
    OBVIOUS
  <2> QED
    BY <2>1, <2>2, <2>3
<1>9. [w \in Seqs |-> Len(seq_blocks'[w])] = [[w \in Seqs |-> Len(seq_blocks[w])] EXCEPT ![s] = 0]
  <2>1. Len(seq_blocks'[s]) = 0
    BY <1>2
  <2> QED
    BY <2>1, <1>2
<1>10. UNCHANGED (late = {})
  OBVIOUS
<1> QED
  BY <1>2, <1>8, <1>9, <1>10 DEF Logical!Reset, Logical!Release

\* Where slots are only blanked, what a sequence reads back is as it was, or blank.
LEMMA BlankedView ==
  ASSUME IInv, NEW l \in Layers, NEW w \in Seqs,
         seq_lengths'[w] = seq_lengths[w], page_table_host'[w] = page_table_host[w],
         \A x \in Slots : kv'[l][x] \in {kv[l][x], Blank}
  PROVE  Logical!MayWipe(l, w)
<1>1. [m \in Layers |-> [z \in Seqs |-> View(m, z)]][l][w]
        = [p \in 1 .. seq_lengths[w] |-> kv[l][SlotOf(page_table_host[w], p - 1)]]
  BY DEF View
<1>2. [m \in Layers |-> [z \in Seqs |-> View(m, z)]]'[l][w]
        = [p \in 1 .. seq_lengths[w] |-> kv'[l][SlotOf(page_table_host[w], p - 1)]]
  BY DEF View
<1>3. ASSUME NEW p \in 1 .. seq_lengths[w]
      PROVE  kv'[l][SlotOf(page_table_host[w], p - 1)]
               \in {kv[l][SlotOf(page_table_host[w], p - 1)], Blank}
  <2>1. PICK x \in Slots : x = SlotOf(page_table_host[w], p - 1)
    BY ViewPosition
  <2> QED
    BY <2>1
<1> QED
  BY <1>1, <1>2, <1>3 DEF Logical!MayWipe

\* An overtaken reset is the abstract overtaken one.
LEMMA ResetOvertakenRefines ==
  ASSUME IInv, NEW s \in Seqs, DropSequence(s), KvResetLate(Layers, s)
  PROVE  Logical!ResetOvertaken(s)
<1>1. /\ seq_blocks' \in [Seqs -> Seq(BM!Blocks)]
      /\ seq_blocks'[s] = <<>>
      /\ \A w \in Seqs \ {s} : seq_blocks'[w] = seq_blocks[w]
      /\ Len(free_list') = Len(free_list) + Len(seq_blocks[s])
  BY DropStep DEF IInv
<1>2. /\ seq_lengths' = [seq_lengths EXCEPT ![s] = 0]
      /\ page_table_host' = [page_table_host EXCEPT ![s] = BM!EmptyRow]
  BY DEF DropSequence
<1>3. /\ seq_lengths'[s] = 0
      /\ \A w \in Seqs \ {s} : /\ seq_lengths'[w] = seq_lengths[w]
                               /\ page_table_host'[w] = page_table_host[w]
  BY <1>2 DEF IInv, TypeOK
<1>4. /\ \A l \in Layers, x \in Slots : kv'[l][x] \in {kv[l][x], Blank}
      /\ late' # {}
  <2>1. TypeOK /\ Layers \in SUBSET Layers
    BY DEF IInv
  <2> QED
    BY <2>1, KvResetLateStep
<1>5. ASSUME NEW l \in Layers, NEW w \in Seqs
      PROVE  IF w = s THEN [m \in Layers |-> [z \in Seqs |-> View(m, z)]]'[l][w] = <<>>
                      ELSE Logical!MayWipe(l, w)
  <2>1. CASE w = s
    BY <2>1, <1>3 DEF View
  <2>2. CASE w # s
    BY <2>2, <1>3, <1>4, BlankedView
  <2> QED
    BY <2>1, <2>2
<1>6. [w \in Seqs |-> Len(seq_blocks'[w])] = [[w \in Seqs |-> Len(seq_blocks[w])] EXCEPT ![s] = 0]
  <2>1. Len(seq_blocks'[s]) = 0
    BY <1>1
  <2> QED
    BY <2>1, <1>1
<1>7. (late' = {}) = FALSE
  BY <1>4
<1> QED
  BY <1>1, <1>5, <1>6, <1>7 DEF Logical!ResetOvertaken, Logical!Release

\* Every ResetSeq that returns Ok is a reset of the abstract cache.
LEMMA ResetRefines ==
  ASSUME IInv, NEW s \in Seqs, ResetSeqEmpty(s) \/ ResetSeq(s)
  PROVE  Logical!Reset(s) \/ Logical!ResetOvertaken(s)
<1>1. /\ DropSequence(s)
      /\ \/ UNCHANGED late /\ (KvResetBlock(Layers, seq_blocks[s]) \/ UNCHANGED kv)
         \/ KvResetLate(Layers, s)
  BY DEF ResetSeqEmpty, ResetSeq
<1> QED
  BY <1>1, ResetInTimeRefines, ResetOvertakenRefines

\* The calls that are refused before they reserve, and the ones that only touch the
\* device page table or the error state, change nothing the caller can see.
LEMMA StutterRefines ==
  ASSUME UNCHANGED <<free_list, seq_lengths, seq_blocks, page_table_host, kv, late>>
  PROVE  UNCHANGED Logical!vars
<1>1. UNCHANGED [l \in Layers |-> [s \in Seqs |-> View(l, s)]]
  BY SameViews
<1>2. UNCHANGED [w \in Seqs |-> Len(seq_blocks[w])] /\ UNCHANGED Len(free_list)
  OBVIOUS
<1>3. UNCHANGED (late = {})
  OBVIOUS
<1> QED
  BY <1>1, <1>2, <1>3 DEF Logical!vars

\* A reset that reports an error leaves everything as it was, or wipes what layer 0
\* reads back, of s alone or, overtaken, of anybody.
LEMMA ResetFailsRefines ==
  ASSUME IInv, NEW s \in Seqs, ResetSeqFails(s)
  PROVE  Logical!ResetFails(s) \/ Logical!ResetFailsOvertaken \/ UNCHANGED Logical!vars
<1>1. /\ UNCHANGED <<free_list, seq_lengths, seq_blocks, page_table_host>>
      /\ \/ KvResetBlock({0}, seq_blocks[s]) /\ UNCHANGED late
         \/ KvResetLate({0}, s)
         \/ UNCHANGED <<kv, late>>
  BY DEF ResetSeqFails, bmVars
<1>2. CASE UNCHANGED <<kv, late>>
  BY <1>1, <1>2, StutterRefines
<1>4. CASE KvResetLate({0}, s)
  <2>1. 0 \in Layers /\ {0} \in SUBSET Layers /\ TypeOK
    BY CacheAssumption DEF Layers, IInv
  <2>2. PICK ls \in SUBSET Layers : ls = {0}
    BY <2>1
  <2>3. KvResetLate(ls, s)
    BY <1>4, <2>2
  <2>4. /\ \A l \in Layers, x \in Slots : kv'[l][x] \in {kv[l][x], Blank}
        /\ \A l \in Layers \ ls : kv'[l] = kv[l]
        /\ late' # {}
    BY <2>1, <2>3, KvResetLateStep
  <2>5. ASSUME NEW l \in Layers, NEW w \in Seqs
        PROVE  IF l = 0 THEN Logical!MayWipe(l, w)
               ELSE [m \in Layers |-> [z \in Seqs |-> View(m, z)]]'[l][w]
                      = [m \in Layers |-> [z \in Seqs |-> View(m, z)]][l][w]
    <3>1. CASE l = 0
      BY <3>1, <2>4, <1>1, BlankedView
    <3>2. CASE l # 0
      <4>1. kv'[l] = kv[l]
        BY <3>2, <2>2, <2>4
      <4> QED
        BY <3>2, <4>1, <1>1 DEF View
    <3> QED
      BY <3>1, <3>2
  <2>6. (late' = {}) = FALSE
    BY <2>4
  <2>7. UNCHANGED [w \in Seqs |-> Len(seq_blocks[w])] /\ UNCHANGED Len(free_list)
    BY <1>1
  <2> QED
    BY <2>5, <2>6, <2>7 DEF Logical!ResetFailsOvertaken
<1>3. CASE KvResetBlock({0}, seq_blocks[s]) /\ UNCHANGED late
  <2>1. 0 \in Layers /\ {0} \in SUBSET Layers
    BY CacheAssumption DEF Layers
  <2>2. PICK ls \in SUBSET Layers : ls = {0}
    BY <2>1
  <2>3. ASSUME NEW m \in Layers, NEW y \in Slots
        PROVE  kv'[m][y] = IF m \in ls /\ \E i \in DOMAIN seq_blocks[s] :
                                            seq_blocks[s][i] = y \div block_size
                             THEN Blank ELSE kv[m][y]
    <3>1. seq_blocks[s] \in Seq(BM!Blocks) /\ kv \in [Layers -> [Slots -> Contents]]
      BY DEF IInv, TypeOK, Contents
    <3>2. KvResetBlock(ls, seq_blocks[s])
      BY <1>3, <2>2
    <3> QED
      BY <3>1, <3>2, KvResetExact
  <2>4. ASSUME NEW l \in Layers, NEW w \in Seqs, NEW p \in 1 .. seq_lengths[w]
        PROVE  kv'[l][SlotOf(page_table_host[w], p - 1)]
                 = IF l = 0 /\ w = s THEN Blank ELSE kv[l][SlotOf(page_table_host[w], p - 1)]
    <3>1. PICK x \in Slots : x = SlotOf(page_table_host[w], p - 1)
      BY ViewPosition
    <3>2. (\E i \in DOMAIN seq_blocks[s] : seq_blocks[s][i] = x \div block_size) <=> w = s
      BY <3>1, ResetScope
    <3>3. kv'[l][x] = IF l = 0 /\ w = s THEN Blank ELSE kv[l][x]
      BY <3>2, <2>2, <2>3
    <3> QED
      BY <3>1, <3>3
  <2>5. ASSUME NEW l \in Layers, NEW w \in Seqs
        PROVE  [p \in 1 .. seq_lengths'[w] |-> kv'[l][SlotOf(page_table_host'[w], p - 1)]]
                 = IF l = 0 /\ w = s THEN [p \in DOMAIN View(0, s) |-> Blank] ELSE View(l, w)
    <3>1. DOMAIN View(0, s) = 1 .. seq_lengths[s]
      BY DEF View
    <3>2. CASE l = 0 /\ w = s
      BY <3>1, <3>2, <2>4, <1>1
    <3>3. CASE ~(l = 0 /\ w = s)
      BY <3>3, <2>4, <1>1 DEF View
    <3> QED
      BY <3>2, <3>3
  <2>6. [l \in Layers |-> [w \in Seqs |-> View(l, w)]]'
          = [l \in Layers |-> [w \in Seqs |->
               [p \in 1 .. seq_lengths'[w] |-> kv'[l][SlotOf(page_table_host'[w], p - 1)]]]]
    BY DEF View
  <2>7. [l \in Layers |-> [w \in Seqs |->
               [p \in 1 .. seq_lengths'[w] |-> kv'[l][SlotOf(page_table_host'[w], p - 1)]]]]
          = [l \in Layers |-> [w \in Seqs |->
               IF l = 0 /\ w = s THEN [p \in DOMAIN View(0, s) |-> Blank] ELSE View(l, w)]]
    BY <2>5
  <2>8. [[l \in Layers |-> [w \in Seqs |-> View(l, w)]] EXCEPT ![0][s] =
           [p \in DOMAIN @ |-> Blank]]
          = [l \in Layers |-> [w \in Seqs |->
               IF l = 0 /\ w = s THEN [p \in DOMAIN View(0, s) |-> Blank] ELSE View(l, w)]]
    BY <2>1
  <2> QED
    <3>1. UNCHANGED (late = {})
      BY <1>3
    <3> QED
      BY <3>1, <2>6, <2>7, <2>8, <1>1 DEF Logical!ResetFails
<1> QED
  BY <1>1, <1>2, <1>3, <1>4

\* Every step of the cache is a step of LogicalCache, or invisible in it.
LEMMA NextRefines ==
  ASSUME IInv, IInv', Next
  PROVE  Logical!Next \/ UNCHANGED Logical!vars
<1>1. ASSUME NEW s \in Seqs, NEW n \in 1 .. MaxAppend, AppendTokensRefused(s, n)
      PROVE  UNCHANGED Logical!vars
  BY <1>1, StutterRefines DEF AppendTokensRefused, BM!AllocationFails, BM!pool
<1>2. ASSUME NEW s \in Seqs, NEW n \in 1 .. MaxAppend,
             AppendTokensNoBuffer(s, n) \/ AppendTokensRejected(s, n)
      PROVE  Logical!AppendFails(s, n)
  <2>1. Reserve(s, n) /\ UNCHANGED <<seq_lengths, late>> /\ UNCHANGED kv
    BY <1>2, Zenon DEF AppendTokensNoBuffer, AppendTokensRejected
  <2>2. n \in Nat
    BY CacheBoundAssumption
  <2> QED
    BY <2>1, <2>2, FailedAppendRefines
<1>3. ASSUME NEW s \in Seqs, NEW layer \in Layers, NEW toks \in Batches(s),
             AppendTokens(s, layer, toks)
      PROVE  Logical!AppendTokens(s, layer, toks)
  BY <1>3, AppendRefines
<1>4. ASSUME NEW s \in Seqs, NEW layer \in Layers, NEW toks \in Batches(s),
             AppendTokensLaunchFails(s, layer, toks)
      PROVE  Logical!AppendFails(s, Len(toks))
  <2>1. /\ Reserve(s, Len(toks)) /\ UNCHANGED <<seq_lengths, late>>
        /\ KvAppend(layer, UploadedSlots(s, Len(toks)), toks) \/ UNCHANGED kv
    BY <1>4 DEF AppendTokensLaunchFails
  <2>2. Len(toks) \in Nat
    BY BatchLength
  <2>3. \A l \in Layers, w \in Seqs : \A p \in 1 .. seq_lengths[w] :
          kv'[l][SlotOf(page_table_host[w], p - 1)] = kv[l][SlotOf(page_table_host[w], p - 1)]
    <3>1. CASE UNCHANGED kv
      BY <3>1
    <3>2. CASE KvAppend(layer, UploadedSlots(s, Len(toks)), toks)
      BY <3>2, <2>1, AppendExact
    <3> QED
      BY <3>1, <3>2, <2>1
  <2> QED
    BY <2>1, <2>2, <2>3, FailedAppendRefines
<1>5. ASSUME NEW s \in Seqs, NEW toks \in Batches(s)
      PROVE  Len(toks) \in 1 .. MaxAppend /\ toks \in [1 .. Len(toks) -> Logical!Own(s)]
  <2>1. PICK n \in 1 .. MaxAppend : toks \in [1 .. n -> {s} \X Vals]
    BY DEF Batches
  <2>2. n \in Nat
    BY CacheBoundAssumption
  <2>3. Len(toks) = n
    BY <2>1, <2>2, FcnIsSeq
  <2> QED
    BY <2>1, <2>3 DEF Logical!Own
<1>6. CASE \E s \in Seqs, n \in 1 .. MaxAppend :
             \/ AppendTokensRefused(s, n)
             \/ AppendTokensNoBuffer(s, n)
             \/ AppendTokensRejected(s, n)
  BY <1>1, <1>2, <1>6 DEF Logical!Next
<1>7. CASE \E s \in Seqs : \E layer \in Layers, toks \in Batches(s) :
             \/ AppendTokens(s, layer, toks)
             \/ AppendTokensLaunchFails(s, layer, toks)
  <2>0. PICK s \in Seqs : \E layer \in Layers, toks \in Batches(s) :
          AppendTokens(s, layer, toks) \/ AppendTokensLaunchFails(s, layer, toks)
    BY <1>7
  <2>1. PICK layer \in Layers, toks \in Batches(s) :
          AppendTokens(s, layer, toks) \/ AppendTokensLaunchFails(s, layer, toks)
    BY <2>0
  <2>2. CASE AppendTokens(s, layer, toks)
    <3>1. Logical!AppendTokens(s, layer, toks)
      BY <2>2, <1>3
    <3>2. \E n \in 1 .. MaxAppend : \E b \in [1 .. n -> Logical!Own(s)] : b = toks
      BY <1>5
    <3> QED
      BY <3>1, <3>2 DEF Logical!Next
  <2>3. CASE AppendTokensLaunchFails(s, layer, toks)
    BY <2>3, <1>4, <1>5 DEF Logical!Next
  <2> QED
    BY <2>1, <2>2, <2>3
<1>8. CASE \E s \in Seqs : ResetSeqEmpty(s) \/ ResetSeq(s) \/ ResetSeqFails(s)
  BY <1>8, ResetRefines, ResetFailsRefines DEF Logical!Next
<1>9. CASE SyncPageTable \/ ForceSyncPageTable \/ ForeignCudaError
  BY <1>9, StutterRefines DEF SyncPageTable, ForceSyncPageTable, ForeignCudaError, bmVars
<1> QED
  BY <1>6, <1>7, <1>8, <1>9 DEF Next

\* Create yields an empty log and a full pool.
LEMMA InitRefines == Init => Logical!Init
<1> SUFFICES ASSUME Init
             PROVE  Logical!Init
  OBVIOUS
<1>1. \A w \in Seqs : seq_lengths[w] = 0 /\ Len(seq_blocks[w]) = 0
  BY DEF Init
<1>2. Len(free_list) = num_blocks
  <2>1. free_list = [i \in 1 .. num_blocks |-> num_blocks - i]
    BY DEF Init, BM!Init
  <2>2. free_list \in [1 .. num_blocks -> Int]
    BY <2>1, Geometry
  <2> QED
    BY <2>2, Geometry, FcnIsSeq
<1>3. \A l \in Layers, w \in Seqs : View(l, w) = <<>>
  BY <1>1 DEF View
<1>4. late = {}
  BY DEF Init
<1> QED
  BY <1>1, <1>2, <1>3, <1>4 DEF Logical!Init

-----------------------------------------------------------------------------
\* A read keeps the invariant: all it changes is the error state.
LEMMA ReadDeviceIInv ==
  ASSUME IInv, UNCHANGED cacheState,
         LaunchRaw \/ cuda_error' \in MaybeStale(TRUE) \/ cuda_error' = "lost"
  PROVE  IInv'
<1>1. /\ UNCHANGED <<bmVars, seq_lengths, seq_blocks, page_table_host, revision, counters,
                     slotBuffer>>
      /\ UNCHANGED pageTable /\ UNCHANGED <<kv, late>>
  BY DEF cacheState
<1>2. TypeOK
  BY DEF IInv
<1>3. cuda_error' \in {"none", "stale", "lost"} /\ (KernelRuns' => KernelRuns)
  <2>1. CASE cuda_error' = "lost"
    BY <2>1 DEF KernelRuns
  <2> QED
    BY <2>1, <1>2, ErrorStates
<1>4. kv' \in [Layers -> [Slots -> Tokens \union {Blank}]] /\ late' \subseteq Overtaken
  BY <1>1, <1>2 DEF TypeOK
<1> QED
  BY <1>1, <1>3, <1>4, HostUnchangedIInv

\* Reads are not seen by the abstract cache.
LEMMA ReadsIInv ==
  ASSUME IInv, RunPaged \/ Gather
  PROVE  IInv' /\ UNCHANGED Logical!vars
<1>1. ReadDevice
  BY DEF RunPaged, Gather
<1>2. UNCHANGED <<bmVars, seq_lengths, seq_blocks, page_table_host, kv, late>>
  BY <1>1 DEF ReadDevice, cacheState
<1>3. UNCHANGED Logical!vars
  BY <1>2, StutterRefines DEF bmVars
<1> QED
  BY <1>1, <1>3, ReadDeviceIInv DEF ReadDevice

\* With readers interleaved the cache's invariant still holds.
LEMMA ReadsSpecIInv == ReadsSpec => []IInv
<1>1. IInv /\ [ReadsNext]_vars => IInv'
  BY NextIInv, ReadsIInv DEF ReadsNext
<1> QED
  BY <1>1, InitIInv, PTL DEF ReadsSpec

\* With attention and gather calls interleaved the cache implements LogicalCache: every
\* append, failed append, reset and failed reset is the one its caller is promised.
THEOREM CacheImplementsLogicalCache == ReadsSpec => ImplementsLogicalCache
<1>1. ASSUME IInv, IInv', [ReadsNext]_vars
      PROVE  [Logical!Next]_Logical!vars
  <2>1. CASE Next
    BY <2>1, <1>1, NextRefines
  <2>2. CASE RunPaged \/ Gather
    BY <2>2, <1>1, ReadsIInv
  <2>3. CASE UNCHANGED vars
    BY <2>3, StutterRefines DEF vars, bmVars
  <2> QED
    BY <2>1, <2>2, <2>3, <1>1 DEF ReadsNext
<1> QED
  BY <1>1, InitRefines, ReadsSpecIInv, PTL DEF ReadsSpec, ImplementsLogicalCache, Logical!Spec

\* Gathering the blocks of a sequence returns its tokens in position order, and behind
\* them nothing that belongs to another sequence.
THEOREM GatherReturnsViewHolds == ReadsSpec => []GatherReturnsView
<1>1. ASSUME IInv
      PROVE  GatherReturnsView
  <2> SUFFICES ASSUME KernelRuns, NEW l \in Layers, NEW s \in Seqs
               PROVE  /\ \A p \in 1 .. seq_lengths[s] :
                           Gathered(l, seq_blocks[s])[p] = View(l, s)[p]
                      /\ late = {} => \A x \in DOMAIN Gathered(l, seq_blocks[s]) :
                           Gathered(l, seq_blocks[s])[x] # Blank
                             => Gathered(l, seq_blocks[s])[x][1] = s
    BY DEF GatherReturnsView
  <2> DEFINE own == seq_blocks[s]
             got == Gathered(l, own)
  <2>1. /\ own \in Seq(BM!Blocks) /\ Len(own) \in Nat /\ DOMAIN own = 1 .. Len(own)
        /\ page_table_host[s] = Padded(own) /\ seq_lengths[s] \in Nat
        /\ seq_lengths[s] <= Len(own) * block_size
        /\ TypeOK /\ Ownership /\ NoCrossTalk
    BY <1>1 DEF IInv, TypeOK, Ownership, RowsAgree, LengthCovered
  <2>2. Len(own) <= num_blocks
    BY <2>1, OwnedAndFree, Geometry
  <2>3. Len(own) * block_size \in Nat
    BY <2>1, Geometry
  <2>4. ASSUME NEW x \in 1 .. Len(own) * block_size
        PROVE  /\ SlotOf(page_table_host[s], x - 1) \in Slots
               /\ Owns(s, SlotOf(page_table_host[s], x - 1) \div block_size)
               /\ got[x] = kv[l][SlotOf(page_table_host[s], x - 1)]
    <3>1. PICK y \in Nat : y = x - 1 /\ y < Len(own) * block_size
      BY <2>3
    <3>2. /\ y \div block_size + 1 \in DOMAIN own
          /\ own[y \div block_size + 1] \in BM!Blocks
          /\ SlotOf(Padded(own), y) = own[y \div block_size + 1] * block_size + (y % block_size)
          /\ SlotOf(Padded(own), y) \in Slots
          /\ SlotOf(Padded(own), y) \div block_size = own[y \div block_size + 1]
      BY <3>1, <2>1, <2>2, SlotOfOwned
    <3>3. got[x] = kv[l][own[y \div block_size + 1] * block_size + (y % block_size)]
      BY <3>1, <3>2 DEF Gathered
    <3> QED
      BY <3>1, <3>2, <3>3, <2>1 DEF Owns
  <2>5. DOMAIN got = 1 .. Len(own) * block_size
    BY DEF Gathered
  <2> HIDE DEF got, own
  <2>6. ASSUME NEW p \in 1 .. seq_lengths[s]
        PROVE  got[p] = View(l, s)[p]
    <3>1. p \in 1 .. Len(own) * block_size
      BY <2>1, <2>3
    <3> QED
      BY <3>1, <2>4 DEF View
  <2>7. ASSUME late = {}, NEW x \in DOMAIN got, got[x] # Blank
        PROVE  got[x][1] = s
    <3>1. PICK y \in Slots : y = SlotOf(page_table_host[s], x - 1)
                             /\ Owns(s, y \div block_size) /\ got[x] = kv[l][y]
      BY <2>4, <2>5
    <3>2. kv[l][y] \in ({s} \X Vals) \union {Blank}
      BY <3>1, <2>1, <2>7, OwnSlots
    <3> QED
      BY <3>1, <3>2, <2>7
  <2> QED
    BY <2>6, <2>7 DEF got, own
<1> QED
  BY <1>1, ReadsSpecIInv, PTL

\* The invariants of the cache hold while attention and gather calls are interleaved:
\* a read that fails leaves an error behind, and nothing else.
THEOREM CacheInvariantsWithReaders ==
  ReadsSpec => [](/\ TypeOK /\ Ownership /\ LengthCovered
                  /\ DevicePageTableFresh /\ NoCrossTalk)
<1>1. IInv => /\ TypeOK /\ Ownership /\ LengthCovered
              /\ DevicePageTableFresh /\ NoCrossTalk
  BY DEF IInv
<1> QED
  BY <1>1, ReadsSpecIInv, PTL

-----------------------------------------------------------------------------
\* A call gets at least one split.
LEMMA SplitsPositive ==
  ASSUME NEW q \in RequestType
  PROVE  SplitsOf(q) \in Nat \ {0}
<1>1. /\ kTokensPerSplit \in Nat \ {0} /\ kMaxSplits \in Nat \ {0} /\ sm_count \in Nat
      /\ q.num_splits \in Nat /\ q.block_size \in Nat
  BY ReadAssumption DEF RequestType
<1>2. num_blocks * BlockSizeOf(q) \in Nat
  BY <1>1, Geometry DEF BlockSizeOf
<1>3. PICK n \in Nat : n = num_blocks * BlockSizeOf(q)
  BY <1>2
<1>4. ASSUME n > 0
      PROVE  (n + kTokensPerSplit - 1) \div kTokensPerSplit \in Nat \ {0}
  <2>1. PICK x \in Nat : x = n + kTokensPerSplit - 1
    BY <1>1, <1>4
  <2>2. /\ x \div kTokensPerSplit \in Nat /\ x % kTokensPerSplit \in 0 .. kTokensPerSplit - 1
        /\ x = kTokensPerSplit * (x \div kTokensPerSplit) + (x % kTokensPerSplit)
    BY <1>1, DivMod
  <2>3. x \div kTokensPerSplit # 0
    BY <1>1, <1>4, <2>1, <2>2
  <2> QED
    BY <2>1, <2>2, <2>3
<1>5. SK!SplitsFor(n, sm_count) \in Nat \ {0}
  <2>1. CASE n = 0
    BY <2>1 DEF SK!SplitsFor
  <2>2. CASE n > 0
    <3>1. PICK c \in Nat \ {0} : c = (n + kTokensPerSplit - 1) \div kTokensPerSplit
      BY <2>2, <1>4
    <3>2. SK!SplitsFor(n, sm_count)
            = SK!Least(SK!Least(c, IF sm_count > 0 THEN sm_count * 2 ELSE kMaxSplits), kMaxSplits)
      BY <2>2, <3>1 DEF SK!SplitsFor
    <3> QED
      BY <1>1, <3>2 DEF SK!Least
  <2> QED
    BY <2>1, <2>2
<1> QED
  BY <1>1, <1>3, <1>5 DEF SplitsOf, SK!ResolveSplits, SK!Least

\* The splits partition the tokens.
LEMMA SplitsPartition ==
  ASSUME NEW n \in Nat, NEW m \in Nat \ {0}
  PROVE  /\ \A j \in 0 .. n - 1 : \E k \in 0 .. m - 1 : j \in SK!SplitTokens(k, n, m)
         /\ \A k \in 0 .. m - 1 : SK!SplitTokens(k, n, m) \subseteq 0 .. n - 1
         /\ \A k, i \in 0 .. m - 1 : \A j \in SK!SplitTokens(k, n, m) :
              j \in SK!SplitTokens(i, n, m) => k = i
<1>1. (n + m - 1) \div m \in Nat
  BY DivMod
<1>2. PICK c \in Nat : c = (n + m - 1) \div m
  BY <1>1
<1>3. SK!Chunk(n, m) = c
  BY <1>2 DEF SK!Chunk
<1>4. ASSUME NEW k \in 0 .. m - 1, NEW j
      PROVE  j \in SK!SplitTokens(k, n, m) <=>
               j \in Int /\ k * c <= j /\ j < k * c + c /\ j < n
  <2>1. PICK a \in Nat : a = k * c
    OBVIOUS
  <2> QED
    BY <1>3, <2>1 DEF SK!SplitTokens, SK!Least
<1>5. ASSUME NEW j \in 0 .. n - 1
      PROVE  \E k \in 0 .. m - 1 : j \in SK!SplitTokens(k, n, m)
  <2>1. PICK k \in 0 .. m - 1 : k * c <= j /\ j < k * c + c
    BY <1>2, ChunksCover
  <2> QED
    BY <2>1, <1>4
<1>6. ASSUME NEW k \in 0 .. m - 1, NEW j \in SK!SplitTokens(k, n, m)
      PROVE  j \in 0 .. n - 1
  <2>1. j \in Int /\ k * c <= j /\ j < n
    BY <1>4
  <2>2. k * c \in Nat
    OBVIOUS
  <2> QED
    BY <2>1, <2>2
<1>7. ASSUME NEW k \in 0 .. m - 1, NEW i \in 0 .. m - 1, NEW j \in SK!SplitTokens(k, n, m),
             j \in SK!SplitTokens(i, n, m)
      PROVE  k = i
  <2>1. j \in Int /\ k * c <= j /\ j < k * c + c /\ i * c <= j /\ j < i * c + c
    BY <1>4, <1>7
  <2> QED
    BY <2>1, OneChunk
<1> QED
  BY <1>5, <1>6, <1>7

\* While the device page table is current the kernel finds every token of a sequence at
\* its slot, and behind the last token nothing but slots of the sequence's own blocks.
LEMMA TokenRow ==
  ASSUME IInv, PageTableCurrent, NEW q \in RequestType, OwnGeometry(q), NEW s \in Seqs,
         NEW j \in 0 .. num_blocks * block_size - 1
  PROVE  /\ j < seq_lengths[s] => RowRead(q, s, j) = SlotOf(page_table_host[s], j)
         /\ j < seq_lengths[s] => RowRead(q, s, j) >= 0
         /\ RowRead(q, s, j) >= 0 => /\ j < Len(seq_blocks[s]) * block_size
                                     /\ RowRead(q, s, j) = SlotOf(page_table_host[s], j)
<1> DEFINE own == seq_blocks[s]
           i == j \div block_size + 1
           b == page_table_device[s][i]
<1>1. /\ own \in Seq(BM!Blocks) /\ Len(own) \in Nat /\ DOMAIN own = 1 .. Len(own)
      /\ page_table_host[s] = Padded(own) /\ seq_lengths[s] \in Nat
      /\ seq_lengths[s] <= Len(own) * block_size
      /\ TypeOK /\ Ownership /\ DevicePageTableFresh
      /\ page_table_device[s] \in [BM!Columns -> BM!BlockIds]
  BY DEF IInv, TypeOK, Ownership, RowsAgree, LengthCovered
<1>2. Len(own) <= num_blocks
  BY <1>1, OwnedAndFree, Geometry
<1>3. j \in Nat /\ i \in BM!Columns /\ j \div block_size < num_blocks
  <2>1. j \div block_size \in 0 .. num_blocks - 1
    BY Geometry, DivBelow
  <2> QED
    BY <2>1, Geometry
<1>4. b \in -1 .. num_blocks
  BY <1>1, <1>3, Geometry
<1>5. RowRead(q, s, j) = IF b < 0 \/ b >= num_blocks THEN -1
                         ELSE b * block_size + (j % block_size)
  <2>1. BlockSizeOf(q) = block_size /\ MaxBlocksOf(q) = num_blocks
    BY Geometry DEF OwnGeometry
  <2>2. SK!PageTableLookup(page_table_device[s], j, block_size, num_blocks) = b
    <3>1. ~(j \div block_size >= num_blocks)
      BY <1>3, Geometry, DivMod
    <3> QED
      BY <3>1 DEF SK!PageTableLookup
  <2> HIDE DEF b
  <2> QED
    BY <2>1, <2>2 DEF RowRead, SK!PageTableRow
<1>6. /\ \A x \in BM!Columns : x <= CeilDiv(seq_lengths[s], block_size) =>
           page_table_device[s][x] = own[x]
      /\ \A x \in BM!Columns : page_table_device[s][x] # BM!Empty =>
           page_table_device[s][x] = page_table_host[s][x]
  BY <1>1 DEF DevicePageTableFresh, PageTableCurrent
<1>7. ASSUME j < seq_lengths[s]
      PROVE  RowRead(q, s, j) = SlotOf(page_table_host[s], j) /\ RowRead(q, s, j) >= 0
  <2>1. Len(own) * block_size \in Nat /\ j < Len(own) * block_size
    <3>1. PICK L \in Nat, m \in Nat : L = Len(own) /\ m = seq_lengths[s]
      BY <1>1, Zenon
    <3>2. L * block_size \in Nat
      BY <3>1, Geometry
    <3>3. m <= L * block_size /\ j < m
      BY <3>1, <1>1, <1>7, Zenon
    <3>4. j < L * block_size
      BY <3>1, <3>2, <3>3, <1>3
    <3> QED
      BY <3>1, <3>2, <3>4, Zenon
  <2>2. /\ i \in DOMAIN own /\ own[i] \in BM!Blocks
        /\ SlotOf(Padded(own), j) = own[i] * block_size + (j % block_size)
        /\ SlotOf(Padded(own), j) \in Slots
    BY <1>1, <1>2, <1>3, <2>1, SlotOfOwned
  <2>3. i <= CeilDiv(seq_lengths[s], block_size)
    <3>1. /\ CeilDiv(seq_lengths[s], block_size) \in Nat
          /\ seq_lengths[s] <= CeilDiv(seq_lengths[s], block_size) * block_size
      BY <1>1, CeilDivFacts
    <3>2. PICK c \in Nat : c = CeilDiv(seq_lengths[s], block_size)
      BY <3>1
    <3>3. c * block_size \in Nat /\ j < c * block_size
      <4>1. PICK m \in Nat : m = seq_lengths[s]
        BY <1>1, Zenon
      <4>2. c * block_size \in Nat
        BY <3>2, Geometry
      <4>3. m <= c * block_size /\ j < m
        BY <4>1, <3>1, <3>2, <1>7, Zenon
      <4> QED
        BY <4>1, <4>2, <4>3, <1>3
    <3>4. i \in 1 .. c
      BY <1>3, <3>3, BlockOfPosition
    <3> QED
      BY <3>2, <3>4
  <2>4. b = own[i]
    BY <1>3, <1>6, <2>3
  <2>5. b \in 0 .. num_blocks - 1
    BY <2>2, <2>4, Geometry
  <2>6. RowRead(q, s, j) = b * block_size + (j % block_size)
    <3>1. ~(b < 0 \/ b >= num_blocks)
      BY <2>5, Geometry
    <3> HIDE DEF b
    <3> QED
      BY <1>5, <3>1
  <2>7. RowRead(q, s, j) = SlotOf(page_table_host[s], j)
    BY <1>1, <2>2, <2>4, <2>6
  <2>8. SlotOf(page_table_host[s], j) >= 0
    BY <1>1, <2>2 DEF Slots
  <2> QED
    BY <2>7, <2>8
<1>8. ASSUME RowRead(q, s, j) >= 0
      PROVE  j < Len(own) * block_size /\ RowRead(q, s, j) = SlotOf(page_table_host[s], j)
  <2>1. b \in 0 .. num_blocks - 1 /\ RowRead(q, s, j) = b * block_size + (j % block_size)
    BY <1>4, <1>5, <1>8, Geometry
  <2>2. b = page_table_host[s][i]
    <3>1. b # BM!Empty
      BY <2>1, Geometry
    <3> QED
      BY <3>1, <1>3, <1>6
  <2>3. i <= Len(own)
    <3>1. page_table_host[s][i] = IF i <= Len(own) THEN own[i] ELSE -1
      BY <1>1, <1>3, Geometry DEF Padded
    <3> QED
      BY <3>1, <2>1, <2>2
  <2>4. j < Len(own) * block_size
    <3>1. /\ j \div block_size \in Nat /\ j % block_size \in 0 .. block_size - 1
          /\ j = block_size * (j \div block_size) + (j % block_size)
      BY <1>3, Geometry, DivMod
    <3>2. PICK k \in Nat, m \in 0 .. block_size - 1 : k = j \div block_size /\ j = block_size * k + m
      BY <3>1
    <3>3. k + 1 <= Len(own)
      BY <2>3, <3>2
    <3>4. PICK L \in Nat : L = Len(own)
      BY <1>1
    <3>5. /\ block_size * (k + 1) <= L * block_size
          /\ block_size * (k + 1) = block_size * k + block_size
      BY <3>3, <3>4, Geometry
    <3>6. block_size * k \in Nat /\ block_size * (k + 1) \in Nat /\ L * block_size \in Nat
      BY <3>2, <3>4, Geometry
    <3>7. j < L * block_size
      BY <3>2, <3>5, <3>6, Geometry
    <3> QED
      BY <3>4, <3>7
  <2> QED
    BY <2>1, <2>2, <2>4 DEF SlotOf
<1> QED
  BY <1>7, <1>8

\* The terms of a call over n tokens.
LEMMA TermsOf ==
  ASSUME NEW q \in RequestType, NEW s \in Seqs, NEW n \in Nat
  PROVE  /\ \A j \in 0 .. n - 1 : RowRead(q, s, j) >= 0 =>
              \E x \in TermsRead(q, s, n) : x.token = j /\ x.read = RowRead(q, s, j)
         /\ \A x \in TermsRead(q, s, n) : /\ x.token \in 0 .. n - 1
                                          /\ x.read = RowRead(q, s, x.token) /\ x.read >= 0
         /\ \A x, y \in TermsRead(q, s, n) : x.token = y.token => x = y
<1>1. PICK m \in Nat \ {0} : m = SplitsOf(q)
  BY SplitsPositive
<1>2. ASSUME NEW x
      PROVE  x \in TermsRead(q, s, n) <=>
               \E k \in 0 .. m - 1 : \E j \in SK!SplitTokens(k, n, m) :
                 /\ RowRead(q, s, j) >= 0
                 /\ x = [split |-> k, token |-> j, read |-> RowRead(q, s, j)]
  BY <1>1 DEF TermsRead, SplitTerms
<1>3. ASSUME NEW j \in 0 .. n - 1, RowRead(q, s, j) >= 0
      PROVE  \E x \in TermsRead(q, s, n) : x.token = j /\ x.read = RowRead(q, s, j)
  <2>1. PICK k \in 0 .. m - 1 : j \in SK!SplitTokens(k, n, m)
    BY SplitsPartition
  <2> DEFINE x == [split |-> k, token |-> j, read |-> RowRead(q, s, j)]
  <2>2. x \in TermsRead(q, s, n)
    BY <1>2, <1>3, <2>1
  <2>3. x.token = j /\ x.read = RowRead(q, s, j)
    OBVIOUS
  <2> QED
    BY <2>2, <2>3
<1>4. ASSUME NEW x \in TermsRead(q, s, n)
      PROVE  x.token \in 0 .. n - 1 /\ x.read = RowRead(q, s, x.token) /\ x.read >= 0
  <2>1. PICK k \in 0 .. m - 1 : \E j \in SK!SplitTokens(k, n, m) :
          /\ RowRead(q, s, j) >= 0
          /\ x = [split |-> k, token |-> j, read |-> RowRead(q, s, j)]
    BY <1>2
  <2>2. PICK j \in SK!SplitTokens(k, n, m) :
          /\ RowRead(q, s, j) >= 0
          /\ x = [split |-> k, token |-> j, read |-> RowRead(q, s, j)]
    BY <2>1
  <2>3. j \in 0 .. n - 1
    BY SplitsPartition
  <2> QED
    BY <2>2, <2>3
<1>5. ASSUME NEW x \in TermsRead(q, s, n), NEW y \in TermsRead(q, s, n), x.token = y.token
      PROVE  x = y
  <2>1. PICK k \in 0 .. m - 1 : \E j \in SK!SplitTokens(k, n, m) :
          x = [split |-> k, token |-> j, read |-> RowRead(q, s, j)]
    BY <1>2
  <2>2. PICK j \in SK!SplitTokens(k, n, m) :
          x = [split |-> k, token |-> j, read |-> RowRead(q, s, j)]
    BY <2>1
  <2>3. PICK l \in 0 .. m - 1 : \E i \in SK!SplitTokens(l, n, m) :
          y = [split |-> l, token |-> i, read |-> RowRead(q, s, i)]
    BY <1>2
  <2>4. PICK i \in SK!SplitTokens(l, n, m) :
          y = [split |-> l, token |-> i, read |-> RowRead(q, s, i)]
    BY <2>3
  <2>5. i = j
    BY <1>5, <2>2, <2>4
  <2>6. k = l
    BY <2>5, SplitsPartition
  <2> QED
    BY <2>2, <2>4, <2>5, <2>6
<1> QED
  BY <1>3, <1>4, <1>5

\* The terms of a call over n tokens of s that the cache holds: each token once, read
\* from the slot it was appended to.
LEMMA ReadsOwnSlots ==
  ASSUME IInv, PageTableCurrent, NEW q \in RequestType, OwnGeometry(q), NEW s \in Seqs,
         NEW n \in 0 .. seq_lengths[s]
  PROVE  SK!EachOnce(TermsRead(q, s, n), [j \in 0 .. n - 1 |-> SlotOf(page_table_host[s], j)])
<1>1. seq_lengths[s] \in Nat /\ n \in Nat /\ n <= seq_lengths[s]
  BY DEF IInv, TypeOK
<1>2. seq_lengths[s] <= num_blocks * block_size /\ num_blocks * block_size \in Nat
  <2>0. /\ Len(seq_blocks[s]) \in Nat /\ Len(free_list) \in Nat
        /\ Len(seq_blocks[s]) + Len(free_list) <= num_blocks
    BY OwnedAndFree DEF IInv
  <2>1. PICK L \in Nat : L = Len(seq_blocks[s]) /\ L <= num_blocks
    <3>1. num_blocks \in Nat
      BY Geometry
    <3>2. PICK a \in Nat, b \in Nat : a = Len(seq_blocks[s]) /\ b = Len(free_list)
      BY <2>0, Zenon
    <3>3. a <= num_blocks
      BY <2>0, <3>1, <3>2
    <3> QED
      BY <3>2, <3>3, Zenon
  <2>2. seq_lengths[s] <= L * block_size
    BY <2>1 DEF IInv, LengthCovered
  <2>3. L * block_size \in Nat /\ L * block_size <= num_blocks * block_size
    BY <2>1, Geometry
  <2>4. num_blocks * block_size \in Nat
    BY Geometry
  <2> QED
    BY <2>2, <2>3, <2>4, <1>1
<1>3. ASSUME NEW j \in 0 .. n - 1
      PROVE  RowRead(q, s, j) >= 0 /\ RowRead(q, s, j) = SlotOf(page_table_host[s], j)
  <2>1. j \in 0 .. num_blocks * block_size - 1 /\ j < seq_lengths[s]
    BY <1>1, <1>2
  <2> QED
    BY <2>1, TokenRow
<1> DEFINE terms == TermsRead(q, s, n)
           expected == [j \in 0 .. n - 1 |-> SlotOf(page_table_host[s], j)]
<1>4. \A j \in 0 .. n - 1 : \E x \in terms : x.token = j
  BY <1>1, <1>3, TermsOf
<1>5. \A x \in terms : x.token \in 0 .. n - 1 /\ x.read = RowRead(q, s, x.token)
  BY <1>1, TermsOf
<1>6. \A x, y \in terms : x.token = y.token => x = y
  BY <1>1, TermsOf
<1> HIDE DEF terms
<1>7. \A x \in terms : x.read = expected[x.token]
  BY <1>3, <1>5
<1> QED
  BY <1>4, <1>5, <1>6, <1>7 DEF SK!EachOnce, terms

\* paged_attention with seq_lens sums up every token of the sequence, each once and read
\* from the slot it was appended to, for every number of splits.
THEOREM AttendsOwnTokensHolds == ReadsSpec => []AttendsOwnTokens
<1>1. ASSUME IInv
      PROVE  AttendsOwnTokens
  <2> SUFFICES ASSUME PageTableCurrent, NEW q \in Requests, NEW s \in Seqs, OwnGeometry(q),
                      NEW n \in 1 .. seq_lengths[s]
               PROVE  SK!EachOnce(TermsRead(q, s, n),
                                  [j \in 0 .. n - 1 |-> SlotOf(page_table_host[s], j)])
    BY DEF AttendsOwnTokens
  <2>1. q \in RequestType /\ seq_lengths[s] \in Nat
    BY <1>1, ReadAssumption DEF IInv, TypeOK
  <2>2. n \in 0 .. seq_lengths[s]
    BY <2>1
  <2> QED
    BY <1>1, <2>1, <2>2, ReadsOwnSlots
<1> QED
  BY <1>1, ReadsSpecIInv, PTL

\* A call without seq_lens reads each position of the sequence at its slot, besides them
\* only slots of its own blocks, and no slot twice.
LEMMA ReadsOwnBlocks ==
  ASSUME IInv, PageTableCurrent, NEW q \in RequestType, NEW s \in Seqs, OwnGeometry(q),
         q.layer \in Layers
  PROVE  /\ \A j \in 0 .. seq_lengths[s] - 1 : \E x \in TermsReadWithoutLens(q, s) :
              x.token = j /\ x.read = SlotOf(page_table_host[s], j)
         /\ \A x \in TermsReadWithoutLens(q, s) :
              x.read \in Slots /\ Owns(s, x.read \div block_size)
         /\ late = {} => \A x \in TermsReadWithoutLens(q, s) :
              kv[q.layer][x.read] # Blank => kv[q.layer][x.read][1] = s
         /\ \A x, y \in TermsReadWithoutLens(q, s) : x.read = y.read => x = y
         /\ \A x, y \in TermsReadWithoutLens(q, s) : x.token = y.token => x = y
<1>1. /\ seq_blocks[s] \in Seq(BM!Blocks) /\ seq_lengths[s] \in Nat
      /\ seq_lengths[s] <= Len(seq_blocks[s]) * block_size
      /\ page_table_host[s] = Padded(seq_blocks[s])
      /\ TypeOK /\ Ownership /\ NoCrossTalk /\ KernelRuns /\ q.layer \in Layers
  BY DEF IInv, TypeOK, Ownership, RowsAgree, LengthCovered, PageTableCurrent
<1>2. Len(seq_blocks[s]) \in Nat /\ Len(seq_blocks[s]) <= num_blocks
  BY <1>1, OwnedAndFree, Geometry
<1>3. PICK N \in Nat : N = num_blocks * block_size
  BY Geometry
<1>4. seq_lengths[s] <= N
  <2>1. PICK L \in Nat : L = Len(seq_blocks[s])
    BY <1>2
  <2>2. L * block_size \in Nat /\ L * block_size <= num_blocks * block_size
    BY <1>2, <2>1, Geometry
  <2> QED
    BY <2>1, <2>2, <1>1, <1>3
<1>5. TermsReadWithoutLens(q, s) = TermsRead(q, s, N)
  BY <1>3 DEF TermsReadWithoutLens, OwnGeometry
<1>6. ASSUME NEW j \in 0 .. N - 1
      PROVE  /\ j < seq_lengths[s] => /\ RowRead(q, s, j) = SlotOf(page_table_host[s], j)
                                      /\ RowRead(q, s, j) >= 0
             /\ RowRead(q, s, j) >= 0 => /\ j < Len(seq_blocks[s]) * block_size
                                         /\ RowRead(q, s, j) = SlotOf(page_table_host[s], j)
  BY <1>3, TokenRow
<1>7. ASSUME NEW j \in 0 .. seq_lengths[s] - 1
      PROVE  \E x \in TermsRead(q, s, N) : x.token = j /\ x.read = SlotOf(page_table_host[s], j)
  <2>1. j \in 0 .. N - 1 /\ j < seq_lengths[s]
    BY <1>1, <1>4
  <2>2. RowRead(q, s, j) = SlotOf(page_table_host[s], j) /\ RowRead(q, s, j) >= 0
    BY <2>1, <1>6
  <2>3. \E x \in TermsRead(q, s, N) : x.token = j /\ x.read = RowRead(q, s, j)
    BY <2>1, <2>2, <1>3, TermsOf
  <2> QED
    BY <2>2, <2>3, Zenon
<1>8. ASSUME NEW x \in TermsRead(q, s, N)
      PROVE  /\ x.token \in Nat /\ x.token < Len(seq_blocks[s]) * block_size
             /\ x.read = SlotOf(page_table_host[s], x.token)
  <2>1. x.token \in 0 .. N - 1 /\ x.read = RowRead(q, s, x.token) /\ x.read >= 0
    BY TermsOf
  <2> QED
    BY <2>1, <1>6
<1>11. ASSUME NEW x \in TermsRead(q, s, N)
       PROVE  x.read \in Slots /\ Owns(s, x.read \div block_size)
  <2>1. PICK j \in Nat : j = x.token /\ j < Len(seq_blocks[s]) * block_size
    BY <1>8
  <2>2. /\ j \div block_size + 1 \in DOMAIN seq_blocks[s]
        /\ SlotOf(Padded(seq_blocks[s]), j) \in Slots
        /\ SlotOf(Padded(seq_blocks[s]), j) \div block_size = seq_blocks[s][j \div block_size + 1]
    BY <1>1, <1>2, <2>1, SlotOfOwned
  <2>3. x.read = SlotOf(Padded(seq_blocks[s]), j)
    BY <1>1, <1>8, <2>1
  <2> QED
    BY <2>2, <2>3 DEF Owns
<1>9. ASSUME late = {}, NEW x \in TermsRead(q, s, N), kv[q.layer][x.read] # Blank
      PROVE  kv[q.layer][x.read][1] = s
  <2>1. PICK y \in Slots : y = x.read /\ Owns(s, y \div block_size)
    BY <1>11
  <2>2. kv[q.layer][y] \in ({s} \X Vals) \union {Blank}
    BY <2>1, <1>1, <1>9, OwnSlots
  <2> QED
    BY <2>1, <2>2, <1>9
<1>10. ASSUME NEW x \in TermsRead(q, s, N), NEW y \in TermsRead(q, s, N), x.read = y.read
       PROVE  x = y
  <2>1. PICK i \in Nat, j \in Nat : /\ i = x.token /\ j = y.token
                                    /\ i < Len(seq_blocks[s]) * block_size
                                    /\ j < Len(seq_blocks[s]) * block_size
                                    /\ SlotOf(page_table_host[s], i) = SlotOf(page_table_host[s], j)
    BY <1>8, <1>10
  <2>2. i = j
    BY <1>1, <2>1, SlotInjective
  <2> QED
    BY <2>1, <2>2, TermsOf
<1>12. ASSUME NEW x \in TermsRead(q, s, N), NEW y \in TermsRead(q, s, N), x.token = y.token
       PROVE  x = y
  BY <1>12, TermsOf
<1> QED
  BY <1>5, <1>7, <1>9, <1>10, <1>11, <1>12

\* Without seq_lens the call also reads what lies behind the last token: there too only
\* slots of the sequence's own blocks, none twice, and no token of another sequence as
\* long as every reset kernel read its block ids in time.
THEOREM NeverAttendsForeignHolds == ReadsSpec => []NeverAttendsForeign
<1>1. ASSUME IInv
      PROVE  NeverAttendsForeign
  <2> SUFFICES ASSUME PageTableCurrent, NEW q \in RequestType, NEW s \in Seqs, OwnGeometry(q),
                      RunPagedAccepts(q)
               PROVE  /\ \A j \in 0 .. seq_lengths[s] - 1 : \E x \in TermsReadWithoutLens(q, s) :
                           x.token = j /\ x.read = SlotOf(page_table_host[s], j)
                      /\ \A x \in TermsReadWithoutLens(q, s) : Owns(s, x.read \div block_size)
                      /\ late = {} => \A x \in TermsReadWithoutLens(q, s) :
                           kv[q.layer][x.read] # Blank => kv[q.layer][x.read][1] = s
                      /\ \A x, y \in TermsReadWithoutLens(q, s) : x.read = y.read => x = y
    BY ReadAssumption DEF NeverAttendsForeign
  <2>1. q.layer \in Layers
    BY DEF RunPagedAccepts
  <2> QED
    BY <2>1, <1>1, ReadsOwnBlocks
<1> QED
  BY <1>1, ReadsSpecIInv, PTL

-----------------------------------------------------------------------------
\* The engine of Rollout on top of the cache: the states in which the program has ended.
Ended == {"exit3", "exit4", "done"}

\* The types of the engine's state, and the lengths it keeps: a prompt and the decoded
\* tokens.
EngineTypeOK ==
  /\ pc \in {"plan", "prefill", "append_prompt", "alloc_lens", "append_step", "sync", "attend",
             "advance"} \union Ended
  /\ prompt_lengths \in [Seqs -> PromptLens]
  /\ r \in Seqs
  /\ step \in Nat
  /\ host_lens = [s \in Seqs |-> prompt_lengths[s] + step]
  /\ has_lens \in BOOLEAN

\* Where the loops are decides how many tokens the cache holds for a request: those
\* before r are one append ahead of those from r on.
LengthAt(s) ==
  IF pc \in {"plan", "prefill", "append_prompt"} THEN IF s < r THEN prompt_lengths[s] ELSE 0
  ELSE IF pc \in {"alloc_lens", "append_step"} /\ s >= r THEN prompt_lengths[s] + step
  ELSE prompt_lengths[s] + step + 1

EngineInStep ==
  /\ pc \notin Ended => \A s \in Seqs : seq_lengths[s] = LengthAt(s)
  /\ pc \in {"append_step", "sync", "attend", "advance"} => step < max_new_tokens
  /\ pc \in {"alloc_lens", "sync", "attend", "advance"} => r = 0
  /\ pc \in {"plan", "prefill", "append_prompt", "alloc_lens"} => step = 0
  /\ pc = "attend" => synced_revision = revision
  /\ pc = "attend" /\ has_lens /\ KernelRuns => seq_lens = host_lens

\* The program appends a token at the position it has as its value.
PositionsHeld ==
  \A s \in Seqs : \A p \in 1 .. seq_lengths[s] :
    kv[0][SlotOf(page_table_host[s], p - 1)] = <<s, p - 1>>

\* Layer 0 holds nothing but these tokens, until a failed append ends the program.
OnlyPositions ==
  \A x \in Slots : kv[0][x] # Blank =>
    \E s \in Seqs : \E p \in 1 .. seq_lengths[s] : x = SlotOf(page_table_host[s], p - 1)

NothingBehind == pc \notin Ended => OnlyPositions

\* Until the program gives up, no request holds more blocks than its tokens need.
NoSpareBlocks ==
  pc \notin Ended =>
    \A s \in Seqs : Len(seq_blocks[s]) <= CeilDiv(seq_lengths[s], block_size)

\* The cache's invariant says where a token is, EngineInStep which tokens there are,
\* PositionsHeld what they are, NothingBehind that there are no others; NoSpareBlocks
\* bounds what the plan has to cover.
RolloutInv ==
  /\ IInv
  /\ EngineTypeOK
  /\ EngineInStep
  /\ PositionsHeld
  /\ NothingBehind
  /\ NoSpareBlocks
  /\ StepAttendsHistory
  /\ PlanSuffices

\* The requests are numbered from 0, and there is one.
LEMMA RequestIds ==
  /\ num_requests \in Nat \ {0} /\ Seqs = 0 .. num_requests - 1
  /\ 0 \in Seqs /\ 0 \in Layers
  /\ max_kv_len \in Nat /\ max_new_tokens \in Nat /\ PromptLens \subseteq Nat \ {0}
<1>1. Cardinality(Seqs) \in Nat
  BY RolloutAssumption, FS_CardinalityType
<1>2. Seqs # {} /\ Seqs = 0 .. Cardinality(Seqs) - 1
  BY RolloutAssumption
<1>3. PICK n \in Nat : n = Cardinality(Seqs)
  BY <1>1
<1>4. n \in Nat \ {0}
  BY <1>2, <1>3
<1>5. 0 \in Layers
  BY CacheAssumption DEF Layers
<1> QED
  BY <1>2, <1>3, <1>4, <1>5, RolloutAssumption DEF num_requests

\* The loops over the requests wrap around.
LEMMA NextRequest ==
  ASSUME NEW n \in Nat \ {0}, NEW x \in 0 .. n - 1
  PROVE  (x + 1) % n = IF x + 1 < n THEN x + 1 ELSE 0
<1>1. PICK y \in Nat : y = x + 1 /\ y <= n
  OBVIOUS
<1>2. y \div n \in Nat /\ y % n \in 0 .. n - 1 /\ y = n * (y \div n) + (y % n)
  BY DivMod
<1>3. CASE y < n
  <2>1. y = n * 0 + y /\ y \in 0 .. n - 1
    BY <1>3
  <2>2. y \div n = 0
    BY <2>1, DivUnique
  <2> QED
    BY <1>1, <1>2, <1>3, <2>2
<1>4. CASE y = n
  <2>1. y = n * 1 + 0 /\ 0 \in 0 .. n - 1
    BY <1>4
  <2>2. y \div n = 1
    BY <2>1, DivUnique
  <2>3. y % n = 0
    BY <1>2, <1>4, <2>2
  <2> QED
    BY <1>1, <1>4, <2>3
<1> QED
  BY <1>1, <1>3, <1>4

\* CeilDiv is monotonic.
LEMMA CeilDivMonotonic ==
  ASSUME NEW a \in Nat, NEW b \in Nat, a <= b
  PROVE  /\ CeilDiv(a, block_size) \in Nat /\ CeilDiv(b, block_size) \in Nat
         /\ CeilDiv(a, block_size) <= CeilDiv(b, block_size)
<1>1. /\ CeilDiv(a, block_size) \in Nat /\ CeilDiv(b, block_size) \in Nat
      /\ b <= CeilDiv(b, block_size) * block_size
  BY CeilDivFacts
<1>2. PICK L \in Nat : L = CeilDiv(b, block_size)
  BY <1>1
<1>3. L * block_size \in Nat
  BY <1>2, Geometry
<1>4. a <= L * block_size
  BY <1>1, <1>2, <1>3
<1>5. CeilDiv(a, block_size) <= L
  BY <1>4, CeilDivFacts
<1> QED
  BY <1>1, <1>2, <1>5

\* Rounding up once for all requests, with a spare block each, covers rounding up per
\* request.
LEMMA PlanCoversCells ==
  num_requests * CeilDiv(max_kv_len + max_new_tokens, block_size) <= num_blocks
<1>1. PICK R \in Nat \ {0}, b \in Nat \ {0} : R = num_requests /\ b = block_size
  BY RequestIds, Geometry
<1>2. PICK T \in Nat : T = max_kv_len + max_new_tokens
  BY RequestIds
<1>3. PICK C \in Int, m \in Int : C = (T + b - 1) \div b /\ m = (T + b - 1) % b
  OBVIOUS
<1>4. T + b - 1 = b * C + m /\ m \in 0 .. b - 1
  BY <1>3
<1>5. b * C <= T + b
  BY <1>4
<1>6. R * T \in Nat /\ CeilDiv(R * T, block_size) \in Nat
      /\ R * T <= CeilDiv(R * T, block_size) * block_size
  <2>1. R * T \in Nat
    OBVIOUS
  <2> QED
    BY <2>1, CeilDivFacts
<1>7. PICK D \in Nat : D = CeilDiv(R * T, block_size) /\ R * T <= b * D
  BY <1>1, <1>6
<1>8. num_blocks = D + R
  BY <1>1, <1>2, <1>7, PlanAssumption DEF PlannedBlocks
<1>9. R * (b * C) <= R * (T + b)
  BY <1>5
<1>10. R * (T + b) = R * T + R * b
  OBVIOUS
<1>11. b * (R * C) <= b * (D + R)
  BY <1>7, <1>9, <1>10
<1>12. R * C <= D + R
  <2>1. PICK x \in Int, y \in Int : x = R * C /\ y = D + R
    OBVIOUS
  <2>2. b * x <= b * y
    BY <1>11, <2>1
  <2> QED
    BY <2>1, <2>2
<1> QED
  BY <1>1, <1>2, <1>3, <1>8, <1>12 DEF CeilDiv

-----------------------------------------------------------------------------
\* Cell <<s, i>> holds block b: the i-th block of request s, or a free block, which are
\* taken to lie behind the blocks of q.
CellOf(q, b, s, i) ==
  \/ i \in 1 .. Len(seq_blocks[s]) /\ seq_blocks[s][i] = b
  \/ s = q /\ i - Len(seq_blocks[q]) \in 1 .. Len(free_list)
           /\ free_list[i - Len(seq_blocks[q])] = b

\* If no request has more than C blocks and the free blocks do not bring those of q up to
\* C, the pool has fewer than C blocks per request.
LEMMA PoolInCells ==
  ASSUME TypeOK, Ownership, NEW R \in Nat, IsFiniteSet(Seqs), Cardinality(Seqs) = R,
         NEW C \in Nat \ {0}, \A s \in Seqs : Len(seq_blocks[s]) <= C,
         NEW q \in Seqs, Len(seq_blocks[q]) + Len(free_list) < C
  PROVE  num_blocks < R * C
<1> DEFINE L == Len(seq_blocks[q])
           n == Len(free_list)
           Cells == (Seqs \X (1 .. C)) \ {<<q, C>>}
           F == [b \in BM!Blocks |-> CHOOSE c \in Cells : CellOf(q, b, c[1], c[2])]
<1>1. /\ seq_blocks \in [Seqs -> Seq(BM!Blocks)] /\ free_list \in Seq(BM!Blocks)
      /\ L \in Nat /\ n \in Nat /\ L + n < C /\ DOMAIN free_list = 1 .. n
      /\ \A s \in Seqs : Len(seq_blocks[s]) \in Nat /\ DOMAIN seq_blocks[s] = 1 .. Len(seq_blocks[s])
  BY DEF TypeOK, BM!TypeOK
<1>2. ASSUME NEW b \in BM!Blocks
      PROVE  \E c \in Cells : CellOf(q, b, c[1], c[2])
  <2>1. CASE in_use[b]
    <3>1. PICK s \in Seqs : Owns(s, b)
      BY <2>1 DEF Ownership, NoBlockLost
    <3>2. PICK i \in 1 .. Len(seq_blocks[s]) : seq_blocks[s][i] = b
      BY <3>1, <1>1 DEF Owns
    <3>3. i \in 1 .. C /\ (s = q => i # C)
      BY <1>1
    <3>4. <<s, i>> \in Cells /\ CellOf(q, b, s, i)
      BY <3>2, <3>3 DEF CellOf
    <3> QED
      BY <3>4
  <2>2. CASE ~in_use[b]
    <3>1. PICK i \in 1 .. n : free_list[i] = b
      BY <2>2, <1>1 DEF Ownership, BM!PoolIntegrity, BM!FreeListComplement
    <3>2. PICK j \in 1 .. C : j = L + i /\ j - L = i /\ j # C
      <4>1. PICK a \in Nat, d \in Nat : a = L /\ d = n /\ a + d < C
        BY <1>1, Zenon
      <4>2. i \in 1 .. d
        BY <3>1, <4>1
      <4>3. a + i \in 1 .. C /\ (a + i) - a = i /\ a + i # C
        BY <4>1, <4>2
      <4> QED
        BY <4>1, <4>3
    <3>3. <<q, j>> \in Cells /\ CellOf(q, b, q, j)
      BY <3>1, <3>2 DEF CellOf
    <3> QED
      BY <3>3
  <2> QED
    BY <2>1, <2>2
<1>3. ASSUME NEW a \in BM!Blocks, NEW b \in BM!Blocks, NEW s \in Seqs, NEW i \in 1 .. C,
             CellOf(q, a, s, i), CellOf(q, b, s, i)
      PROVE  a = b
  <2>1. s = q => ~(i \in 1 .. L /\ i - L \in 1 .. n)
    BY <1>1
  <2> QED
    BY <2>1, <1>3 DEF CellOf
<1>4. F \in [BM!Blocks -> Cells] /\ \A b \in BM!Blocks : CellOf(q, b, F[b][1], F[b][2])
  <2> HIDE DEF Cells
  <2> QED
    BY <1>2
<1>5. F \in Injection(BM!Blocks, Cells)
  <2>1. ASSUME NEW a \in BM!Blocks, NEW b \in BM!Blocks, F[a] = F[b]
        PROVE  a = b
    <3>1. PICK c \in Cells : c = F[a] /\ c = F[b]
      BY <2>1, <1>4, Zenon
    <3>2. c[1] \in Seqs /\ c[2] \in 1 .. C
      OBVIOUS
    <3> QED
      BY <3>1, <3>2, <1>3, <1>4, Zenon
  <2> HIDE DEF F, Cells
  <2> QED
    BY <1>4, <2>1 DEF Injection, IsInjective
<1>6. IsFiniteSet(Cells) /\ Cardinality(Cells) = R * C - 1
  <2> DEFINE A == Seqs \X (1 .. C)
             x == <<q, C>>
  <2>1. IsFiniteSet(1 .. C) /\ Cardinality(1 .. C) = C
    BY CardInterval
  <2>2. IsFiniteSet(A) /\ Cardinality(A) = R * C
    BY <2>1, FS_Product
  <2>3. x \in A
    OBVIOUS
  <2> HIDE DEF A, x
  <2>4. IsFiniteSet(A \ {x}) /\ Cardinality(A \ {x}) = R * C - 1
    BY <2>2, <2>3, FS_RemoveElement
  <2> QED
    BY <2>4 DEF Cells, A, x
<1>7. Cardinality(BM!Blocks) = num_blocks /\ num_blocks \in Nat
  <2>1. Cardinality(0 .. num_blocks - 1) = IF 0 > num_blocks - 1 THEN 0 ELSE num_blocks - 1 - 0 + 1
    BY Geometry, FS_Interval
  <2> QED
    BY <2>1, Geometry
<1> HIDE DEF F, Cells
<1>8. Cardinality(BM!Blocks) <= Cardinality(Cells)
  BY <1>5, <1>6, FS_Injection
<1> QED
  BY <1>6, <1>7, <1>8

-----------------------------------------------------------------------------
\* The tokens of a request from a position on are a batch of the cache.
LEMMA TokensBatch ==
  ASSUME NEW s \in Seqs, NEW from \in Nat, NEW to \in Nat, from <= to,
         from .. to \subseteq Vals, to - from + 1 <= MaxAppend
  PROVE  /\ TokensOf(s, from, to) \in Batches(s)
         /\ Len(TokensOf(s, from, to)) = to - from + 1
         /\ \A t \in 1 .. to - from + 1 : TokensOf(s, from, to)[t] = <<s, from + t - 1>>
<1>1. PICK n \in 1 .. MaxAppend : n = to - from + 1
  BY CacheBoundAssumption
<1>2. \A t \in 1 .. n : from + t - 1 \in from .. to
  BY <1>1
<1>3. TokensOf(s, from, to) \in [1 .. n -> {s} \X Vals]
  BY <1>1, <1>2 DEF TokensOf
<1>4. TokensOf(s, from, to) \in Batches(s)
  BY <1>3 DEF Batches
<1>5. Len(TokensOf(s, from, to)) = n
  BY <1>1, <1>3, FcnIsSeq
<1> QED
  BY <1>1, <1>4, <1>5 DEF TokensOf

\* What the append of toks, which start at the length of s, leaves behind.
LEMMA AppendTaken ==
  ASSUME IInv, PositionsHeld, NEW s \in Seqs, NEW toks \in Batches(s),
         AppendTokens(s, 0, toks),
         \A t \in 1 .. Len(toks) : toks[t] = <<s, seq_lengths[s] + t - 1>>
  PROVE  /\ IInv' /\ PositionsHeld'
         /\ seq_lengths' = [seq_lengths EXCEPT ![s] = @ + Len(toks)]
         /\ UNCHANGED allocation_failures
         /\ OnlyPositions => OnlyPositions'
         /\ (\A w \in Seqs : Len(seq_blocks[w]) <= CeilDiv(seq_lengths[w], block_size)) =>
              (\A w \in Seqs : Len(seq_blocks'[w]) <= CeilDiv(seq_lengths'[w], block_size))
<1> DEFINE n == Len(toks)
<1>1. 0 \in Layers /\ n \in Nat \ {0} /\ seq_lengths \in [Seqs -> Nat]
  BY RequestIds, BatchLength DEF IInv, TypeOK
<1>2. /\ Reserve(s, n) /\ KvAppend(0, UploadedSlots(s, n), toks)
      /\ seq_lengths' = [seq_lengths EXCEPT ![s] = @ + n]
  BY DEF AppendTokens
<1>3. IInv'
  BY <1>1, AppendIInv
<1>4. UNCHANGED allocation_failures
  BY <1>2 DEF Reserve
<1>5. /\ seq_lengths'[s] = seq_lengths[s] + n
      /\ \A w \in Seqs \ {s} : seq_lengths'[w] = seq_lengths[w]
  BY <1>1, <1>2
<1>6. PositionsHeld'
  <2>1. SUFFICES ASSUME NEW w \in Seqs, NEW p \in 1 .. seq_lengths'[w]
                 PROVE  kv'[0][SlotOf(page_table_host'[w], p - 1)] = <<w, p - 1>>
    BY DEF PositionsHeld, SlotOf
  <2>2. CASE p \in 1 .. seq_lengths[w]
    <3>1. kv[0][SlotOf(page_table_host[w], p - 1)] = <<w, p - 1>>
      BY <2>2 DEF PositionsHeld
    <3>2. kv'[0][SlotOf(page_table_host[w], p - 1)] = kv[0][SlotOf(page_table_host[w], p - 1)]
      BY <2>2, <1>1, <1>2, AppendExact
    <3>3. SlotOf(page_table_host'[w], p - 1) = SlotOf(page_table_host[w], p - 1)
      BY <2>2, <1>1, <1>2, ReserveKeepsSlots
    <3> QED
      BY <3>1, <3>2, <3>3
  <2>3. CASE p \notin 1 .. seq_lengths[w]
    <3>1. w = s
      BY <2>3, <1>5
    <3>2. PICK t \in 1 .. n : p = seq_lengths[s] + t
      <4>1. p - seq_lengths[s] \in 1 .. n
        BY <2>3, <3>1, <1>1, <1>5
      <4>2. p = seq_lengths[s] + (p - seq_lengths[s])
        BY <1>1, <4>1
      <4> QED
        BY <4>1, <4>2
    <3>3. p - 1 = seq_lengths[s] + t - 1
      BY <3>2, <1>1
    <3>4. kv'[0][SlotOf(page_table_host'[s], seq_lengths[s] + t - 1)] = toks[t]
      BY <1>1, <1>2, AppendExact
    <3> QED
      BY <3>1, <3>3, <3>4
  <2> QED
    BY <2>2, <2>3
<1>7. ASSUME \A w \in Seqs : Len(seq_blocks[w]) <= CeilDiv(seq_lengths[w], block_size)
      PROVE  \A w \in Seqs : Len(seq_blocks'[w]) <= CeilDiv(seq_lengths'[w], block_size)
  <2> DEFINE k == IF ToAllocate(s, n) > 0 THEN ToAllocate(s, n) ELSE 0
  <2>1. TypeOK /\ Ownership /\ n \in Nat
    BY <1>1 DEF IInv
  <2>2. /\ \A w \in Seqs \ {s} : seq_blocks'[w] = seq_blocks[w]
        /\ Len(seq_blocks'[s]) = Len(seq_blocks[s]) + k
    BY <2>1, <1>2, ReserveStep
  <2>3. PICK a \in Nat, b \in Nat : a = seq_lengths[s] /\ b = seq_lengths[s] + n /\ a <= b
    BY <1>1
  <2>4. /\ CeilDiv(a, block_size) \in Nat /\ CeilDiv(b, block_size) \in Nat
        /\ CeilDiv(a, block_size) <= CeilDiv(b, block_size)
    BY <2>3, CeilDivMonotonic
  <2>5. Len(seq_blocks[s]) \in Nat
    BY <2>1 DEF TypeOK
  <2>6. Len(seq_blocks[s]) <= CeilDiv(a, block_size)
    BY <1>7, <2>3
  <2>7. ToAllocate(s, n) = CeilDiv(b, block_size) - Len(seq_blocks[s])
    BY <2>3 DEF ToAllocate
  <2>8. Len(seq_blocks'[s]) <= CeilDiv(b, block_size)
    BY <2>2, <2>4, <2>5, <2>6, <2>7
  <2>9. ASSUME NEW w \in Seqs
        PROVE  Len(seq_blocks'[w]) <= CeilDiv(seq_lengths'[w], block_size)
    <3>1. CASE w = s
      BY <3>1, <2>3, <2>8, <1>5
    <3>2. CASE w # s
      BY <3>2, <2>2, <1>5, <1>7
    <3> QED
      BY <3>1, <3>2
  <2> QED
    BY <2>9
<1>8. ASSUME OnlyPositions
      PROVE  OnlyPositions'
  <2> DEFINE slots == UploadedSlots(s, n)
  <2>1. SUFFICES ASSUME NEW x \in Slots, kv'[0][x] # Blank
                 PROVE  \E w \in Seqs : \E p \in 1 .. seq_lengths'[w] :
                          x = SlotOf(page_table_host'[w], p - 1)
    BY DEF OnlyPositions, SlotOf
  <2>2. /\ DOMAIN slots = 1 .. n
        /\ \A t \in 1 .. n : slots[t] = SlotOf(page_table_host'[s], seq_lengths[s] + t - 1)
    BY DEF UploadedSlots, ComputeSlotMapping
  <2> HIDE DEF slots
  <2>3. CASE \E t \in DOMAIN slots : slots[t] = x
    <3>1. PICK t \in 1 .. n : x = SlotOf(page_table_host'[s], seq_lengths[s] + t - 1)
      BY <2>2, <2>3
    <3>2. PICK p \in 1 .. seq_lengths'[s] : p - 1 = seq_lengths[s] + t - 1
      <4>1. /\ seq_lengths[s] + t \in 1 .. seq_lengths'[s]
            /\ (seq_lengths[s] + t) - 1 = seq_lengths[s] + t - 1
        BY <1>1, <1>5
      <4> QED
        BY <4>1
    <3> QED
      BY <3>1, <3>2
  <2>4. CASE ~\E t \in DOMAIN slots : slots[t] = x
    <3>1. kv'[0][x] = kv[0][x]
      <4>1. kv' = [kv EXCEPT ![0] =
                     [y \in Slots |-> IF \E t \in DOMAIN slots : slots[t] = y
                                        THEN toks[CHOOSE t \in DOMAIN slots : slots[t] = y]
                                        ELSE kv[0][y]]]
        BY <1>2 DEF KvAppend, slots
      <4>2. kv \in [Layers -> [Slots -> Tokens \union {Blank}]]
        BY DEF IInv, TypeOK
      <4> QED
        BY <4>1, <4>2, <2>4, <1>1
    <3>2. PICK w \in Seqs : \E p \in 1 .. seq_lengths[w] : x = SlotOf(page_table_host[w], p - 1)
      BY <3>1, <2>1, <1>8 DEF OnlyPositions
    <3>5. PICK p \in 1 .. seq_lengths[w] : x = SlotOf(page_table_host[w], p - 1)
      BY <3>2
    <3>3. SlotOf(page_table_host'[w], p - 1) = SlotOf(page_table_host[w], p - 1)
      BY <1>1, <1>2, ReserveKeepsSlots
    <3>4. p \in 1 .. seq_lengths'[w]
      BY <1>1, <1>5
    <3> QED
      BY <3>3, <3>4, <3>5
  <2> QED
    BY <2>3, <2>4
<1> QED
  BY <1>2, <1>3, <1>4, <1>6, <1>7, <1>8

\* What a failed append of toks leaves behind: positions below the lengths hold what they
\* held.
LEMMA AppendNotTaken ==
  ASSUME IInv, PositionsHeld, NEW s \in Seqs, NEW toks \in Batches(s),
         \/ AppendTokensRefused(s, Len(toks))
         \/ AppendTokensNoBuffer(s, Len(toks))
         \/ AppendTokensRejected(s, Len(toks))
         \/ AppendTokensLaunchFails(s, 0, toks)
  PROVE  /\ IInv' /\ PositionsHeld'
         /\ UNCHANGED allocation_failures \/ AppendTokensRefused(s, Len(toks))
<1> DEFINE n == Len(toks)
<1>1. 0 \in Layers /\ n \in Nat /\ n \in 1 .. MaxAppend /\ seq_lengths \in [Seqs -> Nat]
  <2>1. PICK m \in 1 .. MaxAppend : toks \in [1 .. m -> {s} \X Vals]
    BY DEF Batches
  <2>2. m \in Nat
    BY CacheBoundAssumption
  <2>3. n = m
    BY <2>1, <2>2, FcnIsSeq
  <2> QED
    BY <2>2, <2>3, RequestIds DEF IInv, TypeOK
<1>2. IInv'
  BY <1>1, RefusedIInv, NoBufferIInv, RejectedIInv, LaunchFailsIInv
<1>3. CASE AppendTokensRefused(s, n)
  <2>1. UNCHANGED <<seq_lengths, page_table_host, kv>>
    BY <1>3 DEF AppendTokensRefused
  <2>2. PositionsHeld'
    BY <2>1 DEF PositionsHeld, SlotOf
  <2> QED
    BY <1>2, <1>3, <2>2
<1>4. CASE \/ AppendTokensNoBuffer(s, n) \/ AppendTokensRejected(s, n)
           \/ AppendTokensLaunchFails(s, 0, toks)
  <2>1. /\ Reserve(s, n) /\ UNCHANGED seq_lengths
        /\ KvAppend(0, UploadedSlots(s, n), toks) \/ UNCHANGED kv
    BY <1>4 DEF AppendTokensNoBuffer, AppendTokensRejected, AppendTokensLaunchFails
  <2>2. UNCHANGED allocation_failures
    BY <2>1 DEF Reserve
  <2>3. ASSUME NEW w \in Seqs, NEW p \in 1 .. seq_lengths[w]
        PROVE  kv'[0][SlotOf(page_table_host'[w], p - 1)] = <<w, p - 1>>
    <3>1. kv[0][SlotOf(page_table_host[w], p - 1)] = <<w, p - 1>>
      BY DEF PositionsHeld
    <3>2. kv'[0][SlotOf(page_table_host[w], p - 1)] = kv[0][SlotOf(page_table_host[w], p - 1)]
      BY <1>1, <2>1, AppendExact
    <3>3. SlotOf(page_table_host'[w], p - 1) = SlotOf(page_table_host[w], p - 1)
      BY <1>1, <2>1, ReserveKeepsSlots
    <3> QED
      BY <3>1, <3>2, <3>3
  <2>4. PositionsHeld'
    BY <2>1, <2>3 DEF PositionsHeld, SlotOf
  <2> QED
    BY <1>2, <2>2, <2>4
<1> QED
  BY <1>3, <1>4

-----------------------------------------------------------------------------
\* The pool never runs out while every request stays within the planned length.
LEMMA NeverRefused ==
  ASSUME RolloutInv, pc \notin Ended, NEW s \in Seqs, NEW n \in Nat,
         \A w \in Seqs : seq_lengths[w] <= max_kv_len + max_new_tokens,
         seq_lengths[s] + n <= max_kv_len + max_new_tokens
  PROVE  ~AppendTokensRefused(s, n)
<1> DEFINE T == max_kv_len + max_new_tokens
           C == CeilDiv(T, block_size)
<1>1. SUFFICES ASSUME AppendTokensRefused(s, n) PROVE FALSE
  OBVIOUS
<1>2. TypeOK /\ Ownership /\ seq_lengths \in [Seqs -> Nat] /\ T \in Nat
  <2>1. TypeOK /\ Ownership
    BY DEF RolloutInv, IInv
  <2>2. seq_lengths \in [Seqs -> Nat]
    BY <2>1 DEF TypeOK
  <2>3. T \in Nat
    BY RequestIds
  <2> QED
    BY <2>1, <2>2, <2>3, Zenon
<1>3. /\ C \in Nat
      /\ \A a \in Nat : a <= T => CeilDiv(a, block_size) \in Nat /\ CeilDiv(a, block_size) <= C
  BY <1>2, CeilDivMonotonic
<1>4. ASSUME NEW w \in Seqs
      PROVE  Len(seq_blocks[w]) \in Nat /\ Len(seq_blocks[w]) <= C
  <2>1. seq_lengths[w] \in Nat /\ seq_lengths[w] <= T
    BY <1>2
  <2>2. CeilDiv(seq_lengths[w], block_size) \in Nat /\ CeilDiv(seq_lengths[w], block_size) <= C
    BY <2>1, <1>3
  <2>3. Len(seq_blocks[w]) <= CeilDiv(seq_lengths[w], block_size)
    BY DEF RolloutInv, NoSpareBlocks
  <2>4. Len(seq_blocks[w]) \in Nat
    BY <1>2 DEF TypeOK
  <2> HIDE DEF C
  <2> QED
    BY <1>3, <2>2, <2>3, <2>4
<1>5. Len(free_list) \in Nat
  BY <1>2 DEF TypeOK, BM!TypeOK
<1>6. Len(free_list) < CeilDiv(seq_lengths[s] + n, block_size) - Len(seq_blocks[s])
  BY <1>1 DEF AppendTokensRefused, BM!AllocationFails, ToAllocate
<1>7. seq_lengths[s] + n \in Nat /\ seq_lengths[s] + n <= T
  BY <1>2
<1>8. CeilDiv(seq_lengths[s] + n, block_size) \in Nat /\ CeilDiv(seq_lengths[s] + n, block_size) <= C
  BY <1>3, <1>7
<1> HIDE DEF C, T
<1>9. Len(seq_blocks[s]) \in Nat
  BY <1>4
<1>10. C \in Nat \ {0} /\ Len(seq_blocks[s]) + Len(free_list) < C
  BY <1>3, <1>5, <1>6, <1>8, <1>9
<1>11. IsFiniteSet(Seqs) /\ Cardinality(Seqs) \in Nat
  BY RolloutAssumption, FS_CardinalityType
<1>12. num_blocks < Cardinality(Seqs) * C
  BY <1>2, <1>4, <1>10, <1>11, PoolInCells
<1>13. Cardinality(Seqs) * C <= num_blocks
  BY PlanCoversCells DEF C, T, num_requests
<1>14. Cardinality(Seqs) * C \in Int /\ num_blocks \in Int
  BY <1>10, <1>11, Geometry
<1> QED
  BY <1>12, <1>13, <1>14

\* Steps that leave the tokens, the blocks and the failure counter alone.
LEMMA QuietStep ==
  ASSUME RolloutInv,
         UNCHANGED <<seq_lengths, seq_blocks, page_table_host, kv, allocation_failures,
                     prompt_lengths>>,
         pc' \notin Ended => pc \notin Ended
  PROVE  PositionsHeld' /\ NothingBehind' /\ NoSpareBlocks' /\ PlanSuffices'
<1>1. PositionsHeld'
  BY DEF RolloutInv, PositionsHeld, SlotOf
<1>2. NoSpareBlocks'
  BY DEF RolloutInv, NoSpareBlocks, CeilDiv
<1>3. PlanSuffices'
  BY DEF RolloutInv, PlanSuffices
<1>4. NothingBehind'
  BY DEF RolloutInv, NothingBehind, OnlyPositions, SlotOf
<1> QED
  BY <1>1, <1>2, <1>3, <1>4

\* The cache as created holds nothing.
LEMMA RolloutInitInv == RolloutInit => RolloutInv
<1> SUFFICES ASSUME RolloutInit PROVE RolloutInv
  OBVIOUS
<1>1. Init /\ pc = "plan" /\ r = 0 /\ step = 0 /\ prompt_lengths \in [Seqs -> PromptLens]
      /\ host_lens = prompt_lengths /\ has_lens = FALSE
  BY DEF RolloutInit
<1>2. IInv
  BY <1>1, InitIInv
<1>3. /\ seq_lengths = [s \in Seqs |-> 0] /\ seq_blocks = [s \in Seqs |-> <<>>]
      /\ allocation_failures = 0
  BY <1>1 DEF Init, BM!Init
<1>4. EngineTypeOK
  <2>1. ASSUME NEW s \in Seqs
        PROVE  prompt_lengths[s] + 0 = prompt_lengths[s]
    <3>1. prompt_lengths[s] \in Nat
      BY <1>1, RequestIds
    <3> QED
      BY <3>1
  <2>2. prompt_lengths = [s \in Seqs |-> prompt_lengths[s]]
    BY <1>1
  <2> QED
    BY <1>1, <2>1, <2>2, RequestIds DEF EngineTypeOK, Ended
<1>5. EngineInStep
  BY <1>1, <1>3, RequestIds DEF EngineInStep, LengthAt, Ended
<1>6. PositionsHeld /\ NothingBehind
  <2>1. kv = [l \in Layers |-> [x \in Slots |-> Blank]] /\ 0 \in Layers
    BY <1>1, RequestIds DEF Init
  <2> QED
    BY <2>1, <1>3 DEF PositionsHeld, NothingBehind, OnlyPositions
<1>7. NoSpareBlocks
  <2>1. CeilDiv(0, block_size) \in Nat
    BY CeilDivFacts
  <2> QED
    BY <1>3, <2>1 DEF NoSpareBlocks
<1>8. StepAttendsHistory /\ PlanSuffices
  BY <1>1, <1>3 DEF StepAttendsHistory, PlanSuffices
<1> QED
  BY <1>2, <1>4, <1>5, <1>6, <1>7, <1>8 DEF RolloutInv

-----------------------------------------------------------------------------
\* The engine's types, unfolded.
LEMMA EngineFacts ==
  ASSUME EngineTypeOK
  PROVE  /\ r \in Seqs /\ r \in 0 .. num_requests - 1 /\ step \in Nat
         /\ \A s \in Seqs : /\ s \in 0 .. num_requests - 1
                            /\ prompt_lengths[s] \in PromptLens
                            /\ prompt_lengths[s] \in Nat \ {0}
                            /\ host_lens[s] = prompt_lengths[s] + step
<1>1. prompt_lengths \in [Seqs -> PromptLens] /\ r \in Seqs /\ step \in Nat
      /\ host_lens = [s \in Seqs |-> prompt_lengths[s] + step]
  BY DEF EngineTypeOK
<1>2. \A s \in Seqs : prompt_lengths[s] \in PromptLens /\ prompt_lengths[s] \in Nat \ {0}
  BY <1>1, RequestIds
<1> QED
  BY <1>1, <1>2, RequestIds

\* The engine moves on without touching the cache.
LEMMA PlanStep ==
  ASSUME RolloutInv, Plan
  PROVE  RolloutInv'
<1>1. pc = "plan" /\ pc' \in {"prefill", "exit3"} /\ UNCHANGED <<vars, engine>>
  BY DEF Plan, Exit
<1>2. IInv'
  BY <1>1, NextIInv DEF RolloutInv
<1>3. UNCHANGED <<seq_lengths, seq_blocks, page_table_host, kv, allocation_failures,
                  prompt_lengths, r, step, host_lens, has_lens, seq_lens, attended>>
  BY <1>1 DEF vars, bmVars, engine
<1>4. PositionsHeld' /\ NothingBehind' /\ NoSpareBlocks' /\ PlanSuffices'
  BY <1>1, <1>3, QuietStep DEF Ended
<1>5. EngineTypeOK'
  BY <1>1, <1>3 DEF RolloutInv, EngineTypeOK, Ended
<1>6. EngineInStep'
  BY <1>1, <1>3 DEF RolloutInv, EngineInStep, LengthAt, Ended
<1>7. StepAttendsHistory'
  BY <1>1 DEF StepAttendsHistory
<1> QED
  BY <1>2, <1>4, <1>5, <1>6, <1>7 DEF RolloutInv

\* A prefill reads nothing of the cache.
LEMMA PrefillStep ==
  ASSUME RolloutInv, Prefill
  PROVE  RolloutInv'
<1>1. /\ pc = "prefill" /\ pc' \in {"append_prompt", "exit4"}
      /\ LaunchRaw \/ cuda_error' = "lost"
      /\ UNCHANGED <<cacheState, engine>>
  <2>1. LaunchOk /\ cuda_error' = "none" => LaunchRaw
    BY DEF LaunchOk, LaunchRaw
  <2> QED
    BY <2>1 DEF Prefill, Exit
<1>2. IInv'
  BY <1>1, ReadDeviceIInv DEF RolloutInv
<1>3. UNCHANGED <<seq_lengths, seq_blocks, page_table_host, kv, allocation_failures,
                  prompt_lengths, r, step, host_lens, has_lens, seq_lens, attended>>
  BY <1>1 DEF cacheState, bmVars, engine
<1>4. PositionsHeld' /\ NothingBehind' /\ NoSpareBlocks' /\ PlanSuffices'
  BY <1>1, <1>3, QuietStep DEF Ended
<1>5. EngineTypeOK'
  BY <1>1, <1>3 DEF RolloutInv, EngineTypeOK, Ended
<1>6. EngineInStep'
  BY <1>1, <1>3 DEF RolloutInv, EngineInStep, LengthAt, Ended
<1>7. StepAttendsHistory'
  BY <1>1 DEF StepAttendsHistory
<1> QED
  BY <1>2, <1>4, <1>5, <1>6, <1>7 DEF RolloutInv

\* A failed append ends the program; it was not the pool while the prompts are short
\* enough.
LEMMA AppendFailsStep ==
  ASSUME RolloutInv, pc \notin Ended, NEW toks \in Batches(r), AppendFails(toks),
         (\A s \in Seqs : prompt_lengths[s] <= max_kv_len) =>
           /\ \A w \in Seqs : seq_lengths[w] <= max_kv_len + max_new_tokens
           /\ seq_lengths[r] + Len(toks) <= max_kv_len + max_new_tokens
  PROVE  RolloutInv'
<1>1. /\ pc' = "exit4"
      /\ UNCHANGED <<prompt_lengths, r, step, host_lens, has_lens, seq_lens, attended>>
      /\ \/ AppendTokensRefused(r, Len(toks))
         \/ AppendTokensNoBuffer(r, Len(toks))
         \/ AppendTokensRejected(r, Len(toks))
         \/ AppendTokensLaunchFails(r, 0, toks)
  BY DEF AppendFails, Exit, engine
<1>2. r \in Seqs /\ IInv /\ PositionsHeld
  BY DEF RolloutInv, EngineTypeOK
<1>3. /\ IInv' /\ PositionsHeld'
      /\ UNCHANGED allocation_failures \/ AppendTokensRefused(r, Len(toks))
  BY <1>1, <1>2, AppendNotTaken
<1>4. PlanSuffices'
  <2>1. SUFFICES ASSUME \A s \in Seqs : prompt_lengths[s] <= max_kv_len
                 PROVE  allocation_failures' = 0
    BY <1>1 DEF PlanSuffices
  <2>2. Len(toks) \in Nat
    BY <1>2, BatchLength
  <2>3. ~AppendTokensRefused(r, Len(toks))
    BY <2>1, <2>2, <1>2, NeverRefused
  <2> QED
    BY <2>1, <2>3, <1>3 DEF RolloutInv, PlanSuffices
<1>5. EngineTypeOK'
  BY <1>1 DEF RolloutInv, EngineTypeOK, Ended
<1>6. EngineInStep' /\ NothingBehind' /\ NoSpareBlocks' /\ StepAttendsHistory'
  BY <1>1 DEF EngineInStep, NothingBehind, NoSpareBlocks, StepAttendsHistory, Ended
<1> QED
  BY <1>3, <1>4, <1>5, <1>6 DEF RolloutInv

\* The prompt of request r is appended to its empty sequence.
LEMMA AppendPromptStep ==
  ASSUME RolloutInv, AppendPrompt
  PROVE  RolloutInv'
<1> DEFINE n == prompt_lengths[r]
           toks == TokensOf(r, 0, n - 1)
<1>1. /\ EngineTypeOK /\ EngineInStep /\ IInv /\ PositionsHeld /\ NothingBehind
      /\ NoSpareBlocks /\ PlanSuffices
  BY DEF RolloutInv
<1>2. /\ r \in Seqs /\ r \in 0 .. num_requests - 1 /\ num_requests \in Nat \ {0}
      /\ \A s \in Seqs : s \in 0 .. num_requests - 1 /\ prompt_lengths[s] \in Nat \ {0}
      /\ n \in PromptLens /\ n \in Nat \ {0} /\ max_kv_len \in Nat /\ max_new_tokens \in Nat
  BY <1>1, EngineFacts, RequestIds
<1>3. /\ pc = "append_prompt" /\ step = 0
      /\ \A s \in Seqs : seq_lengths[s] = IF s < r THEN prompt_lengths[s] ELSE 0
  BY <1>1 DEF AppendPrompt, EngineInStep, LengthAt, Ended
<1>4. /\ toks \in Batches(r) /\ Len(toks) = n
      /\ \A t \in 1 .. n : toks[t] = <<r, 0 + t - 1>>
  <2>1. n <= MaxAppend /\ 0 .. n + max_new_tokens - 1 \subseteq Vals
    BY <1>2, PromptAssumption
  <2>2. /\ 0 \in Nat /\ n - 1 \in Nat /\ 0 <= n - 1 /\ (n - 1) - 0 + 1 = n
        /\ 0 .. n - 1 \subseteq 0 .. n + max_new_tokens - 1
    BY <1>2
  <2>3. 0 .. n - 1 \subseteq Vals /\ (n - 1) - 0 + 1 <= MaxAppend
    BY <2>1, <2>2
  <2>4. /\ toks \in Batches(r) /\ Len(toks) = (n - 1) - 0 + 1
        /\ \A t \in 1 .. (n - 1) - 0 + 1 : toks[t] = <<r, 0 + t - 1>>
    BY <1>2, <2>2, <2>3, TokensBatch
  <2> QED
    BY <2>2, <2>4
<1>5. seq_lengths[r] = 0
  BY <1>2, <1>3
<1> HIDE DEF n, toks
<1>6. CASE AppendFails(toks)
  <2>1. ASSUME \A s \in Seqs : prompt_lengths[s] <= max_kv_len
        PROVE  /\ \A w \in Seqs : seq_lengths[w] <= max_kv_len + max_new_tokens
               /\ seq_lengths[r] + Len(toks) <= max_kv_len + max_new_tokens
    <3>1. n <= max_kv_len
      BY <2>1, <1>2 DEF n
    <3>2. ASSUME NEW w \in Seqs
          PROVE  seq_lengths[w] <= max_kv_len + max_new_tokens
      <4>1. PICK a \in Nat : a = prompt_lengths[w] /\ a <= max_kv_len
        BY <2>1, <1>2
      <4>2. seq_lengths[w] = a \/ seq_lengths[w] = 0
        BY <4>1, <1>3
      <4> QED
        BY <4>1, <4>2, <1>2
    <3>3. 0 + n <= max_kv_len + max_new_tokens
      BY <3>1, <1>2
    <3> QED
      BY <3>2, <3>3, <1>4, <1>5
  <2>2. pc \notin Ended
    BY <1>3 DEF Ended
  <2> QED
    BY <2>1, <2>2, <1>4, <1>6, AppendFailsStep
<1>7. CASE /\ AppendTokens(r, 0, toks)
           /\ r' = (r + 1) % num_requests
           /\ pc' = IF r + 1 < num_requests THEN "prefill" ELSE "alloc_lens"
           /\ UNCHANGED <<prompt_lengths, step, host_lens, has_lens, seq_lens, attended>>
  <2>1. \A t \in 1 .. Len(toks) : toks[t] = <<r, seq_lengths[r] + t - 1>>
    BY <1>4, <1>5
  <2>2. /\ IInv' /\ PositionsHeld'
        /\ seq_lengths' = [seq_lengths EXCEPT ![r] = @ + Len(toks)]
        /\ UNCHANGED allocation_failures
        /\ OnlyPositions => OnlyPositions'
        /\ (\A w \in Seqs : Len(seq_blocks[w]) <= CeilDiv(seq_lengths[w], block_size)) =>
             (\A w \in Seqs : Len(seq_blocks'[w]) <= CeilDiv(seq_lengths'[w], block_size))
    BY <2>1, <1>1, <1>2, <1>4, <1>7, AppendTaken
  <2>3. NoSpareBlocks' /\ NothingBehind'
    <3>1. pc \notin Ended
      BY <1>3 DEF Ended
    <3>2. \A w \in Seqs : Len(seq_blocks'[w]) <= CeilDiv(seq_lengths'[w], block_size)
      BY <3>1, <2>2, <1>1 DEF NoSpareBlocks
    <3>3. NoSpareBlocks'
      BY <3>2 DEF NoSpareBlocks, CeilDiv
    <3>4. NothingBehind'
      BY <3>1, <2>2, <1>1 DEF NothingBehind
    <3> QED
      BY <3>3, <3>4
  <2>4. r' = IF r + 1 < num_requests THEN r + 1 ELSE 0
    BY <1>2, <1>7, NextRequest
  <2>5. r' \in Seqs
    BY <2>4, <1>2, RequestIds
  <2>6. EngineTypeOK'
    BY <2>5, <1>1, <1>7 DEF EngineTypeOK, Ended
  <2>7. ASSUME NEW s \in Seqs
        PROVE  seq_lengths'[s] = IF s < r + 1 THEN prompt_lengths[s] ELSE 0
    <3>1. seq_lengths \in [Seqs -> Nat]
      BY <1>1 DEF IInv, TypeOK
    <3>2. CASE s = r
      <4>1. seq_lengths'[s] = 0 + n
        BY <3>1, <3>2, <2>2, <1>4, <1>5
      <4> QED
        BY <4>1, <3>2, <1>2 DEF n
    <3>3. CASE s # r
      <4>1. seq_lengths'[s] = seq_lengths[s]
        BY <3>1, <3>3, <2>2
      <4> QED
        BY <4>1, <3>3, <1>2, <1>3
    <3> QED
      BY <3>2, <3>3
  <2>8. EngineInStep'
    <3>1. CASE r + 1 < num_requests
      <4>1. pc' = "prefill" /\ r' = r + 1 /\ step' = 0
        BY <3>1, <2>4, <1>3, <1>7
      <4>2. \A s \in Seqs : LengthAt(s)' = IF s < r + 1 THEN prompt_lengths[s] ELSE 0
        BY <4>1, <1>7 DEF LengthAt
      <4> QED
        BY <4>1, <4>2, <2>7 DEF EngineInStep, Ended
    <3>2. CASE ~(r + 1 < num_requests)
      <4>1. pc' = "alloc_lens" /\ r' = 0 /\ step' = 0
        BY <3>2, <2>4, <1>3, <1>7
      <4>2. ASSUME NEW s \in Seqs
            PROVE  LengthAt(s)' = prompt_lengths[s] /\ s < r + 1
        <5>1. s \in Nat /\ s >= 0 /\ s < r + 1
          BY <3>2, <1>2
        <5>2. LengthAt(s)' = prompt_lengths'[s] + step'
          BY <5>1, <4>1 DEF LengthAt
        <5>3. prompt_lengths[s] + 0 = prompt_lengths[s]
          BY <1>2
        <5> QED
          BY <5>1, <5>2, <5>3, <4>1, <1>7
      <4> QED
        BY <4>1, <4>2, <2>7 DEF EngineInStep, Ended
    <3> QED
      BY <3>1, <3>2
  <2>9. StepAttendsHistory' /\ PlanSuffices'
    BY <1>1, <1>7, <2>2 DEF StepAttendsHistory, PlanSuffices
  <2> QED
    BY <2>2, <2>3, <2>6, <2>8, <2>9 DEF RolloutInv
<1> QED
  BY <1>6, <1>7 DEF AppendPrompt, toks, n

\* The allocation of the lengths touches neither the cache nor the loops.
LEMMA AllocateLensStep ==
  ASSUME RolloutInv, AllocateLens
  PROVE  RolloutInv'
<1>1. /\ pc = "alloc_lens" /\ pc' = IF max_new_tokens > 0 THEN "append_step" ELSE "done"
      /\ has_lens' \in BOOLEAN /\ cuda_error' \in MaybeStale(TRUE)
      /\ UNCHANGED <<cacheState, prompt_lengths, r, step, host_lens, seq_lens, attended>>
  <2>1. MaybeStale(~has_lens') \subseteq MaybeStale(TRUE)
    BY DEF MaybeStale
  <2> QED
    BY <2>1 DEF AllocateLens
<1>2. IInv'
  BY <1>1, ReadDeviceIInv DEF RolloutInv
<1>3. UNCHANGED <<seq_lengths, seq_blocks, page_table_host, kv, allocation_failures>>
  BY <1>1 DEF cacheState, bmVars
<1>4. PositionsHeld' /\ NothingBehind' /\ NoSpareBlocks' /\ PlanSuffices'
  BY <1>1, <1>3, QuietStep DEF Ended
<1>5. EngineTypeOK'
  BY <1>1 DEF RolloutInv, EngineTypeOK, Ended
<1>6. EngineInStep'
  <2>1. /\ r = 0 /\ step = 0 /\ max_new_tokens \in Nat
        /\ \A s \in Seqs : s >= r /\ seq_lengths[s] = prompt_lengths[s] + step
    <3>1. EngineTypeOK /\ EngineInStep
      BY DEF RolloutInv
    <3>2. /\ r = 0 /\ step = 0 /\ max_new_tokens \in Nat
          /\ \A s \in Seqs : s >= 0
      BY <3>1, <1>1, RequestIds DEF EngineInStep
    <3> QED
      BY <3>1, <3>2, <1>1 DEF EngineInStep, LengthAt, Ended
  <2>2. CASE max_new_tokens > 0
    <3>1. pc' = "append_step" /\ r' = 0 /\ step' = 0
      BY <2>1, <2>2, <1>1
    <3>2. \A s \in Seqs : LengthAt(s)' = prompt_lengths[s] + step
      BY <3>1, <2>1, <1>1 DEF LengthAt
    <3> QED
      BY <3>1, <3>2, <2>1, <2>2, <1>3 DEF EngineInStep, Ended
  <2>3. CASE ~(max_new_tokens > 0)
    BY <2>3, <1>1 DEF EngineInStep, Ended
  <2> QED
    BY <2>2, <2>3
<1>7. StepAttendsHistory'
  BY <1>1 DEF StepAttendsHistory
<1> QED
  BY <1>2, <1>4, <1>5, <1>6, <1>7 DEF RolloutInv

\* One token is appended to request r, at the length the engine keeps for it.
LEMMA AppendStepStep ==
  ASSUME RolloutInv, AppendStep
  PROVE  RolloutInv'
<1> DEFINE h == host_lens[r]
           toks == TokensOf(r, h, h)
<1>1. /\ EngineTypeOK /\ EngineInStep /\ IInv /\ PositionsHeld /\ NothingBehind
      /\ NoSpareBlocks /\ PlanSuffices
  BY DEF RolloutInv
<1>2. /\ r \in Seqs /\ r \in 0 .. num_requests - 1 /\ num_requests \in Nat \ {0}
      /\ \A s \in Seqs : s \in 0 .. num_requests - 1 /\ prompt_lengths[s] \in Nat \ {0}
      /\ step \in Nat /\ h = prompt_lengths[r] + step /\ prompt_lengths[r] \in PromptLens
      /\ h \in Nat /\ max_kv_len \in Nat /\ max_new_tokens \in Nat
  <2>1. /\ r \in Seqs /\ r \in 0 .. num_requests - 1 /\ num_requests \in Nat \ {0}
        /\ \A s \in Seqs : s \in 0 .. num_requests - 1 /\ prompt_lengths[s] \in Nat \ {0}
        /\ step \in Nat /\ h = prompt_lengths[r] + step /\ prompt_lengths[r] \in PromptLens
        /\ max_kv_len \in Nat /\ max_new_tokens \in Nat
    BY <1>1, EngineFacts, RequestIds
  <2>2. h \in Nat
    BY <2>1
  <2> QED
    BY <2>1, <2>2
<1>3. /\ pc = "append_step" /\ step < max_new_tokens
      /\ \A s \in Seqs : seq_lengths[s] = IF s >= r THEN prompt_lengths[s] + step
                                                    ELSE prompt_lengths[s] + step + 1
  BY <1>1 DEF AppendStep, EngineInStep, LengthAt, Ended
<1>4. /\ toks \in Batches(r) /\ Len(toks) = 1
      /\ \A t \in 1 .. 1 : toks[t] = <<r, h + t - 1>>
  <2>1. PICK a \in Nat \ {0} : /\ a = prompt_lengths[r] /\ a <= MaxAppend
                               /\ 0 .. a + max_new_tokens - 1 \subseteq Vals
    BY <1>2, PromptAssumption
  <2>2. h \in 0 .. a + max_new_tokens - 1 /\ h .. h = {h} /\ h <= h /\ h - h + 1 = 1
    BY <2>1, <1>2, <1>3
  <2>3. h .. h \subseteq Vals /\ h - h + 1 <= MaxAppend
    BY <2>1, <2>2, CacheBoundAssumption
  <2>4. /\ toks \in Batches(r) /\ Len(toks) = h - h + 1
        /\ \A t \in 1 .. h - h + 1 : toks[t] = <<r, h + t - 1>>
    <3>1. PICK c \in Nat, d \in Nat : c = h /\ d = h
      BY <1>2
    <3>2. r \in Seqs /\ c <= d /\ c .. d \subseteq Vals /\ d - c + 1 <= MaxAppend
      BY <3>1, <2>2, <2>3, <1>2
    <3>3. /\ TokensOf(r, c, d) \in Batches(r) /\ Len(TokensOf(r, c, d)) = d - c + 1
          /\ \A t \in 1 .. d - c + 1 : TokensOf(r, c, d)[t] = <<r, c + t - 1>>
      BY <3>2, TokensBatch
    <3> QED
      BY <3>1, <3>3, Zenon
  <2> QED
    BY <2>2, <2>4
<1>5. seq_lengths[r] = h
  BY <1>2, <1>3
<1> HIDE DEF h, toks
<1>6. CASE AppendFails(toks)
  <2>1. ASSUME \A s \in Seqs : prompt_lengths[s] <= max_kv_len
        PROVE  /\ \A w \in Seqs : seq_lengths[w] <= max_kv_len + max_new_tokens
               /\ seq_lengths[r] + Len(toks) <= max_kv_len + max_new_tokens
    <3>1. ASSUME NEW w \in Seqs
          PROVE  prompt_lengths[w] + step + 1 <= max_kv_len + max_new_tokens
                 /\ seq_lengths[w] <= max_kv_len + max_new_tokens
      <4>1. PICK a \in Nat : a = prompt_lengths[w] /\ a <= max_kv_len
        BY <2>1, <1>2
      <4>2. a + step + 1 <= max_kv_len + max_new_tokens
        BY <4>1, <1>2, <1>3
      <4>3. seq_lengths[w] = a + step \/ seq_lengths[w] = a + step + 1
        BY <4>1, <1>3
      <4> QED
        BY <4>1, <4>2, <4>3, <1>2
    <3>2. prompt_lengths[r] + step + 1 <= max_kv_len + max_new_tokens
      BY <3>1, <1>2
    <3>3. h + 1 <= max_kv_len + max_new_tokens
      BY <3>2, <1>2
    <3> QED
      BY <3>1, <3>3, <1>4, <1>5
  <2>2. pc \notin Ended
    BY <1>3 DEF Ended
  <2> QED
    BY <2>1, <2>2, <1>4, <1>6, AppendFailsStep
<1>7. CASE /\ AppendTokens(r, 0, toks)
           /\ r' = (r + 1) % num_requests
           /\ pc' = IF r + 1 < num_requests THEN "append_step" ELSE "sync"
           /\ UNCHANGED <<prompt_lengths, step, host_lens, has_lens, seq_lens, attended>>
  <2>1. \A t \in 1 .. Len(toks) : toks[t] = <<r, seq_lengths[r] + t - 1>>
    BY <1>4, <1>5
  <2>2. /\ IInv' /\ PositionsHeld'
        /\ seq_lengths' = [seq_lengths EXCEPT ![r] = @ + Len(toks)]
        /\ UNCHANGED allocation_failures
        /\ OnlyPositions => OnlyPositions'
        /\ (\A w \in Seqs : Len(seq_blocks[w]) <= CeilDiv(seq_lengths[w], block_size)) =>
             (\A w \in Seqs : Len(seq_blocks'[w]) <= CeilDiv(seq_lengths'[w], block_size))
    BY <2>1, <1>1, <1>2, <1>4, <1>7, AppendTaken
  <2>3. NoSpareBlocks' /\ NothingBehind'
    <3>1. pc \notin Ended
      BY <1>3 DEF Ended
    <3>2. \A w \in Seqs : Len(seq_blocks'[w]) <= CeilDiv(seq_lengths'[w], block_size)
      BY <3>1, <2>2, <1>1 DEF NoSpareBlocks
    <3>3. NoSpareBlocks'
      BY <3>2 DEF NoSpareBlocks, CeilDiv
    <3>4. NothingBehind'
      BY <3>1, <2>2, <1>1 DEF NothingBehind
    <3> QED
      BY <3>3, <3>4
  <2>4. r' = IF r + 1 < num_requests THEN r + 1 ELSE 0
    BY <1>2, <1>7, NextRequest
  <2>5. r' \in Seqs
    BY <2>4, <1>2, RequestIds
  <2>6. EngineTypeOK'
    BY <2>5, <1>1, <1>7 DEF EngineTypeOK, Ended
  <2>7. ASSUME NEW s \in Seqs
        PROVE  seq_lengths'[s] = IF s >= r + 1 THEN prompt_lengths[s] + step
                                               ELSE prompt_lengths[s] + step + 1
    <3>1. seq_lengths \in [Seqs -> Nat]
      BY <1>1 DEF IInv, TypeOK
    <3>2. CASE s = r
      <4>1. seq_lengths'[s] = h + 1
        BY <3>1, <3>2, <2>2, <1>4, <1>5
      <4>2. ~(s >= r + 1)
        BY <3>2, <1>2
      <4> QED
        BY <4>1, <4>2, <3>2, <1>2
    <3>3. CASE s # r
      <4>1. seq_lengths'[s] = seq_lengths[s]
        BY <3>1, <3>3, <2>2
      <4>2. s >= r <=> s >= r + 1
        BY <3>3, <1>2
      <4> QED
        BY <4>1, <4>2, <1>3
    <3> QED
      BY <3>2, <3>3
  <2>8. EngineInStep'
    <3>1. CASE r + 1 < num_requests
      <4>1. pc' = "append_step" /\ r' = r + 1
        BY <3>1, <2>4, <1>7
      <4>2. \A s \in Seqs : LengthAt(s)' = IF s >= r + 1 THEN prompt_lengths[s] + step
                                                         ELSE prompt_lengths[s] + step + 1
        BY <4>1, <1>7 DEF LengthAt
      <4> QED
        BY <4>1, <4>2, <2>7, <1>3, <1>7 DEF EngineInStep, Ended
    <3>2. CASE ~(r + 1 < num_requests)
      <4>1. pc' = "sync" /\ r' = 0
        BY <3>2, <2>4, <1>7
      <4>2. ASSUME NEW s \in Seqs
            PROVE  LengthAt(s)' = prompt_lengths[s] + step + 1 /\ ~(s >= r + 1)
        <5>1. ~(s >= r + 1)
          BY <3>2, <1>2
        <5>2. LengthAt(s)' = prompt_lengths'[s] + step' + 1
          BY <4>1 DEF LengthAt
        <5> QED
          BY <5>1, <5>2, <1>7
      <4> QED
        BY <4>1, <4>2, <2>7, <1>3, <1>7 DEF EngineInStep, Ended
    <3> QED
      BY <3>1, <3>2
  <2>9. StepAttendsHistory' /\ PlanSuffices'
    BY <1>1, <1>7, <2>2 DEF StepAttendsHistory, PlanSuffices
  <2> QED
    BY <2>2, <2>3, <2>6, <2>8, <2>9 DEF RolloutInv
<1> QED
  BY <1>6, <1>7 DEF AppendStep, toks, h

\* After SyncPageTable the revisions agree, whether or not it uploaded anything.
LEMMA SyncStep ==
  ASSUME RolloutInv, Sync
  PROVE  RolloutInv'
<1>1. /\ pc = "sync" /\ pc' = "attend"
      /\ seq_lens' = IF has_lens /\ KernelRuns THEN host_lens ELSE seq_lens
      /\ UNCHANGED <<prompt_lengths, r, step, host_lens, has_lens, attended>>
      /\ \/ ForceSyncPageTable
         \/ revision = synced_revision /\ UNCHANGED vars
  BY DEF Sync
<1>2. IInv'
  BY <1>1, SyncIInv, NextIInv DEF RolloutInv
<1>3. /\ UNCHANGED <<seq_lengths, seq_blocks, page_table_host, kv, allocation_failures>>
      /\ synced_revision' = revision' /\ (KernelRuns' => KernelRuns)
  BY <1>1 DEF ForceSyncPageTable, vars, bmVars, pageTable, KernelRuns
<1>4. PositionsHeld' /\ NothingBehind' /\ NoSpareBlocks' /\ PlanSuffices'
  BY <1>1, <1>3, QuietStep DEF Ended
<1>5. EngineTypeOK'
  BY <1>1 DEF RolloutInv, EngineTypeOK, Ended
<1>6. EngineInStep'
  BY <1>1, <1>3 DEF RolloutInv, EngineInStep, LengthAt, Ended
<1>7. StepAttendsHistory'
  BY <1>1 DEF StepAttendsHistory
<1> QED
  BY <1>2, <1>4, <1>5, <1>6, <1>7 DEF RolloutInv

-----------------------------------------------------------------------------
\* The engine's call describes the cache as it is.
LEMMA StepCallFits ==
  ASSUME NEW lens \in BOOLEAN
  PROVE  StepCall(lens) \in RequestType /\ OwnGeometry(StepCall(lens)) /\ StepCall(lens).layer = 0
<1>1. /\ num_requests \in Int /\ block_size \in Nat \ {0} /\ num_blocks \in Nat \ {0}
      /\ max_blocks_per_seq = num_blocks
  BY RequestIds, Geometry
<1>2. StepCall(lens) \in RequestType
  BY <1>1 DEF StepCall, RequestType
<1>3. /\ BlockSizeOf(StepCall(lens)) = block_size
      /\ MaxBlocksOf(StepCall(lens)) = max_blocks_per_seq
  BY <1>1 DEF StepCall, BlockSizeOf, MaxBlocksOf
<1> QED
  BY <1>2, <1>3 DEF OwnGeometry, StepCall

\* A term is a record of its split, its token and what was read.
LEMMA TermRecords ==
  ASSUME NEW q, NEW s, NEW n, NEW x \in TermsRead(q, s, n)
  PROVE  x = [split |-> x.split, token |-> x.token, read |-> x.read]
<1>1. PICK k \in 0 .. SplitsOf(q) - 1 : x \in SplitTerms(q, s, n, k)
  BY DEF TermsRead
<1>2. PICK j : x = [split |-> k, token |-> j, read |-> RowRead(q, s, j)]
  BY <1>1 DEF SplitTerms
<1> QED
  BY <1>2

\* The slots a call reads for the first n tokens of s hold the positions 0 .. n - 1.
LEMMA ReadsPositions ==
  ASSUME IInv, PositionsHeld, PageTableCurrent, NEW s \in Seqs, NEW n \in 0 .. seq_lengths[s]
  PROVE  SK!EachOnce({[x EXCEPT !.read = kv[0][@]] : x \in TermsRead(StepCall(TRUE), s, n)},
                     [j \in 0 .. n - 1 |-> <<s, j>>])
<1> DEFINE T == TermsRead(StepCall(TRUE), s, n)
           slot(j) == SlotOf(page_table_host[s], j)
           Read(x) == [x EXCEPT !.read = kv[0][@]]
           A == {Read(x) : x \in T}
           expected == [j \in 0 .. n - 1 |-> <<s, j>>]
<1>1. SK!EachOnce(T, [j \in 0 .. n - 1 |-> slot(j)])
  BY StepCallFits, ReadsOwnSlots
<1>2. seq_lengths[s] \in Nat /\ n \in Nat /\ n <= seq_lengths[s]
  BY DEF IInv, TypeOK
<1>3. ASSUME NEW j \in 0 .. n - 1
      PROVE  kv[0][slot(j)] = <<s, j>>
  <2>1. PICK p \in 1 .. seq_lengths[s] : p = j + 1 /\ p - 1 = j
    BY <1>2
  <2> QED
    BY <2>1 DEF PositionsHeld
<1>4. ASSUME NEW x \in T
      PROVE  Read(x).token = x.token /\ Read(x).read = kv[0][x.read]
  <2>1. x = [split |-> x.split, token |-> x.token, read |-> x.read]
    BY TermRecords
  <2> QED
    BY <2>1
<1>5. /\ \A j \in 0 .. n - 1 : \E x \in T : x.token = j
      /\ \A x \in T : x.token \in 0 .. n - 1 /\ x.read = slot(x.token)
      /\ \A x, y \in T : x.token = y.token => x = y
  BY <1>1 DEF SK!EachOnce
<1> HIDE DEF T, Read, slot
<1>6. \A j \in 0 .. n - 1 : \E a \in A : a.token = j
  BY <1>4, <1>5
<1>7. ASSUME NEW a \in A
      PROVE  a.token \in 0 .. n - 1 /\ a.read = <<s, a.token>>
  <2>1. PICK x \in T : a = Read(x)
    OBVIOUS
  <2>2. a.token = x.token /\ a.read = kv[0][x.read]
    BY <2>1, <1>4
  <2>3. x.token \in 0 .. n - 1 /\ x.read = slot(x.token)
    BY <2>1, <1>5
  <2> QED
    BY <2>2, <2>3, <1>3
<1>8. ASSUME NEW a \in A, NEW b \in A, a.token = b.token
      PROVE  a = b
  <2>1. PICK x \in T : a = Read(x)
    OBVIOUS
  <2>2. PICK y \in T : b = Read(y)
    OBVIOUS
  <2>3. x.token = y.token
    BY <2>1, <2>2, <1>4, <1>8
  <2> QED
    BY <2>1, <2>2, <2>3, <1>5
<1> HIDE DEF A
<1>9. DOMAIN expected = 0 .. n - 1 /\ \A j \in 0 .. n - 1 : expected[j] = <<s, j>>
  OBVIOUS
<1> HIDE DEF expected
<1>10. SK!EachOnce(A, expected)
  BY <1>6, <1>7, <1>8, <1>9 DEF SK!EachOnce
<1> QED
  BY <1>10 DEF A, Read, T, expected

\* Without lengths a call reads the positions of s, each once, and slots without a token.
LEMMA ReadsPositionsAndBlanks ==
  ASSUME IInv, PositionsHeld, OnlyPositions, PageTableCurrent, NEW s \in Seqs
  PROVE  LET A == {[x EXCEPT !.read = kv[0][@]] : x \in TermsReadWithoutLens(StepCall(FALSE), s)}
         IN /\ \A j \in 0 .. seq_lengths[s] - 1 : \E a \in A : a.token = j /\ a.read = <<s, j>>
            /\ \A a \in A : a.read = <<s, a.token>> \/ a.read = Blank
            /\ \A a, b \in A : a.token = b.token => a = b
<1> DEFINE q == StepCall(FALSE)
           T == TermsReadWithoutLens(q, s)
           slot(j) == SlotOf(page_table_host[s], j)
           Read(x) == [x EXCEPT !.read = kv[0][@]]
           A == {Read(x) : x \in T}
<1>1. q \in RequestType /\ OwnGeometry(q) /\ q.layer \in Layers
  BY StepCallFits, RequestIds
<1>2. /\ \A j \in 0 .. seq_lengths[s] - 1 : \E x \in T : x.token = j /\ x.read = slot(j)
      /\ \A x \in T : x.read \in Slots /\ Owns(s, x.read \div block_size)
      /\ \A x, y \in T : x.read = y.read => x = y
      /\ \A x, y \in T : x.token = y.token => x = y
  BY <1>1, ReadsOwnBlocks
<1>3. ASSUME NEW x \in T
      PROVE  Read(x).token = x.token /\ Read(x).read = kv[0][x.read]
  <2>1. x = [split |-> x.split, token |-> x.token, read |-> x.read]
    BY TermRecords DEF TermsReadWithoutLens
  <2> QED
    BY <2>1
<1> HIDE DEF T, Read, q
<1>4. seq_lengths[s] \in Nat
  BY DEF IInv, TypeOK
<1>5. ASSUME NEW j \in 0 .. seq_lengths[s] - 1
      PROVE  kv[0][slot(j)] = <<s, j>>
  <2>1. PICK p \in 1 .. seq_lengths[s] : p - 1 = j
    <3>1. j + 1 \in 1 .. seq_lengths[s] /\ (j + 1) - 1 = j
      BY <1>4
    <3> QED
      BY <3>1
  <2> QED
    BY <2>1 DEF PositionsHeld
<1>6. ASSUME NEW x \in T, kv[0][x.read] # Blank
      PROVE  kv[0][x.read] = <<s, x.token>>
  <2>0. PICK w \in Seqs : \E p \in 1 .. seq_lengths[w] : x.read = SlotOf(page_table_host[w], p - 1)
    <3>1. PICK y \in Slots : y = x.read
      BY <1>2
    <3> QED
      BY <3>1, <1>6 DEF OnlyPositions
  <2>1. PICK p \in 1 .. seq_lengths[w] : x.read = SlotOf(page_table_host[w], p - 1)
    BY <2>0
  <2>2. Owns(w, x.read \div block_size)
    <3>1. /\ seq_blocks[w] \in Seq(BM!Blocks) /\ seq_lengths[w] \in Nat
          /\ seq_lengths[w] <= Len(seq_blocks[w]) * block_size
          /\ page_table_host[w] = Padded(seq_blocks[w]) /\ TypeOK /\ Ownership
      BY DEF IInv, TypeOK, Ownership, RowsAgree, LengthCovered
    <3>2. Len(seq_blocks[w]) \in Nat /\ Len(seq_blocks[w]) <= num_blocks
      BY <3>1, OwnedAndFree, Geometry
    <3>3. PICK j \in Nat : j = p - 1 /\ j < Len(seq_blocks[w]) * block_size
      <4>1. PICK c \in Nat : c = Len(seq_blocks[w]) * block_size
        BY <3>2, Geometry
      <4>2. p - 1 \in Nat /\ p - 1 < c
        BY <3>1, <4>1
      <4> QED
        BY <4>1, <4>2
    <3>4. /\ j \div block_size + 1 \in DOMAIN seq_blocks[w]
          /\ SlotOf(Padded(seq_blocks[w]), j) \div block_size = seq_blocks[w][j \div block_size + 1]
      BY <3>1, <3>2, <3>3, SlotOfOwned
    <3>5. x.read = SlotOf(Padded(seq_blocks[w]), j)
      BY <2>1, <3>1, <3>3
    <3> QED
      BY <3>4, <3>5 DEF Owns
  <2>3. w = s
    <3>1. PICK i \in DOMAIN seq_blocks[w] : seq_blocks[w][i] = x.read \div block_size
      BY <2>2 DEF Owns
    <3>2. PICK j \in DOMAIN seq_blocks[s] : seq_blocks[s][j] = x.read \div block_size
      BY <1>2 DEF Owns
    <3>3. ExclusiveOwnership
      BY DEF IInv, Ownership
    <3> QED
      BY <3>1, <3>2, <3>3 DEF ExclusiveOwnership
  <2>4. p - 1 \in 0 .. seq_lengths[s] - 1
    BY <2>1, <2>3, <1>4
  <2>5. PICK y \in T : y.token = p - 1 /\ y.read = slot(p - 1)
    BY <2>4, <1>2
  <2>6. x = y
    BY <2>1, <2>3, <2>5, <1>2
  <2> QED
    BY <2>4, <2>5, <2>6, <1>5
<1> HIDE DEF slot
<1>7. \A j \in 0 .. seq_lengths[s] - 1 : \E a \in A : a.token = j /\ a.read = <<s, j>>
  BY <1>2, <1>3, <1>5
<1>8. \A a \in A : a.read = <<s, a.token>> \/ a.read = Blank
  BY <1>3, <1>6
<1>9. \A a, b \in A : a.token = b.token => a = b
  BY <1>2, <1>3
<1> HIDE DEF A
<1> QED
  BY <1>7, <1>8, <1>9 DEF A, T, Read, q

\* The attention call of a decode step sums up the history.
LEMMA AttendStep ==
  ASSUME RolloutInv, Attend
  PROVE  RolloutInv'
<1>1. /\ pc = "attend" /\ pc' \in {"advance", "exit4"}
      /\ UNCHANGED <<cacheState, prompt_lengths, r, step, host_lens, has_lens, seq_lens>>
      /\ LaunchRaw \/ cuda_error' \in MaybeStale(TRUE) \/ cuda_error' = "lost"
  BY DEF Attend, Exit
<1>2. IInv'
  BY <1>1, ReadDeviceIInv DEF RolloutInv
<1>3. UNCHANGED <<seq_lengths, seq_blocks, page_table_host, kv, allocation_failures>>
  BY <1>1 DEF cacheState, bmVars
<1>4. PositionsHeld' /\ NothingBehind' /\ NoSpareBlocks' /\ PlanSuffices'
  BY <1>1, <1>3, QuietStep DEF Ended
<1>5. EngineTypeOK'
  BY <1>1 DEF RolloutInv, EngineTypeOK, Ended
<1>6. EngineInStep'
  BY <1>1, <1>3 DEF RolloutInv, EngineInStep, LengthAt, Ended
<1>7. StepAttendsHistory'
  <2>1. SUFFICES ASSUME pc' = "advance", KernelRuns', NEW s \in Seqs
                 PROVE  /\ \A j \in 0 .. prompt_lengths[s] + step - 1 :
                             \E x \in attended'[s] : x.token = j /\ x.read = <<s, j>>
                        /\ \A x \in attended'[s] :
                             x.read = <<s, x.token>> \/ (~has_lens /\ x.read = Blank)
                        /\ \A x, y \in attended'[s] : x.token = y.token => x = y
    BY <1>1 DEF StepAttendsHistory
  <2>2. LaunchOk /\ attended'[s] = {[x EXCEPT !.read = kv[0][@]] : x \in StepTerms(s)}
    BY <2>1 DEF Attend, Exit, KernelRuns
  <2>3. /\ IInv /\ PositionsHeld /\ OnlyPositions /\ EngineTypeOK
        /\ synced_revision = revision
        /\ has_lens /\ KernelRuns => seq_lens = host_lens
        /\ seq_lengths[s] = prompt_lengths[s] + step + 1
    BY <1>1 DEF RolloutInv, NothingBehind, EngineInStep, LengthAt, Ended
  <2>4. PageTableCurrent /\ KernelRuns
    BY <2>2, <2>3 DEF PageTableCurrent, LaunchOk, KernelRuns
  <2>5. PICK n \in Nat : /\ n = host_lens[s] /\ seq_lengths[s] = n + 1
                         /\ 0 .. prompt_lengths[s] + step - 1 = 0 .. n - 1
    <3>1. PICK a \in Nat, d \in Nat : a = prompt_lengths[s] /\ d = step /\ host_lens[s] = a + d
      BY <2>3, EngineFacts
    <3>2. a + d \in Nat /\ seq_lengths[s] = (a + d) + 1 /\ a + d - 1 = (a + d) - 1
      BY <3>1, <2>3
    <3> QED
      BY <3>1, <3>2, Zenon
  <2>6. CASE has_lens
    <3>1. attended'[s] = {[x EXCEPT !.read = kv[0][@]] : x \in TermsRead(StepCall(TRUE), s, n)}
      BY <2>2, <2>3, <2>4, <2>5, <2>6 DEF StepTerms
    <3>2. n \in 0 .. seq_lengths[s]
      BY <2>3, <2>5
    <3>3. SK!EachOnce(attended'[s], [j \in 0 .. n - 1 |-> <<s, j>>])
      BY <3>1, <3>2, <2>3, <2>4, ReadsPositions
    <3>4. /\ \A j \in 0 .. n - 1 : \E x \in attended'[s] : x.token = j
          /\ \A x \in attended'[s] : x.token \in 0 .. n - 1 /\ x.read = <<s, x.token>>
          /\ \A x, y \in attended'[s] : x.token = y.token => x = y
      BY <3>3 DEF SK!EachOnce
    <3>5. \A j \in 0 .. n - 1 : \E x \in attended'[s] : x.token = j /\ x.read = <<s, j>>
      BY <3>4
    <3> QED
      BY <3>4, <3>5, <2>5, Zenon
  <2>7. CASE ~has_lens
    <3>1. attended'[s] = {[x EXCEPT !.read = kv[0][@]] :
                            x \in TermsReadWithoutLens(StepCall(FALSE), s)}
      BY <2>2, <2>7 DEF StepTerms
    <3>2. /\ \A j \in 0 .. seq_lengths[s] - 1 :
               \E x \in attended'[s] : x.token = j /\ x.read = <<s, j>>
          /\ \A x \in attended'[s] : x.read = <<s, x.token>> \/ x.read = Blank
          /\ \A x, y \in attended'[s] : x.token = y.token => x = y
      BY <3>1, <2>3, <2>4, ReadsPositionsAndBlanks
    <3>3. \A j \in 0 .. n - 1 : j \in 0 .. seq_lengths[s] - 1
      BY <2>5
    <3> QED
      BY <3>2, <3>3, <2>5, <2>7, Zenon
  <2> QED
    BY <2>6, <2>7
<1> QED
  BY <1>2, <1>4, <1>5, <1>6, <1>7 DEF RolloutInv

\* The next decode step starts with one more token in every request.
LEMMA AdvanceStep ==
  ASSUME RolloutInv, Advance
  PROVE  RolloutInv'
<1>1. /\ pc = "advance" /\ pc' = IF step + 1 < max_new_tokens THEN "append_step" ELSE "done"
      /\ host_lens' = [s \in Seqs |-> host_lens[s] + 1] /\ step' = step + 1
      /\ UNCHANGED <<vars, prompt_lengths, r, has_lens, seq_lens, attended>>
  BY DEF Advance
<1>2. IInv'
  BY <1>1, NextIInv DEF RolloutInv
<1>3. UNCHANGED <<seq_lengths, seq_blocks, page_table_host, kv, allocation_failures>>
  BY <1>1 DEF vars, bmVars
<1>4. PositionsHeld' /\ NothingBehind' /\ NoSpareBlocks' /\ PlanSuffices'
  BY <1>1, <1>3, QuietStep DEF Ended
<1>5. /\ EngineTypeOK /\ r = 0
      /\ \A s \in Seqs : seq_lengths[s] = prompt_lengths[s] + step + 1
  BY <1>1 DEF RolloutInv, EngineInStep, LengthAt, Ended
<1>6. /\ step \in Nat
      /\ \A s \in Seqs : /\ s \in Nat /\ prompt_lengths[s] \in Nat
                         /\ host_lens[s] = prompt_lengths[s] + step
  BY <1>5, EngineFacts
<1>7. \A s \in Seqs : host_lens[s] + 1 = prompt_lengths[s] + (step + 1)
  BY <1>6
<1>8. EngineTypeOK'
  <2>1. host_lens' = [s \in Seqs |-> prompt_lengths'[s] + step']
    BY <1>1, <1>7
  <2> QED
    BY <2>1, <1>1, <1>5, <1>6 DEF EngineTypeOK, Ended
<1>9. EngineInStep'
  <2>1. CASE step + 1 < max_new_tokens
    <3>1. pc' = "append_step" /\ r' = 0
      BY <2>1, <1>1, <1>5
    <3>2. ASSUME NEW s \in Seqs
          PROVE  LengthAt(s)' = seq_lengths'[s]
      <4>1. LengthAt(s)' = prompt_lengths[s] + (step + 1)
        BY <3>1, <1>1, <1>6 DEF LengthAt
      <4>2. seq_lengths'[s] = prompt_lengths[s] + (step + 1)
        BY <1>3, <1>5, <1>6
      <4> QED
        BY <4>1, <4>2
    <3> QED
      BY <3>1, <3>2, <2>1, <1>1 DEF EngineInStep, Ended
  <2>2. CASE ~(step + 1 < max_new_tokens)
    BY <2>2, <1>1 DEF EngineInStep, Ended
  <2> QED
    BY <2>1, <2>2
<1>10. StepAttendsHistory'
  BY <1>1 DEF StepAttendsHistory
<1> QED
  BY <1>2, <1>4, <1>8, <1>9, <1>10 DEF RolloutInv

\* An error left behind by somebody else, and a stuttering step, change no token.
LEMMA EventErrorStep ==
  ASSUME RolloutInv, EventError \/ UNCHANGED rolloutVars
  PROVE  RolloutInv'
<1>1. /\ UNCHANGED <<pc, prompt_lengths, r, step, host_lens, has_lens, seq_lens, attended>>
      /\ ForeignCudaError \/ UNCHANGED vars
  BY DEF EventError, rolloutVars, engine
<1>2. IInv'
  BY <1>1, SyncIInv, NextIInv DEF RolloutInv
<1>3. /\ UNCHANGED <<seq_lengths, seq_blocks, page_table_host, kv, allocation_failures, revision,
                     synced_revision>>
      /\ KernelRuns' => KernelRuns
  BY <1>1 DEF ForeignCudaError, vars, bmVars, pageTable, KernelRuns
<1>4. PositionsHeld' /\ NothingBehind' /\ NoSpareBlocks' /\ PlanSuffices'
  BY <1>1, <1>3, QuietStep
<1>5. EngineTypeOK'
  BY <1>1 DEF RolloutInv, EngineTypeOK
<1>6. EngineInStep'
  BY <1>1, <1>3 DEF RolloutInv, EngineInStep, LengthAt
<1>7. StepAttendsHistory'
  BY <1>1, <1>3 DEF RolloutInv, StepAttendsHistory
<1> QED
  BY <1>2, <1>4, <1>5, <1>6, <1>7 DEF RolloutInv

\* Every step of the program keeps the invariant.
LEMMA RolloutSpecInv == RolloutSpec => []RolloutInv
<1>1. ASSUME RolloutInv, [RolloutNext]_rolloutVars
      PROVE  RolloutInv'
  BY <1>1, PlanStep, PrefillStep, AppendPromptStep, AllocateLensStep, AppendStepStep, SyncStep,
     AttendStep, AdvanceStep, EventErrorStep DEF RolloutNext, Program
<1> QED
  BY <1>1, RolloutInitInv, PTL DEF RolloutSpec

\* Every decode step whose kernels ran attends, for each request, to the whole prompt and
\* all tokens of the earlier steps, reads no position twice and no token of another request
\* or of another position, for every number of requests, prompt lengths, block size and
\* split count, with and without the lengths on the device.
THEOREM StepAttendsHistoryHolds == RolloutSpec => []StepAttendsHistory
<1>1. RolloutInv => StepAttendsHistory
  BY DEF RolloutInv
<1> QED
  BY <1>1, RolloutSpecInv, PTL

\* With prompts of at most max_kv_len tokens the planned pool never refuses an append.
THEOREM PlanSufficesHolds == RolloutSpec => []PlanSuffices
<1>1. RolloutInv => PlanSuffices
  BY DEF RolloutInv
<1> QED
  BY <1>1, RolloutSpecInv, PTL

\* The cache under the engine keeps its own invariants.
THEOREM CacheInvariantsInRollout ==
  RolloutSpec => [](TypeOK /\ Ownership /\ LengthCovered /\ DevicePageTableFresh /\ NoCrossTalk)
<1>1. RolloutInv => TypeOK /\ Ownership /\ LengthCovered /\ DevicePageTableFresh /\ NoCrossTalk
  BY DEF RolloutInv, IInv
<1> QED
  BY <1>1, RolloutSpecInv, PTL
=============================================================================
