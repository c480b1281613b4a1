------------------------------ MODULE Workspace ------------------------------
(***************************************************************************)
(* sca::Workspace (src/runtime/workspace.cpp): one device buffer that      *)
(* callers cut into slices at offsets they choose.  Sizes are size_t:      *)
(* unsigned arithmetic modulo SizeMod.                                       *)
(***************************************************************************)
EXTENDS Integers, Sequences

CONSTANTS
  Sizes,     \* values of size_t that callers pass
  SizeMod    \* number of values of size_t

ASSUME SizeAssumption == SizeMod \in Nat \ {0} /\ Sizes \subseteq 0 .. SizeMod - 1

VARIABLES
  bytes,        \* size of the buffer, 0 when the workspace is not initialised
  peak_bytes,   \* largest end of a slice so far
  slices        \* the slices handed out since the last Reset, as [first, second]

workspaceVars == <<bytes, peak_bytes, slices>>

Add(a, b) == (a + b) % SizeMod
Sub(a, b) == (a - b) % SizeMod
Valid == bytes # 0

WorkspaceInit == bytes = 0 /\ peak_bytes = 0 /\ slices = <<>>

\* A new Workspace takes the place of the old one; when this fails the old one stays.
Create(b) ==
  /\ b # 0
  /\ bytes' = b
  /\ peak_bytes' = 0
  /\ slices' = <<>>

\* Mutation of Fits: the end of the slice is compared, and may have wrapped around.
FitsSum(offset, n) == Add(offset, n) <= bytes

Fits(offset, n) == ~(offset > bytes \/ n > Sub(bytes, offset))

Aligned(offset, align) == align # 0 /\ offset % align = 0

Identical(begin, end) == \E i \in DOMAIN slices : slices[i] = [first |-> begin, second |-> end]

Overlaps(begin, end) ==
  \E i \in DOMAIN slices : ~(end <= slices[i].first \/ begin >= slices[i].second)

\* Mutation of Slice: the high-water mark forgets the larger slices before it.
SliceLastPeak(offset, n, align) ==
  LET end == Add(offset, n) IN
  /\ Valid /\ n # 0 /\ Aligned(offset, align) /\ Fits(offset, n)
  /\ ~(Overlaps(offset, end) /\ ~Identical(offset, end))
  /\ slices' = IF Identical(offset, end) THEN slices
               ELSE Append(slices, [first |-> offset, second |-> end])
  /\ peak_bytes' = end
  /\ UNCHANGED bytes

\* Slice: a range that overlaps another is refused unless it is the same range.
Slice(offset, n, align) ==
  LET end == Add(offset, n) IN
  /\ Valid /\ n # 0 /\ Aligned(offset, align) /\ Fits(offset, n)
  /\ ~(Overlaps(offset, end) /\ ~Identical(offset, end))
  /\ slices' = IF Identical(offset, end) THEN slices
               ELSE Append(slices, [first |-> offset, second |-> end])
  /\ peak_bytes' = IF end > peak_bytes THEN end ELSE peak_bytes
  /\ UNCHANGED bytes

Reset ==
  /\ Valid
  /\ slices' = <<>>
  /\ UNCHANGED <<bytes, peak_bytes>>

WorkspaceNext ==
  \/ \E b \in Sizes : Create(b)
  \/ \E offset, n, align \in Sizes : Slice(offset, n, align)
  \/ Reset

WorkspaceSpec == WorkspaceInit /\ [][WorkspaceNext]_workspaceVars

-----------------------------------------------------------------------------
SliceRecords == [first : 0 .. SizeMod - 1, second : 0 .. SizeMod - 1]

\* Types: offsets and ends are values of size_t.
TypeOK ==
  /\ bytes \in 0 .. SizeMod - 1
  /\ peak_bytes \in 0 .. SizeMod - 1
  /\ slices \in Seq(SliceRecords)

\* Every slice lies inside the buffer and no two of them share a byte, whatever sizes
\* and offsets were asked for (the sum of the two may exceed size_t).
SlicesDisjoint ==
  /\ \A i \in DOMAIN slices :
       0 <= slices[i].first /\ slices[i].first < slices[i].second /\ slices[i].second <= bytes
  /\ \A i, j \in DOMAIN slices :
       i # j => slices[i].second <= slices[j].first \/ slices[j].second <= slices[i].first

\* PeakBytes covers every slice in use and never exceeds the buffer; in particular
\* Reset, which forgets the slices, keeps it.
PeakCovers ==
  /\ peak_bytes <= bytes
  /\ \A i \in DOMAIN slices : slices[i].second <= peak_bytes
=============================================================================
