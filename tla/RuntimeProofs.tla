----------------------------- MODULE RuntimeProofs ----------------------------
(***************************************************************************)
(* Proofs about the host side of a call: the dispatcher, for every set of  *)
(* requests and every device; the varlen call, for every set of offset     *)
(* arrays; and the workspace, for every width of size_t.                   *)
(*                                                                         *)
(* Each check list of the code is first turned into the conjunction of its *)
(* conditions (the lemmas named ...Means).  The invariants CallInv and     *)
(* VarlenInv then say which of them have been passed at which step.        *)
(***************************************************************************)
EXTENDS Varlen, Workspace, ProofLemmas

\* The least element of a non-empty set of natural numbers.
LEMMA MinLeast ==
  ASSUME NEW T, T \subseteq Nat, T # {}
  PROVE  Min(T) \in T /\ \A y \in T : Min(T) <= y
<1>1. \E x \in T : \A y \in T : x <= y
  BY LeastNat
<1> QED
  BY <1>1 DEF Min

-----------------------------------------------------------------------------
Codes ==
  {"ok", "kShapeMismatch", "kLayoutMismatch", "kUnsupportedDtype", "kUnsupportedFeature",
   "kUnsupportedLayout", "kUnsupportedHeadDim", "kWorkspaceExceeded", "kDeviceCapability"}
Checks == [holds : BOOLEAN, code : Codes]
AllHold(checks) == \A i \in DOMAIN checks : checks[i].holds
\* No check reports success.
WellCoded(checks) == \A i \in DOMAIN checks : ~checks[i].holds => checks[i].code # "ok"

\* The status is Ok exactly when every check holds; otherwise it is the code of one that
\* fails.
LEMMA FirstErrorMeans ==
  ASSUME NEW checks \in Seq(Checks), WellCoded(checks)
  PROVE  /\ FirstError(checks) \in Codes
         /\ FirstError(checks) = "ok" <=> AllHold(checks)
         /\ FirstError(checks) # "ok" =>
              \E i \in DOMAIN checks : ~checks[i].holds /\ FirstError(checks) = checks[i].code
<1> DEFINE failed == {i \in DOMAIN checks : ~checks[i].holds}
<1>1. FirstError(checks) = IF failed = {} THEN "ok" ELSE checks[Min(failed)].code
  BY DEF FirstError
<1>2. failed \subseteq Nat
  OBVIOUS
<1>3. CASE failed = {}
  <2>1. AllHold(checks)
    BY <1>3 DEF AllHold
  <2>2. FirstError(checks) = "ok"
    BY <1>1, <1>3
  <2>3. FirstError(checks) \in Codes
    BY <2>2 DEF Codes
  <2> QED
    BY <2>1, <2>2, <2>3
<1>4. CASE failed # {}
  <2>1. Min(failed) \in failed
    BY <1>2, <1>4, MinLeast
  <2> DEFINE n == Min(failed)
  <2>2. n \in DOMAIN checks /\ ~checks[n].holds
    BY <2>1
  <2>3. FirstError(checks) = checks[n].code
    BY <1>1, <1>4
  <2> HIDE DEF n
  <2>4. ~AllHold(checks) /\ checks[n].code # "ok"
    BY <2>2 DEF AllHold, WellCoded
  <2>5. checks[n] \in Checks
    BY <2>2
  <2> QED
    BY <2>2, <2>3, <2>4, <2>5 DEF Checks
<1> QED
  BY <1>3, <1>4

\* Checks in a row.
LEMMA ConcatChecks ==
  ASSUME NEW s \in Seq(Checks), NEW t \in Seq(Checks)
  PROVE  /\ s \o t \in Seq(Checks)
         /\ AllHold(s \o t) <=> AllHold(s) /\ AllHold(t)
         /\ WellCoded(s) /\ WellCoded(t) => WellCoded(s \o t)
         /\ \A i \in DOMAIN (s \o t) :
              (\E j \in DOMAIN s : (s \o t)[i] = s[j]) \/ (\E j \in DOMAIN t : (s \o t)[i] = t[j])
<1> DEFINE c == s \o t
<1>1. /\ c \in Seq(Checks) /\ Len(c) = Len(s) + Len(t)
      /\ \A i \in 1 .. Len(s) : c[i] = s[i]
      /\ \A k \in 1 .. Len(t) : c[Len(s) + k] = t[k]
  BY ConcatElements
<1>2. DOMAIN s = 1 .. Len(s) /\ DOMAIN t = 1 .. Len(t) /\ Len(s) \in Nat /\ Len(t) \in Nat
  OBVIOUS
<1> HIDE DEF c
<1>3. DOMAIN c = 1 .. Len(s) + Len(t)
  BY <1>1
<1>4. ASSUME NEW i \in DOMAIN c
      PROVE  (\E j \in DOMAIN s : c[i] = s[j]) \/ (\E j \in DOMAIN t : c[i] = t[j])
  <2>1. CASE i <= Len(s)
    BY <1>1, <1>2, <1>3, <2>1
  <2>2. CASE i > Len(s)
    <3>1. i - Len(s) \in 1 .. Len(t) /\ i = Len(s) + (i - Len(s))
      BY <1>2, <1>3, <2>2
    <3> QED
      BY <1>1, <1>2, <3>1
  <2> QED
    BY <1>2, <1>3, <2>1, <2>2
<1>5. AllHold(c) => AllHold(s) /\ AllHold(t)
  <2> SUFFICES ASSUME AllHold(c) PROVE AllHold(s) /\ AllHold(t) OBVIOUS
  <2>1. ASSUME NEW j \in DOMAIN s PROVE s[j].holds
    <3>1. j \in DOMAIN c /\ c[j] = s[j]
      BY <1>1, <1>2, <1>3
    <3> QED
      BY <3>1 DEF AllHold
  <2>2. ASSUME NEW j \in DOMAIN t PROVE t[j].holds
    <3>1. Len(s) + j \in DOMAIN c /\ c[Len(s) + j] = t[j]
      BY <1>1, <1>2, <1>3
    <3> QED
      BY <3>1 DEF AllHold
  <2> QED
    BY <2>1, <2>2 DEF AllHold
<1>6. AllHold(s) /\ AllHold(t) => AllHold(c)
  BY <1>4 DEF AllHold
<1>7. WellCoded(s) /\ WellCoded(t) => WellCoded(c)
  BY <1>4 DEF WellCoded
<1> QED
  BY <1>1, <1>4, <1>5, <1>6, <1>7 DEF c

-----------------------------------------------------------------------------
RequestType == [cfg : Configs, q : Tensors, k : Tensors, v : Tensors]
Shapes ==
  [batch : Nat, num_heads : Nat, seq_q : Nat, head_dim : Nat, seq_kv : Nat, num_kv_heads : Nat]

\* A shape is made of dimensions.
LEMMA ShapeType ==
  ASSUME NEW q \in RequestType
  PROVE  ShapeOf(q) \in Shapes
<1>1. q.q \in Tensors /\ q.k \in Tensors
  BY DEF RequestType
<1>2. HeadAxis(q.cfg.layout) \in 1 .. 4 /\ SeqAxis(q.cfg.layout) \in 1 .. 4
  BY DEF HeadAxis, SeqAxis
<1>3. \A i \in 1 .. 4 : q.q.dim[i] \in Nat /\ q.k.dim[i] \in Nat
  BY <1>1 DEF Tensors
<1> QED
  BY <1>2, <1>3 DEF ShapeOf, Shapes

\* One check, as a sequence of its own.
LEMMA OneCheck ==
  ASSUME NEW a \in BOOLEAN, NEW code \in Codes, ~a => code # "ok"
  PROVE  /\ <<Check(a, code)>> \in Seq(Checks) /\ WellCoded(<<Check(a, code)>>)
         /\ AllHold(<<Check(a, code)>>) <=> a
<1>1. Check(a, code) \in Checks /\ Check(a, code).holds = a /\ Check(a, code).code = code
  BY DEF Check, Checks
<1> DEFINE c == Check(a, code)
<1> HIDE DEF c
<1>2. c \in Checks /\ c.holds = a /\ c.code = code
  BY <1>1 DEF c
<1>3. <<c>> \in Seq(Checks) /\ DOMAIN <<c>> = {1} /\ <<c>>[1] = c
  BY <1>2
<1> QED
  BY <1>2, <1>3 DEF c, WellCoded, AllHold

\* What passing the checks of one tensor means.
LEMMA TensorChecksMean ==
  ASSUME NEW t \in Tensors
  PROVE  /\ TensorChecks(t) \in Seq(Checks) /\ WellCoded(TensorChecks(t))
         /\ AllHold(TensorChecks(t)) =>
              t.ndims = 4 /\ t.contiguous /\ t.dtype \in {"fp32", "fp16", "bf16"} /\ t.cuda
<1> DEFINE a == Check(t.ndims = 4, "kShapeMismatch")
           b == Check(t.contiguous, "kLayoutMismatch")
           c == Check(t.dtype \in {"fp32", "fp16", "bf16"}, "kUnsupportedDtype")
           d == Check(t.cuda, "kUnsupportedFeature")
<1>1. a \in Checks /\ b \in Checks /\ c \in Checks /\ d \in Checks
  <2>1. t.contiguous \in BOOLEAN /\ t.cuda \in BOOLEAN
    BY DEF Tensors
  <2> QED
    BY <2>1 DEF Check, Checks, Codes
<1>2. /\ a.code # "ok" /\ b.code # "ok" /\ c.code # "ok" /\ d.code # "ok"
      /\ a.holds <=> t.ndims = 4
      /\ b.holds <=> t.contiguous
      /\ c.holds <=> t.dtype \in {"fp32", "fp16", "bf16"}
      /\ d.holds <=> t.cuda
  BY DEF Check
<1>3. TensorChecks(t) = <<a, b, c, d>>
  BY DEF TensorChecks
<1> HIDE DEF a, b, c, d
<1> QED
  BY <1>1, <1>2, <1>3 DEF WellCoded, AllHold

\* The fields of a check.
LEMMA CheckFields ==
  ASSUME NEW a \in BOOLEAN, NEW code \in Codes, ~a => code # "ok"
  PROVE  /\ Check(a, code) \in Checks
         /\ Check(a, code).holds <=> a
         /\ Check(a, code).code = code
         /\ ~Check(a, code).holds => Check(a, code).code # "ok"
  BY DEF Check, Checks

\* A call InferShape accepts: K and V agree, and both agree with Q where they must.
LEMMA InferShapeMeans ==
  ASSUME NEW q \in RequestType
  PROVE  /\ InferShape(q) \in Codes
         /\ InferShape(q) = "ok" =>
              /\ q.cfg.layout \in {"bhsd", "bshd"}
              /\ q.q.dtype \in {"fp32", "fp16", "bf16"}
              /\ \A axis \in 1 .. 3 : q.v.dim[axis] = q.k.dim[axis]
              /\ q.v.dim[4] = q.q.dim[4] /\ q.v.dim[1] = q.q.dim[1]
<1> DEFINE sh == ShapeOf(q)
           s1 == << Check(q.cfg.layout \in {"bhsd", "bshd"}, "kUnsupportedLayout") >>
           a == Check(q.q.dtype = q.k.dtype /\ q.q.dtype = q.v.dtype, "kUnsupportedDtype")
           b == Check(/\ q.v.dim[HeadAxis(q.cfg.layout)] = sh.num_kv_heads
                      /\ q.v.dim[SeqAxis(q.cfg.layout)] = sh.seq_kv
                      /\ q.v.dim[4] = sh.head_dim, "kShapeMismatch")
           c == Check(q.k.dim[1] = sh.batch /\ q.v.dim[1] = sh.batch, "kShapeMismatch")
           s2 == <<a, b, c>>
           tq == TensorChecks(q.q)
           tk == TensorChecks(q.k)
           tv == TensorChecks(q.v)
           all == s1 \o tq \o tk \o tv \o s2
<1>1. InferShape(q) = FirstError(all)
  BY DEF InferShape
<1>2. q.q \in Tensors /\ q.k \in Tensors /\ q.v \in Tensors
  BY DEF RequestType
<1>3. /\ s1 \in Seq(Checks) /\ WellCoded(s1)
      /\ AllHold(s1) <=> q.cfg.layout \in {"bhsd", "bshd"}
  <2>1. /\ (q.cfg.layout \in {"bhsd", "bshd"}) \in BOOLEAN
        /\ "kUnsupportedLayout" \in Codes /\ "kUnsupportedLayout" # "ok"
    BY DEF Codes
  <2> QED
    BY <2>1, OneCheck
<1>4. /\ tq \in Seq(Checks) /\ WellCoded(tq) /\ tk \in Seq(Checks) /\ WellCoded(tk)
      /\ tv \in Seq(Checks) /\ WellCoded(tv)
      /\ AllHold(tq) => q.q.dtype \in {"fp32", "fp16", "bf16"}
  BY <1>2, TensorChecksMean
<1>5. /\ a \in Checks /\ a.code # "ok" /\ b \in Checks /\ b.code # "ok"
      /\ c \in Checks /\ c.code # "ok"
      /\ b.holds <=> /\ q.v.dim[HeadAxis(q.cfg.layout)] = sh.num_kv_heads
                     /\ q.v.dim[SeqAxis(q.cfg.layout)] = sh.seq_kv
                     /\ q.v.dim[4] = sh.head_dim
      /\ c.holds <=> q.k.dim[1] = sh.batch /\ q.v.dim[1] = sh.batch
  BY CheckFields DEF Codes
<1>6. /\ s2 \in Seq(Checks) /\ WellCoded(s2)
      /\ AllHold(s2) => b.holds /\ c.holds
  <2> HIDE DEF a, b, c
  <2> QED
    BY <1>5 DEF WellCoded, AllHold
<1> HIDE DEF s1, tq, tk, tv, s2
<1>7. /\ s1 \o tq \in Seq(Checks) /\ WellCoded(s1 \o tq)
      /\ AllHold(s1 \o tq) <=> AllHold(s1) /\ AllHold(tq)
  BY <1>3, <1>4, ConcatChecks
<1>8. /\ s1 \o tq \o tk \in Seq(Checks) /\ WellCoded(s1 \o tq \o tk)
      /\ AllHold(s1 \o tq \o tk) => AllHold(s1 \o tq)
  BY <1>4, <1>7, ConcatChecks
<1>9. /\ s1 \o tq \o tk \o tv \in Seq(Checks) /\ WellCoded(s1 \o tq \o tk \o tv)
      /\ AllHold(s1 \o tq \o tk \o tv) => AllHold(s1 \o tq \o tk)
  BY <1>4, <1>8, ConcatChecks
<1>10. /\ all \in Seq(Checks) /\ WellCoded(all)
       /\ AllHold(all) => AllHold(s1 \o tq \o tk \o tv) /\ AllHold(s2)
  BY <1>6, <1>9, ConcatChecks
<1> HIDE DEF all
<1>11. InferShape(q) \in Codes /\ (InferShape(q) = "ok" => AllHold(all))
  BY <1>1, <1>10, FirstErrorMeans
<1>12. ASSUME InferShape(q) = "ok"
       PROVE  /\ q.cfg.layout \in {"bhsd", "bshd"}
              /\ q.q.dtype \in {"fp32", "fp16", "bf16"}
              /\ \A axis \in 1 .. 3 : q.v.dim[axis] = q.k.dim[axis]
              /\ q.v.dim[4] = q.q.dim[4] /\ q.v.dim[1] = q.q.dim[1]
  <2>1. b.holds /\ c.holds /\ AllHold(s1) /\ AllHold(tq)
    BY <1>6, <1>7, <1>8, <1>9, <1>10, <1>11, <1>12
  <2>2. q.cfg.layout \in {"bhsd", "bshd"} /\ q.q.dtype \in {"fp32", "fp16", "bf16"}
    BY <1>3, <1>4, <2>1
  <2>3. /\ q.v.dim[HeadAxis(q.cfg.layout)] = sh.num_kv_heads
        /\ q.v.dim[SeqAxis(q.cfg.layout)] = sh.seq_kv
        /\ q.v.dim[4] = sh.head_dim
        /\ q.k.dim[1] = sh.batch /\ q.v.dim[1] = sh.batch
    BY <1>5, <2>1
  <2>4. /\ sh.num_kv_heads = q.k.dim[HeadAxis(q.cfg.layout)]
        /\ sh.seq_kv = q.k.dim[SeqAxis(q.cfg.layout)]
        /\ sh.head_dim = q.q.dim[4] /\ sh.batch = q.q.dim[1]
    BY DEF ShapeOf
  <2>5. {HeadAxis(q.cfg.layout), SeqAxis(q.cfg.layout)} = {2, 3}
    BY DEF HeadAxis, SeqAxis
  <2>6. q.v.dim[2] = q.k.dim[2] /\ q.v.dim[3] = q.k.dim[3] /\ q.v.dim[1] = q.k.dim[1]
    BY <2>3, <2>4, <2>5
  <2>7. ASSUME NEW axis \in 1 .. 3 PROVE q.v.dim[axis] = q.k.dim[axis]
    <3>1. axis = 1 \/ axis = 2 \/ axis = 3
      OBVIOUS
    <3> QED
      BY <2>6, <3>1
  <2> QED
    BY <2>2, <2>3, <2>4, <2>7
<1> QED
  BY <1>11, <1>12

\* A configuration Validate accepts.
LEMMA ValidateMeans ==
  ASSUME NEW cfg \in Configs, NEW sh \in Shapes
  PROVE  /\ Validate(cfg, sh) \in Codes
         /\ Validate(cfg, sh) = "ok" =>
              /\ sh.batch >= 1 /\ sh.seq_q >= 1 /\ sh.seq_kv >= 1
              /\ sh.num_heads >= 1 /\ sh.num_kv_heads >= 1
              /\ sh.head_dim \in kSupportedHeadDims
              /\ sh.num_heads % sh.num_kv_heads = 0
              /\ cfg.causal => sh.seq_kv >= sh.seq_q
              /\ cfg.sliding_window <= 0
<1> DEFINE c1 == Check(cfg.layout \in {"bhsd", "bshd"}, "kUnsupportedLayout")
           c2 == Check(/\ sh.batch >= 1 /\ sh.seq_q >= 1 /\ sh.seq_kv >= 1
                       /\ sh.num_heads >= 1 /\ sh.num_kv_heads >= 1, "kShapeMismatch")
           c3 == Check(sh.head_dim \in kSupportedHeadDims, "kUnsupportedHeadDim")
           c4 == Check(sh.num_kv_heads >= 1 /\ sh.num_heads % sh.num_kv_heads = 0, "kShapeMismatch")
           c5 == Check(~cfg.causal \/ sh.seq_kv >= sh.seq_q, "kShapeMismatch")
           c6 == Check(sh.num_kv_heads <= sh.num_heads, "kShapeMismatch")
           c7 == Check(cfg.sliding_window <= 0, "kUnsupportedFeature")
           c8 == Check(~cfg.softcap \/ ~IsReferenceOnlyBackend(cfg.backend), "kUnsupportedFeature")
           c9 == Check(cfg.numbers_ok, "kShapeMismatch")
           all == <<c1, c2, c3, c4, c5, c6, c7, c8, c9>>
<1>1. Validate(cfg, sh) = FirstError(all)
  BY DEF Validate
<1>2. /\ c1 \in Checks /\ c1.code # "ok" /\ c2 \in Checks /\ c2.code # "ok"
      /\ c3 \in Checks /\ c3.code # "ok" /\ c4 \in Checks /\ c4.code # "ok"
      /\ c5 \in Checks /\ c5.code # "ok" /\ c6 \in Checks /\ c6.code # "ok"
      /\ c7 \in Checks /\ c7.code # "ok" /\ c8 \in Checks /\ c8.code # "ok"
      /\ c9 \in Checks /\ c9.code # "ok"
  <2>1. cfg.numbers_ok \in BOOLEAN
    BY DEF Configs
  <2> QED
    BY <2>1 DEF Check, Checks, Codes
<1>4. /\ c2.holds => /\ sh.batch >= 1 /\ sh.seq_q >= 1 /\ sh.seq_kv >= 1
                     /\ sh.num_heads >= 1 /\ sh.num_kv_heads >= 1
      /\ c3.holds => sh.head_dim \in kSupportedHeadDims
      /\ c4.holds => sh.num_heads % sh.num_kv_heads = 0
      /\ c5.holds => (cfg.causal => sh.seq_kv >= sh.seq_q)
      /\ c7.holds => cfg.sliding_window <= 0
  BY DEF Check
<1> HIDE DEF c1, c2, c3, c4, c5, c6, c7, c8, c9
<1>5. /\ all \in Seq(Checks) /\ WellCoded(all)
      /\ AllHold(all) => c2.holds /\ c3.holds /\ c4.holds /\ c5.holds /\ c7.holds
  BY <1>2 DEF WellCoded, AllHold
<1> HIDE DEF all
<1>6. Validate(cfg, sh) \in Codes /\ (Validate(cfg, sh) = "ok" => AllHold(all))
  BY <1>1, <1>5, FirstErrorMeans
<1> QED
  BY <1>4, <1>5, <1>6

-----------------------------------------------------------------------------
\* A tile SelectTile returns fits the device.
LEMMA TileFits ==
  ASSUME NEW dtype, NEW hd \in Nat, SelectTile(dtype, hd) # <<>>
  PROVE  /\ TiledSmemBytes(hd, DtypeSize(dtype), SelectTile(dtype, hd)) <= smem_limit
         /\ TiledSmemBytes(hd, DtypeSize(dtype), SelectTile(dtype, hd)) \in Nat
<1> DEFINE cand == TileCandidates(dtype)
           fits == {i \in 1 .. 3 : TiledSmemBytes(hd, DtypeSize(dtype), cand[i]) <= smem_limit}
<1>1. SelectTile(dtype, hd) = IF fits = {} THEN <<>> ELSE cand[Min(fits)]
  BY DEF SelectTile
<1>2. fits # {} /\ fits \subseteq Nat
  BY <1>1
<1>3. Min(fits) \in fits
  BY <1>2, MinLeast
<1>4. SelectTile(dtype, hd) = cand[Min(fits)]
  BY <1>1, <1>2
<1> DEFINE n == Min(fits)
<1>5. TiledSmemBytes(hd, DtypeSize(dtype), cand[n]) <= smem_limit
  BY <1>3
<1>6. n \in 1 .. 3
  BY <1>3
<1>7. DtypeSize(dtype) \in Nat
  BY DEF DtypeSize
<1>8. /\ TiledSmemBytes(hd, DtypeSize(dtype), <<64, 32>>) \in Nat
      /\ TiledSmemBytes(hd, DtypeSize(dtype), <<64, 64>>) \in Nat
      /\ TiledSmemBytes(hd, DtypeSize(dtype), <<128, 32>>) \in Nat
  BY <1>7 DEF TiledSmemBytes
<1>9. cand[n] \in {<<64, 32>>, <<64, 64>>, <<128, 32>>}
  <2> HIDE DEF n
  <2>1. n = 1 \/ n = 2 \/ n = 3
    BY <1>6
  <2>2. CASE dtype = "fp32"
    BY <2>1, <2>2 DEF TileCandidates
  <2>3. CASE dtype # "fp32"
    BY <2>1, <2>3 DEF TileCandidates
  <2> QED
    BY <2>2, <2>3
<1>10. TiledSmemBytes(hd, DtypeSize(dtype), cand[n]) \in Nat
  <2> HIDE DEF n, cand, fits
  <2> QED
    BY <1>8, <1>9
<1> HIDE DEF n, cand, fits
<1> QED
  BY <1>4, <1>5, <1>10 DEF n

\* The size of a flash tile is a number.
LEMMA FlashSmemNat ==
  ASSUME NEW dtype, NEW hd \in Nat
  PROVE  FlashTileSmemBytes(hd, DtypeSize(dtype)) \in Nat
<1>1. DtypeSize(dtype) \in Nat
  BY DEF DtypeSize
<1> QED
  BY <1>1 DEF FlashTileSmemBytes, FlashTile

\* Half precision with head_dim up to 128 has a tile on the device the tiles were sized
\* for.
LEMMA HalfTileExists ==
  ASSUME NEW dtype, dtype # "fp32", NEW hd \in Nat, hd <= 128,
         smem_limit \in Nat, smem_limit >= 101376
  PROVE  SelectTile(dtype, hd) # <<>>
<1> DEFINE cand == << <<64, 64>>, <<64, 32>>, <<128, 32>> >>
           fits == {i \in 1 .. 3 : TiledSmemBytes(hd, 2, cand[i]) <= smem_limit}
<1>1. TileCandidates(dtype) = cand /\ DtypeSize(dtype) = 2
  BY DEF TileCandidates, DtypeSize
<1>2. SelectTile(dtype, hd) = IF fits = {} THEN <<>> ELSE cand[Min(fits)]
  BY <1>1 DEF SelectTile
<1>3. TiledSmemBytes(hd, 2, <<64, 32>>) = 256 * (hd + 8) + 9984
  BY DEF TiledSmemBytes
<1>4. TiledSmemBytes(hd, 2, <<64, 32>>) <= smem_limit
  BY <1>3
<1>5. 2 \in fits
  BY <1>4
<1>6. Min(fits) \in fits
  <2>1. fits \subseteq Nat /\ fits # {}
    BY <1>5
  <2> QED
    BY <2>1, MinLeast
<1>7. Min(fits) \in 1 .. 3
  BY <1>6
<1>8. SelectTile(dtype, hd) = cand[Min(fits)]
  BY <1>2, <1>5
<1> DEFINE n == Min(fits)
<1> HIDE DEF n, fits
<1>9. n \in 1 .. 3 /\ SelectTile(dtype, hd) = cand[n]
  BY <1>7, <1>8 DEF n
<1>10. cand[n] # <<>>
  <2>1. n = 1 \/ n = 2 \/ n = 3
    BY <1>9
  <2>2. <<64, 64>> # <<>> /\ <<64, 32>> # <<>> /\ <<128, 32>> # <<>>
    OBVIOUS
  <2> QED
    BY <2>1, <2>2
<1> QED
  BY <1>9, <1>10

\* The flash tile of every half-precision head_dim up to 128 fits that device.
LEMMA HalfFlashFits ==
  ASSUME NEW hd \in Nat, hd <= 128, smem_limit \in Nat, smem_limit >= 101376
  PROVE  FlashTileSmemBytes(hd, 2) <= smem_limit
<1>1. FlashTileSmemBytes(hd, 2) = 640 * (hd + 8)
  BY DEF FlashTileSmemBytes, FlashTile
<1> QED
  BY <1>1

\* The two checks all adapters but the paged one begin with.
LEMMA RepeatedChecksMean ==
  ASSUME NEW q \in RequestType
  PROVE  LET rep == RepeatedChecks(q, ShapeOf(q)) IN
         /\ rep \in Seq(Checks) /\ WellCoded(rep)
         /\ AllHold(rep) <=> InferShape(q) = "ok" /\ Validate(q.cfg, ShapeOf(q)) = "ok"
<1> DEFINE sh == ShapeOf(q)
           a == Check(InferShape(q) = "ok", InferShape(q))
           b == Check(Validate(q.cfg, sh) = "ok", Validate(q.cfg, sh))
<1>1. InferShape(q) \in Codes /\ Validate(q.cfg, sh) \in Codes
  BY InferShapeMeans, ValidateMeans, ShapeType DEF RequestType
<1>2. /\ a \in Checks /\ (a.holds <=> InferShape(q) = "ok") /\ (~a.holds => a.code # "ok")
      /\ b \in Checks /\ (b.holds <=> Validate(q.cfg, sh) = "ok") /\ (~b.holds => b.code # "ok")
  BY <1>1 DEF Check, Checks
<1>3. RepeatedChecks(q, sh) = <<a, b>>
  BY DEF RepeatedChecks
<1> HIDE DEF a, b
<1> QED
  BY <1>2, <1>3 DEF WellCoded, AllHold

\* Two checks in a row.
LEMMA TwoChecks ==
  ASSUME NEW a \in BOOLEAN, NEW x \in Codes \ {"ok"}, NEW b \in BOOLEAN, NEW y \in Codes \ {"ok"}
  PROVE  /\ <<Check(a, x), Check(b, y)>> \in Seq(Checks)
         /\ WellCoded(<<Check(a, x), Check(b, y)>>)
         /\ AllHold(<<Check(a, x), Check(b, y)>>) <=> a /\ b
<1> DEFINE c == Check(a, x)
           d == Check(b, y)
<1>1. /\ c \in Checks /\ (c.holds <=> a) /\ c.code # "ok"
      /\ d \in Checks /\ (d.holds <=> b) /\ d.code # "ok"
  BY DEF Check, Checks
<1> HIDE DEF c, d
<1>2. <<c, d>> \in Seq(Checks) /\ WellCoded(<<c, d>>) /\ (AllHold(<<c, d>>) <=> a /\ b)
  BY <1>1 DEF WellCoded, AllHold
<1> QED
  BY <1>2 DEF c, d

\* An adapter accepts when the call is valid and its own checks hold.
LEMMA AdapterMeans ==
  ASSUME NEW q \in RequestType, NEW own \in Seq(Checks), WellCoded(own)
  PROVE  LET status == FirstError(RepeatedChecks(q, ShapeOf(q)) \o own) IN
         /\ status \in Codes
         /\ status = "ok" <=>
              InferShape(q) = "ok" /\ Validate(q.cfg, ShapeOf(q)) = "ok" /\ AllHold(own)
<1> DEFINE rep == RepeatedChecks(q, ShapeOf(q))
           all == rep \o own
<1>1. /\ rep \in Seq(Checks) /\ WellCoded(rep)
      /\ AllHold(rep) <=> InferShape(q) = "ok" /\ Validate(q.cfg, ShapeOf(q)) = "ok"
  BY RepeatedChecksMean
<1> HIDE DEF rep
<1>2. /\ all \in Seq(Checks) /\ WellCoded(all)
      /\ AllHold(all) <=> AllHold(rep) /\ AllHold(own)
  BY <1>1, ConcatChecks
<1> HIDE DEF all
<1>3. FirstError(all) \in Codes /\ (FirstError(all) = "ok" <=> AllHold(all))
  BY <1>2, FirstErrorMeans
<1> QED
  BY <1>1, <1>2, <1>3 DEF rep, all

\* What the naive adapter checks.
LEMMA NaiveMeans ==
  ASSUME NEW q \in RequestType
  PROVE  /\ AdapterStatus("naive", q, ShapeOf(q)) \in Codes
         /\ AdapterStatus("naive", q, ShapeOf(q)) = "ok" =>
              /\ InferShape(q) = "ok" /\ Validate(q.cfg, ShapeOf(q)) = "ok"
              /\ ScoresFit(q.cfg, ShapeOf(q))
<1> DEFINE fit == ScoresFit(q.cfg, ShapeOf(q))
           diag == ~q.cfg.causal \/ ShapeOf(q).seq_kv >= ShapeOf(q).seq_q
           own == <<Check(fit, "kWorkspaceExceeded"), Check(diag, "kShapeMismatch")>>
<1>1. AdapterStatus("naive", q, ShapeOf(q)) = FirstError(RepeatedChecks(q, ShapeOf(q)) \o own)
  BY DEF AdapterStatus, NaiveChecks
<1>2. fit \in BOOLEAN /\ diag \in BOOLEAN
  BY DEF ScoresFit
<1> HIDE DEF fit, diag
<1>3. own \in Seq(Checks) /\ WellCoded(own)
  <2>1. "kWorkspaceExceeded" \in Codes \ {"ok"} /\ "kShapeMismatch" \in Codes \ {"ok"}
    BY DEF Codes
  <2> QED
    BY <1>2, <2>1, TwoChecks
<1>4. AllHold(own) <=> fit /\ diag
  <2>1. "kWorkspaceExceeded" \in Codes \ {"ok"} /\ "kShapeMismatch" \in Codes \ {"ok"}
    BY DEF Codes
  <2> QED
    BY <1>2, <2>1, TwoChecks
<1> HIDE DEF own
<1>5. /\ AdapterStatus("naive", q, ShapeOf(q)) \in Codes
      /\ AdapterStatus("naive", q, ShapeOf(q)) = "ok" =>
            InferShape(q) = "ok" /\ Validate(q.cfg, ShapeOf(q)) = "ok" /\ AllHold(own)
  BY <1>1, <1>3, AdapterMeans
<1> QED
  BY <1>4, <1>5 DEF fit

\* What the tiled adapter checks.
LEMMA TiledMeans ==
  ASSUME NEW q \in RequestType
  PROVE  /\ AdapterStatus("tiled", q, ShapeOf(q)) \in Codes
         /\ AdapterStatus("tiled", q, ShapeOf(q)) = "ok" <=>
              /\ InferShape(q) = "ok" /\ Validate(q.cfg, ShapeOf(q)) = "ok"
              /\ ShapeOf(q).head_dim <= MaxTiledHeadDim
              /\ SelectTile(q.q.dtype, ShapeOf(q).head_dim) # <<>>
<1> DEFINE small == ShapeOf(q).head_dim <= MaxTiledHeadDim
           tile == SelectTile(q.q.dtype, ShapeOf(q).head_dim) # <<>>
           own == <<Check(small, "kDeviceCapability"), Check(tile, "kDeviceCapability")>>
<1>1. AdapterStatus("tiled", q, ShapeOf(q)) = FirstError(RepeatedChecks(q, ShapeOf(q)) \o own)
  BY DEF AdapterStatus, TiledChecks
<1>2. small \in BOOLEAN /\ tile \in BOOLEAN
  OBVIOUS
<1> HIDE DEF small, tile
<1>3. own \in Seq(Checks) /\ WellCoded(own) /\ (AllHold(own) <=> small /\ tile)
  <2>1. "kDeviceCapability" \in Codes \ {"ok"}
    BY DEF Codes
  <2> QED
    BY <1>2, <2>1, TwoChecks
<1> HIDE DEF own
<1>4. /\ AdapterStatus("tiled", q, ShapeOf(q)) \in Codes
      /\ AdapterStatus("tiled", q, ShapeOf(q)) = "ok" <=>
            InferShape(q) = "ok" /\ Validate(q.cfg, ShapeOf(q)) = "ok" /\ small /\ tile
  BY <1>1, <1>3, AdapterMeans
<1> QED
  BY <1>4 DEF small, tile

\* What the decode adapter checks.
LEMMA DecodeMeans ==
  ASSUME NEW q \in RequestType
  PROVE  /\ AdapterStatus("decode", q, ShapeOf(q)) \in Codes
         /\ AdapterStatus("decode", q, ShapeOf(q)) = "ok" <=>
              /\ InferShape(q) = "ok" /\ Validate(q.cfg, ShapeOf(q)) = "ok"
              /\ ShapeOf(q).seq_q = 1 /\ ShapeOf(q).head_dim % 32 = 0
<1> DEFINE one == ShapeOf(q).seq_q = 1
           warp == ShapeOf(q).head_dim % 32 = 0
           own == <<Check(one, "kUnsupportedFeature"), Check(warp, "kUnsupportedHeadDim")>>
<1>1. AdapterStatus("decode", q, ShapeOf(q)) = FirstError(RepeatedChecks(q, ShapeOf(q)) \o own)
  BY DEF AdapterStatus, DecodeChecks
<1>2. one \in BOOLEAN /\ warp \in BOOLEAN
  OBVIOUS
<1> HIDE DEF one, warp
<1>3. own \in Seq(Checks) /\ WellCoded(own) /\ (AllHold(own) <=> one /\ warp)
  <2>1. "kUnsupportedFeature" \in Codes \ {"ok"} /\ "kUnsupportedHeadDim" \in Codes \ {"ok"}
    BY DEF Codes
  <2> QED
    BY <1>2, <2>1, TwoChecks
<1> HIDE DEF own
<1>4. /\ AdapterStatus("decode", q, ShapeOf(q)) \in Codes
      /\ AdapterStatus("decode", q, ShapeOf(q)) = "ok" <=>
            InferShape(q) = "ok" /\ Validate(q.cfg, ShapeOf(q)) = "ok" /\ one /\ warp
  BY <1>1, <1>3, AdapterMeans
<1> QED
  BY <1>4 DEF one, warp

\* ValidateFlashRequest, shared by the flash adapter and the varlen call.
LEMMA FlashRequestMeans ==
  ASSUME cuda \in BOOLEAN, NEW dtype, NEW cfg, NEW hd
  PROVE  LET own == ValidateFlashRequest(dtype, cfg, hd) IN
         /\ own \in Seq(Checks) /\ WellCoded(own)
         /\ AllHold(own) <=>
              /\ cuda /\ dtype \in {"fp16", "bf16"} /\ hd \in kFlashHeadDims
              /\ FlashTileSmemBytes(hd, DtypeSize(dtype)) <= smem_limit
              /\ cfg.sliding_window <= 0
         /\ \A i \in DOMAIN own : own[i].code # "kShapeMismatch"
<1> DEFINE c1 == Check(cuda, "kUnsupportedFeature")
           c2 == Check(dtype \in {"fp16", "bf16"}, "kUnsupportedDtype")
           c3 == Check(hd \in kFlashHeadDims, "kUnsupportedHeadDim")
           c4 == Check(FlashTileSmemBytes(hd, DtypeSize(dtype)) <= smem_limit, "kDeviceCapability")
           c5 == Check(cfg.sliding_window <= 0, "kUnsupportedFeature")
           own == <<c1, c2, c3, c4, c5>>
<1>1. ValidateFlashRequest(dtype, cfg, hd) = own
  BY DEF ValidateFlashRequest
<1>2. /\ c1 \in Checks /\ c1.code \notin {"ok", "kShapeMismatch"}
      /\ c2 \in Checks /\ c2.code \notin {"ok", "kShapeMismatch"}
      /\ c3 \in Checks /\ c3.code \notin {"ok", "kShapeMismatch"}
      /\ c4 \in Checks /\ c4.code \notin {"ok", "kShapeMismatch"}
      /\ c5 \in Checks /\ c5.code \notin {"ok", "kShapeMismatch"}
  BY DEF Check, Checks, Codes
<1>3. /\ c1.holds <=> cuda
      /\ c2.holds <=> dtype \in {"fp16", "bf16"}
      /\ c3.holds <=> hd \in kFlashHeadDims
      /\ c4.holds <=> FlashTileSmemBytes(hd, DtypeSize(dtype)) <= smem_limit
      /\ c5.holds <=> cfg.sliding_window <= 0
  BY DEF Check
<1> HIDE DEF c1, c2, c3, c4, c5
<1>4. /\ own \in Seq(Checks) /\ WellCoded(own)
      /\ AllHold(own) <=> c1.holds /\ c2.holds /\ c3.holds /\ c4.holds /\ c5.holds
      /\ \A i \in DOMAIN own : own[i].code # "kShapeMismatch"
  BY <1>2 DEF WellCoded, AllHold
<1> HIDE DEF own
<1> QED
  BY <1>1, <1>3, <1>4

\* What the flash adapter checks.
LEMMA FlashMeans ==
  ASSUME NEW q \in RequestType, cuda \in BOOLEAN
  PROVE  /\ AdapterStatus("flash", q, ShapeOf(q)) \in Codes
         /\ AdapterStatus("flash", q, ShapeOf(q)) = "ok" <=>
              /\ InferShape(q) = "ok" /\ Validate(q.cfg, ShapeOf(q)) = "ok"
              /\ cuda /\ q.q.dtype \in {"fp16", "bf16"} /\ ShapeOf(q).head_dim \in kFlashHeadDims
              /\ FlashTileSmemBytes(ShapeOf(q).head_dim, DtypeSize(q.q.dtype)) <= smem_limit
              /\ q.cfg.sliding_window <= 0
<1> DEFINE own == ValidateFlashRequest(q.q.dtype, q.cfg, ShapeOf(q).head_dim)
<1>1. AdapterStatus("flash", q, ShapeOf(q)) = FirstError(RepeatedChecks(q, ShapeOf(q)) \o own)
  BY DEF AdapterStatus, FlashChecks
<1>2. own \in Seq(Checks) /\ WellCoded(own)
  BY FlashRequestMeans
<1>3. AllHold(own) <=>
        /\ cuda /\ q.q.dtype \in {"fp16", "bf16"} /\ ShapeOf(q).head_dim \in kFlashHeadDims
        /\ FlashTileSmemBytes(ShapeOf(q).head_dim, DtypeSize(q.q.dtype)) <= smem_limit
        /\ q.cfg.sliding_window <= 0
  BY FlashRequestMeans
<1> HIDE DEF own
<1>4. /\ AdapterStatus("flash", q, ShapeOf(q)) \in Codes
      /\ AdapterStatus("flash", q, ShapeOf(q)) = "ok" <=>
            InferShape(q) = "ok" /\ Validate(q.cfg, ShapeOf(q)) = "ok" /\ AllHold(own)
  BY <1>1, <1>2, AdapterMeans
<1> QED
  BY <1>3, <1>4

\* The paged adapter refuses every call.
LEMMA PagedMeans ==
  ASSUME NEW q
  PROVE  AdapterStatus("paged", q, ShapeOf(q)) # "ok" /\ AdapterStatus("paged", q, ShapeOf(q)) \in Codes
<1>1. AdapterStatus("paged", q, ShapeOf(q)) = FirstError(<<Check(FALSE, "kUnsupportedFeature")>>)
  BY DEF AdapterStatus, PagedChecks
<1>2. "kUnsupportedFeature" \in Codes /\ "kUnsupportedFeature" # "ok"
  BY DEF Codes
<1>3. LET own == <<Check(FALSE, "kUnsupportedFeature")>> IN
      own \in Seq(Checks) /\ WellCoded(own) /\ ~AllHold(own)
  BY <1>2, OneCheck
<1> QED
  BY <1>1, <1>3, FirstErrorMeans

-----------------------------------------------------------------------------
Kinds == BackendKinds \ {"auto"}
NamedOrDegraded(kind) ==
  LET p == Preferred(req.cfg, ShapeOf(req)) IN
  \/ kind = p
  \/ /\ req.cfg.allow_fallback
     /\ \E i \in DOMAIN FallbackChain(p) : FallbackChain(p)[i] = kind
\* The calls AutoServes speaks of.
AutoHalf == steady /\ ValidHalf /\ ShapeOf(req).head_dim <= MaxTiledHeadDim

\* The threshold rules name a backend.
LEMMA PreferredKind ==
  ASSUME NEW cfg \in Configs, NEW sh
  PROVE  Preferred(cfg, sh) \in Kinds
<1>1. cfg.backend \in BackendKinds
  BY DEF Configs
<1> QED
  BY <1>1 DEF Preferred, Kinds, BackendKinds

\* Every fallback is a backend.
LEMMA ChainKinds ==
  ASSUME NEW p \in Kinds
  PROVE  /\ DOMAIN FallbackChain(p) \subseteq Nat
         /\ \A i \in DOMAIN FallbackChain(p) : FallbackChain(p)[i] \in Kinds
<1>1. /\ "naive" \in Kinds /\ "tiled" \in Kinds /\ "flash" \in Kinds /\ "decode" \in Kinds
      /\ p \in {"naive", "tiled", "flash", "decode", "paged"}
  BY DEF Kinds, BackendKinds
<1>2. CASE p = "naive"
  <2>1. FallbackChain(p) = <<>>
    BY <1>2 DEF FallbackChain
  <2> QED
    BY <2>1
<1>3. CASE p = "tiled"
  <2>1. FallbackChain(p) = <<"naive">>
    BY <1>3 DEF FallbackChain
  <2> QED
    BY <1>1, <2>1
<1>4. CASE p = "flash"
  <2>1. FallbackChain(p) = <<"tiled", "naive">>
    BY <1>4 DEF FallbackChain
  <2> QED
    BY <1>1, <2>1
<1>5. CASE p = "decode"
  <2>1. FallbackChain(p) = <<"flash", "tiled", "naive">>
    BY <1>5 DEF FallbackChain
  <2> QED
    BY <1>1, <2>1
<1>6. CASE p = "paged"
  <2>1. FallbackChain(p) = <<"decode", "tiled", "naive">>
    BY <1>6 DEF FallbackChain
  <2> QED
    BY <1>1, <2>1
<1> QED
  BY <1>1, <1>2, <1>3, <1>4, <1>5, <1>6

\* What Select decides.
LEMMA SelectMeans ==
  ASSUME NEW cfg \in Configs, NEW sh
  PROVE  LET p == Preferred(cfg, sh) IN
         /\ Select(cfg, sh) = "auto" <=> Validate(cfg, sh) # "ok"
         /\ Select(cfg, sh) # "auto" =>
              /\ Select(cfg, sh) \in Kinds
              /\ \/ Select(cfg, sh) = p
                 \/ /\ cfg.allow_fallback
                    /\ \E i \in DOMAIN FallbackChain(p) : FallbackChain(p)[i] = Select(cfg, sh)
              /\ Supports(p, cfg, sh) => Select(cfg, sh) = p
<1> DEFINE p == Preferred(cfg, sh)
           chain == FallbackChain(p)
           able == {i \in DOMAIN chain : Supports(chain[i], cfg, sh)}
<1>1. Select(cfg, sh) =
        IF Validate(cfg, sh) # "ok" THEN "auto"
        ELSE IF Supports(p, cfg, sh) \/ ~cfg.allow_fallback \/ able = {} THEN p
        ELSE chain[Min(able)]
  BY DEF Select
<1>2. p \in Kinds
  BY PreferredKind
<1>3. DOMAIN chain \subseteq Nat /\ \A i \in DOMAIN chain : chain[i] \in Kinds
  BY <1>2, ChainKinds
<1>4. able # {} => Min(able) \in able
  <2>1. able \subseteq Nat
    BY <1>3
  <2> QED
    BY <2>1, MinLeast
<1>5. able # {} => Min(able) \in DOMAIN chain
  BY <1>4
<1>6. "auto" \notin Kinds
  BY DEF Kinds
<1> HIDE DEF p, chain, able
<1>7. /\ Select(cfg, sh) = "auto" <=> Validate(cfg, sh) # "ok"
      /\ Select(cfg, sh) # "auto" =>
           /\ Select(cfg, sh) \in Kinds
           /\ \/ Select(cfg, sh) = p
              \/ cfg.allow_fallback /\ \E i \in DOMAIN chain : chain[i] = Select(cfg, sh)
           /\ Supports(p, cfg, sh) => Select(cfg, sh) = p
  BY <1>1, <1>2, <1>3, <1>5, <1>6
<1> QED
  BY <1>7 DEF p, chain

\* With automatic selection the threshold table names a backend that supports the call
\* and whose adapter accepts it.
LEMMA AutoChoice ==
  ASSUME req \in RequestType, AutoHalf, cuda, cuda \in BOOLEAN,
         smem_limit \in Nat, smem_limit = device_smem
  PROVE  LET p == Preferred(req.cfg, ShapeOf(req)) IN
         Supports(p, req.cfg, ShapeOf(req)) /\ AdapterStatus(p, req, ShapeOf(req)) = "ok"
<1> DEFINE sh == ShapeOf(req)
           cfg == req.cfg
           p == Preferred(cfg, sh)
<1>1. /\ cfg.backend = "auto" /\ cuda /\ req.q.dtype # "fp32" /\ smem_limit >= 101376
      /\ InferShape(req) = "ok" /\ Validate(cfg, sh) = "ok" /\ sh.head_dim <= 128
  BY DEF AutoHalf, ValidHalf, MaxTiledHeadDim
<1>2. sh \in Shapes /\ cfg \in Configs
  BY ShapeType DEF RequestType
<1>3. sh.seq_q \in Nat /\ sh.seq_kv \in Nat /\ sh.head_dim \in Nat
  BY <1>2 DEF Shapes
<1>4. sh.seq_q >= 1 /\ sh.head_dim \in kSupportedHeadDims /\ cfg.sliding_window <= 0
  BY <1>1, <1>2, ValidateMeans
<1>5. req.q.dtype \in {"fp16", "bf16"} /\ DtypeSize(req.q.dtype) = 2
  <2>1. req.q.dtype \in {"fp32", "fp16", "bf16"}
    BY <1>1, InferShapeMeans
  <2> QED
    BY <1>1, <2>1 DEF DtypeSize
<1>6. sh.head_dim % 32 = 0 /\ sh.head_dim \in kFlashHeadDims
  BY <1>4 DEF kSupportedHeadDims, kFlashHeadDims
<1>7. (p = "decode" /\ sh.seq_q = 1) \/ p = "flash" \/ p = "tiled"
  <2>1. p = IF sh.seq_q <= 1 /\ sh.seq_kv >= 256 THEN "decode"
            ELSE IF sh.seq_q * 8 <= sh.seq_kv /\ sh.seq_kv >= 256 THEN "flash"
            ELSE IF sh.seq_kv <= 128 THEN "tiled" ELSE "flash"
    BY <1>1 DEF Preferred, decode_max_seq_q, decode_min_seq_kv, tiled_max_seq_kv
  <2> HIDE DEF p, sh
  <2> QED
    BY <1>3, <1>4, <2>1
<1>8. FlashTileSmemBytes(sh.head_dim, 2) <= smem_limit
  BY <1>1, <1>3, HalfFlashFits
<1>9. SelectTile("fp16", sh.head_dim) # <<>> /\ SelectTile(req.q.dtype, sh.head_dim) # <<>>
  <2>1. "fp16" # "fp32"
    OBVIOUS
  <2> QED
    BY <1>1, <1>3, <2>1, HalfTileExists
<1>10. CASE p = "decode" /\ sh.seq_q = 1
  <2>1. DecodeSupports(cfg, sh)
    BY <1>1, <1>4, <1>6, <1>10 DEF DecodeSupports
  <2>2. AdapterStatus("decode", req, sh) = "ok"
    BY <1>1, <1>6, <1>10, DecodeMeans
  <2> QED
    BY <1>10, <2>1, <2>2 DEF Supports
<1>11. CASE p = "flash"
  <2>1. FlashSupports(cfg, sh)
    BY <1>1, <1>4, <1>6, <1>8 DEF FlashSupports
  <2>2. AdapterStatus("flash", req, sh) = "ok"
    BY <1>1, <1>4, <1>5, <1>6, <1>8, FlashMeans
  <2> QED
    BY <1>11, <2>1, <2>2 DEF Supports
<1>12. CASE p = "tiled"
  <2>1. TiledSupports(cfg, sh)
    BY <1>1, <1>4, <1>9 DEF TiledSupports, MaxTiledHeadDim
  <2>2. AdapterStatus("tiled", req, sh) = "ok"
    BY <1>1, <1>9, TiledMeans DEF MaxTiledHeadDim
  <2> QED
    BY <1>12, <2>1, <2>2 DEF Supports
<1> QED
  BY <1>7, <1>10, <1>11, <1>12

-----------------------------------------------------------------------------
\* Once a backend has been chosen it is the named one or a permitted fallback, the
\* configuration was valid, and an automatic half-precision call has its first choice.
Chosen ==
  /\ decision \in Kinds
  /\ NamedOrDegraded(decision)
  /\ AutoHalf => decision = Preferred(req.cfg, ShapeOf(req))

\* The cache holds the limit of the device or the zero of a failed probe, and in a
\* steady call it holds the former.
DeviceInv ==
  /\ cuda \in BOOLEAN /\ device_smem \in Nat
  /\ smem_limit \in Nat /\ smem_limit \in {0, device_smem}
  /\ step # "idle" /\ steady => cuda /\ smem_limit = device_smem

\* The inductive invariant of a call: which facts hold at which step.
CallInv ==
  /\ DeviceInv
  /\ step \in {"idle", "infer", "select", "recheck", "forward", "launched", "done"}
  /\ step # "idle" => req \in RequestType
  /\ step \in {"idle", "infer", "select", "recheck", "forward"} => launched = None
  /\ step # "done" => result = None
  /\ step \in {"recheck", "forward", "launched"} => Chosen
  /\ LaunchesFit
  /\ NoSilentDegradation
  /\ AutoServes

\* These speak of the call and of what the device has, which neither a refresh of the
\* cache nor a failing probe changes.
LEMMA CallFrame ==
  ASSUME device_smem' = device_smem, steady' => steady, req' = req
  PROVE  /\ AutoHalf' => AutoHalf
         /\ ValidHalf' <=> ValidHalf
         /\ decision' = decision => (Chosen => Chosen')
         /\ launched' = launched => (LaunchesFit' <=> LaunchesFit)
         /\ result' = result => (NoSilentDegradation' <=> NoSilentDegradation)
         /\ result' = result => (AutoServes => AutoServes')
<1>1. ValidHalf' <=> ValidHalf
  BY DEF ValidHalf
<1>2. AutoHalf' => AutoHalf
  BY <1>1 DEF AutoHalf
<1>3. decision' = decision => (Chosen => Chosen')
  BY <1>2 DEF Chosen, NamedOrDegraded
<1>4. launched' = launched => (LaunchesFit' <=> LaunchesFit)
  BY DEF LaunchesFit, Instantiated
<1>5. result' = result => (NoSilentDegradation' <=> NoSilentDegradation)
  BY DEF NoSilentDegradation
<1>6. result' = result => (AutoServes => AutoServes')
  BY <1>1 DEF AutoServes
<1> QED
  BY <1>1, <1>2, <1>3, <1>4, <1>5, <1>6

\* What a probe puts into the cache.
LEMMA ProbedMeans ==
  ASSUME NEW mem
  PROVE  Probed(mem)[1] = IF cuda THEN device_smem ELSE 0
  BY DEF Probed

\* A step of a call under way does not touch the device.
LEMMA DeviceFrame ==
  ASSUME DeviceInv, step # "idle", UNCHANGED device
  PROVE  DeviceInv' /\ device_smem' = device_smem /\ (steady' => steady)
  BY DEF DeviceInv, device, capability

\* Nothing is under way.
LEMMA InitCallInv == Init => CallInv
<1> SUFFICES ASSUME Init PROVE CallInv OBVIOUS
<1>1. /\ cuda \in BOOLEAN /\ device_smem \in Nat
      /\ step = "idle" /\ launched = None /\ result = None
  BY DispatcherAssumption DEF Init
<1>2. smem_limit = IF cuda THEN device_smem ELSE 0
  BY ProbedMeans DEF Init
<1> QED
  BY <1>1, <1>2 DEF CallInv, DeviceInv, LaunchesFit, NoSilentDegradation, AutoServes

\* A new call starts from an idle dispatcher.
LEMMA CallKeeps ==
  ASSUME CallInv, NEW q \in Requests, Call(q)
  PROVE  CallInv'
<1>1. q \in RequestType
  BY DispatcherAssumption DEF RequestType
<1>2. /\ step' = "infer" /\ req' = q /\ launched' = None /\ result' = None
  BY DEF CallInv, Call
<1>3. DeviceInv'
  BY DEF CallInv, Call, DeviceInv, capability
<1> QED
  BY <1>1, <1>2, <1>3 DEF CallInv, LaunchesFit, NoSilentDegradation, AutoServes

\* A refusal: nothing was degraded, and no automatic half-precision call gets here with
\* one of the codes in Refused.
LEMMA ReturnKeeps ==
  ASSUME CallInv, step # "idle", NEW status, status # "ok", Return(status, "auto", FALSE),
         AutoHalf => status \notin Refused,
         UNCHANGED <<device, req, launched>>
  PROVE  CallInv'
<1>1. /\ DeviceInv' /\ device_smem' = device_smem /\ (steady' => steady)
      /\ req' = req /\ launched' = launched
      /\ step' = "done" /\ result' = [status |-> status, used_backend |-> "auto", has_lse |-> FALSE]
  BY DeviceFrame DEF Return, CallInv
<1>2. result'.status = status
  BY <1>1
<1>3. NoSilentDegradation'
  BY <1>2 DEF NoSilentDegradation
<1>4. AutoServes'
  BY <1>1, <1>2, CallFrame DEF AutoServes, AutoHalf
<1>5. LaunchesFit'
  BY <1>1, CallFrame DEF CallInv
<1> QED
  BY <1>1, <1>3, <1>4, <1>5 DEF CallInv

\* InferShape.
LEMMA InferKeeps ==
  ASSUME CallInv, Infer
  PROVE  CallInv'
<1>1. /\ step = "infer" /\ req \in RequestType /\ launched = None
      /\ UNCHANGED <<device, req, decision, launched>>
  BY DEF CallInv, Infer
<1>2. CASE InferShape(req) = "ok"
  <2>1. step' = "select" /\ result' = result /\ result = None
    BY <1>1, <1>2 DEF Infer, CallInv
  <2>2. DeviceInv'
    BY <1>1, DeviceFrame DEF CallInv
  <2> QED
    BY <1>1, <2>1, <2>2 DEF CallInv, LaunchesFit, NoSilentDegradation, AutoServes
<1>3. CASE InferShape(req) # "ok"
  <2>1. Return(InferShape(req), "auto", FALSE)
    BY <1>3 DEF Infer
  <2>2. ~AutoHalf
    BY <1>3 DEF AutoHalf, ValidHalf
  <2> QED
    BY <1>1, <1>3, <2>1, <2>2, ReturnKeeps
<1> QED
  BY <1>2, <1>3

\* Select.
LEMMA ChooseKeeps ==
  ASSUME CallInv, Choose
  PROVE  CallInv'
<1>1. /\ step = "select" /\ req \in RequestType /\ launched = None /\ result = None
      /\ UNCHANGED <<device, req, launched>> /\ decision' = Select(req.cfg, ShapeOf(req))
  BY DEF CallInv, Choose
<1>2. req.cfg \in Configs
  BY <1>1 DEF RequestType
<1>3. CASE decision' = "auto"
  <2>1. Validate(req.cfg, ShapeOf(req)) # "ok"
    BY <1>1, <1>2, <1>3, SelectMeans
  <2>2. Return("kShapeMismatch", "auto", FALSE)
    BY <1>3 DEF Choose
  <2>3. "kShapeMismatch" # "ok" /\ ~AutoHalf
    BY <2>1 DEF AutoHalf, ValidHalf
  <2> QED
    BY <1>1, <2>2, <2>3, ReturnKeeps
<1>4. CASE decision' # "auto"
  <2>1. step' = "recheck" /\ result' = None
    BY <1>1, <1>4 DEF Choose
  <2> DEFINE p == Preferred(req.cfg, ShapeOf(req))
  <2>2. /\ decision' \in Kinds
        /\ \/ decision' = p
           \/ /\ req.cfg.allow_fallback
              /\ \E i \in DOMAIN FallbackChain(p) : FallbackChain(p)[i] = decision'
        /\ Supports(p, req.cfg, ShapeOf(req)) => decision' = p
    BY <1>1, <1>2, <1>4, SelectMeans
  <2>3. AutoHalf => decision' = p
    BY <1>1, <2>2, AutoChoice DEF CallInv, DeviceInv, AutoHalf
  <2>4. req' = req /\ DeviceInv' /\ device_smem' = device_smem /\ (steady' => steady)
    BY <1>1, DeviceFrame DEF CallInv
  <2>5. AutoHalf' => decision' = p
    BY <2>3, <2>4, CallFrame
  <2>6. Chosen'
    BY <2>2, <2>4, <2>5 DEF Chosen, NamedOrDegraded
  <2> QED
    BY <1>1, <2>1, <2>4, <2>6 DEF CallInv, LaunchesFit, NoSilentDegradation, AutoServes
<1> QED
  BY <1>3, <1>4

\* The second call of Supports.
LEMMA RecheckKeeps ==
  ASSUME CallInv, Recheck
  PROVE  CallInv'
<1>1. /\ step = "recheck" /\ req \in RequestType /\ launched = None /\ result = None
      /\ Chosen /\ DeviceInv
      /\ UNCHANGED <<device, req, decision, launched>>
  BY DEF CallInv, Recheck
<1>2. /\ req' = req /\ decision' = decision
      /\ DeviceInv' /\ device_smem' = device_smem /\ (steady' => steady)
  BY <1>1, DeviceFrame
<1>3. CASE Supports(decision, req.cfg, ShapeOf(req))
  <2>1. step' = "forward" /\ result' = None /\ launched' = None
    BY <1>1, <1>3 DEF Recheck
  <2>2. Chosen'
    BY <1>1, <1>2, CallFrame
  <2> QED
    BY <1>1, <1>2, <2>1, <2>2 DEF CallInv, LaunchesFit, NoSilentDegradation, AutoServes
<1>4. CASE ~Supports(decision, req.cfg, ShapeOf(req))
  <2>1. Return("kDeviceCapability", "auto", FALSE)
    BY <1>4 DEF Recheck
  <2>2. ~AutoHalf
    <3> SUFFICES ASSUME AutoHalf PROVE FALSE OBVIOUS
    <3>1. decision = Preferred(req.cfg, ShapeOf(req))
      BY <1>1 DEF Chosen
    <3> QED
      BY <1>1, <1>4, <3>1, AutoChoice DEF DeviceInv, AutoHalf
  <2>3. "kDeviceCapability" # "ok"
    OBVIOUS
  <2> QED
    BY <1>1, <2>1, <2>2, <2>3, ReturnKeeps
<1> QED
  BY <1>3, <1>4

\* An adapter that refuses has not been asked for an automatic half-precision call.
LEMMA RejectsKeeps ==
  ASSUME CallInv, ForwardRejects
  PROVE  CallInv'
<1> DEFINE status == AdapterStatus(decision, req, ShapeOf(req))
<1>1. /\ step = "forward" /\ req \in RequestType /\ Chosen /\ DeviceInv
      /\ UNCHANGED <<device, req, decision, launched>>
      /\ status # "ok" /\ Return(status, "auto", FALSE)
  BY DEF CallInv, ForwardRejects
<1>2. ~AutoHalf
  <2> SUFFICES ASSUME AutoHalf PROVE FALSE OBVIOUS
  <2>1. decision = Preferred(req.cfg, ShapeOf(req))
    BY <1>1 DEF Chosen
  <2> QED
    BY <1>1, <2>1, AutoChoice DEF DeviceInv, AutoHalf
<1> HIDE DEF status
<1> QED
  BY <1>1, <1>2, ReturnKeeps

\* Running out of memory is no refusal.
LEMMA NoMemoryKeeps ==
  ASSUME CallInv, ForwardNoMemory
  PROVE  CallInv'
<1>1. /\ step = "forward" /\ UNCHANGED <<device, req, decision, launched>>
      /\ Return("kWorkspaceExceeded", "auto", FALSE)
  BY DEF ForwardNoMemory
<1>2. "kWorkspaceExceeded" # "ok" /\ "kWorkspaceExceeded" \notin Refused
  BY DEF Refused
<1> QED
  BY <1>1, <1>2, ReturnKeeps

\* What an adapter launches, it has checked.
LEMMA LaunchKeeps ==
  ASSUME CallInv, Launch
  PROVE  CallInv'
<1> DEFINE sh == ShapeOf(req)
           smem == CASE decision = "tiled" -> TiledLaunchSmem(req, sh)
                     [] decision = "flash" -> FlashLaunchSmem(req, sh)
                     [] OTHER -> 0
<1>1. /\ step = "forward" /\ req \in RequestType /\ Chosen /\ DeviceInv /\ cuda \in BOOLEAN
      /\ smem_limit \in Nat /\ device_smem \in Nat /\ smem_limit <= device_smem
      /\ result = None /\ UNCHANGED <<device, req, decision, result>> /\ step' = "launched"
      /\ AdapterStatus(decision, req, sh) = "ok"
  BY DEF CallInv, DeviceInv, Launch
<1>2. launched' = [kind |-> decision, shape |-> sh, dtype |-> req.q.dtype, smem |-> smem]
  BY DEF Launch
<1>3. /\ req' = req /\ decision' = decision /\ result' = None
      /\ DeviceInv' /\ device_smem' = device_smem /\ (steady' => steady)
  BY <1>1, DeviceFrame
<1>4. decision \in Kinds
  BY <1>1 DEF Chosen
<1>5. decision # "paged"
  BY <1>1, PagedMeans
<1>6. decision = "naive" \/ decision = "tiled" \/ decision = "flash" \/ decision = "decode"
  BY <1>4, <1>5 DEF Kinds, BackendKinds
<1>7. InferShape(req) = "ok" /\ Validate(req.cfg, sh) = "ok"
  BY <1>1, <1>6, NaiveMeans, TiledMeans, FlashMeans, DecodeMeans
<1>8. /\ \A axis \in 1 .. 3 : req.v.dim[axis] = req.k.dim[axis]
      /\ req.v.dim[4] = req.q.dim[4] /\ req.v.dim[1] = req.q.dim[1]
  BY <1>1, <1>7, InferShapeMeans
<1>9. req.cfg \in Configs /\ sh \in Shapes
  BY <1>1, ShapeType DEF RequestType
<1>10. /\ sh.head_dim \in kSupportedHeadDims /\ sh.num_heads % sh.num_kv_heads = 0
       /\ req.cfg.causal => sh.seq_kv >= sh.seq_q
       /\ req.cfg.sliding_window <= 0
  BY <1>7, <1>9, ValidateMeans
<1>11. decision = "decode" => sh.seq_q = 1
  BY <1>1, DecodeMeans
<1>12. decision = "tiled" => sh.head_dim <= 128 /\ SelectTile(req.q.dtype, sh.head_dim) # <<>>
  BY <1>1, TiledMeans DEF MaxTiledHeadDim
<1>13. decision = "flash" =>
         /\ req.q.dtype \in {"fp16", "bf16"} /\ sh.head_dim \in kFlashHeadDims
         /\ FlashTileSmemBytes(sh.head_dim, DtypeSize(req.q.dtype)) <= smem_limit
  BY <1>1, FlashMeans
<1>14. sh.head_dim \in Nat /\ (sh.head_dim <= 128 => sh.head_dim \in {32, 64, 96, 128})
  BY <1>10 DEF kSupportedHeadDims
<1>15. smem <= device_smem
  <2>1. CASE decision = "tiled"
    <3>1. smem = TiledSmemBytes(sh.head_dim, DtypeSize(req.q.dtype), SelectTile(req.q.dtype, sh.head_dim))
      BY <2>1 DEF TiledLaunchSmem
    <3>2. smem \in Nat /\ smem <= smem_limit
      BY <1>12, <1>14, <2>1, <3>1, TileFits
    <3> QED
      BY <1>1, <3>2
  <2>2. CASE decision = "flash"
    <3>1. smem = FlashTileSmemBytes(sh.head_dim, DtypeSize(req.q.dtype))
      BY <2>2 DEF FlashLaunchSmem
    <3>2. smem \in Nat /\ smem <= smem_limit
      BY <1>13, <1>14, <2>2, <3>1, FlashSmemNat
    <3> QED
      BY <1>1, <3>2
  <2>3. CASE decision \notin {"tiled", "flash"}
    <3>1. smem = 0
      BY <2>3
    <3> QED
      BY <1>1, <3>1
  <2> QED
    BY <2>1, <2>2, <2>3
<1>16. decision = "naive" /\ req.cfg.workspace_limit # 0 => ScoreBytes(sh) <= req.cfg.workspace_limit
  <2>1. decision = "naive" => ScoresFit(req.cfg, sh)
    BY <1>1, NaiveMeans
  <2> QED
    BY <2>1 DEF ScoresFit, EffectiveWorkspaceLimit
<1> HIDE DEF sh, smem
<1>17. /\ launched'.kind = decision /\ launched'.shape = sh /\ launched'.dtype = req.q.dtype
       /\ launched'.smem = smem
  BY <1>2
<1>18. Instantiated(launched')
  BY <1>6, <1>10, <1>12, <1>13, <1>14, <1>17 DEF Instantiated
<1>19. LaunchesFit'
  BY <1>3, <1>8, <1>10, <1>11, <1>15, <1>17, <1>18, <1>16 DEF LaunchesFit, ScoreBytes
<1>20. Chosen'
  BY <1>1, <1>3, CallFrame
<1> QED
  BY <1>1, <1>3, <1>19, <1>20 DEF CallInv, NoSilentDegradation, AutoServes

\* The launch succeeds or fails.
LEMMA FinishKeeps ==
  ASSUME CallInv, NEW launch_ok \in BOOLEAN, Finish(launch_ok)
  PROVE  CallInv'
<1>1. /\ step = "launched" /\ req \in RequestType /\ Chosen
      /\ UNCHANGED <<device, req, decision, launched>>
  BY DEF CallInv, Finish
<1>2. CASE launch_ok
  <2>1. /\ step' = "done" /\ req' = req /\ launched' = launched
        /\ result' = [status |-> "ok", used_backend |-> decision,
                      has_lse |-> req.cfg.return_lse /\ decision # "decode"]
    BY <1>1, <1>2 DEF Finish, Return
  <2>2. DeviceInv' /\ device_smem' = device_smem /\ (steady' => steady)
    BY <1>1, DeviceFrame DEF CallInv
  <2>3. result'.status = "ok" /\ result'.used_backend = decision
    BY <2>1
  <2>4. NoSilentDegradation'
    BY <1>1, <2>1, <2>3 DEF NoSilentDegradation, Chosen, NamedOrDegraded
  <2>5. AutoServes'
    BY <2>3 DEF AutoServes, Refused
  <2>6. LaunchesFit'
    BY <2>1, <2>2, CallFrame DEF CallInv
  <2> QED
    BY <1>1, <2>1, <2>4, <2>5, <2>6, <2>2 DEF CallInv
<1>3. CASE ~launch_ok
  <2>1. Return("launch failed", "auto", FALSE)
    BY <1>3 DEF Finish
  <2>2. "launch failed" # "ok" /\ "launch failed" \notin Refused
    BY DEF Refused
  <2> QED
    BY <1>1, <2>1, <2>2, ReturnKeeps
<1> QED
  BY <1>2, <1>3

\* The steps that belong to no check: the caller's, the device's and the other thread's.
LEMMA OthersKeep ==
  ASSUME CallInv, TakeResult \/ DeviceChanges \/ Refresh \/ UNCHANGED vars
  PROVE  CallInv'
<1>1. CASE TakeResult
  <2>1. step' = "idle" /\ launched' = None /\ result' = None
    BY <1>1 DEF TakeResult
  <2>2. DeviceInv'
    BY <1>1, DeviceFrame DEF TakeResult, CallInv
  <2> QED
    BY <2>1, <2>2 DEF CallInv, LaunchesFit, NoSilentDegradation, AutoServes
<1>2. CASE DeviceChanges \/ Refresh \/ UNCHANGED vars
  <2>1. /\ step' = step /\ req' = req /\ decision' = decision /\ launched' = launched
        /\ result' = result /\ device_smem' = device_smem /\ (steady' => steady)
    BY <1>2 DEF DeviceChanges, Refresh, vars, device
  <2>2. DeviceInv => DeviceInv'
    <3>1. CASE DeviceChanges
      BY <3>1 DEF DeviceChanges, DeviceInv, capability
    <3>2. CASE Refresh
      <4>1. smem_limit' = IF cuda THEN device_smem ELSE 0
        BY <3>2, ProbedMeans DEF Refresh
      <4> QED
        BY <3>2, <4>1 DEF Refresh, DeviceInv
    <3>3. CASE UNCHANGED vars
      BY <3>3 DEF vars, device, capability, DeviceInv
    <3> QED
      BY <1>2, <3>1, <3>2, <3>3
  <2>3. DeviceInv'
    BY <2>2 DEF CallInv
  <2> QED
    BY <2>1, <2>3, CallFrame DEF CallInv
<1> QED
  BY <1>1, <1>2

\* Every step of the dispatcher keeps the invariant.
LEMMA NextCallInv ==
  ASSUME CallInv, [Next]_vars
  PROVE  CallInv'
<1>1. CASE \E q \in Requests : Call(q)
  BY <1>1, CallKeeps
<1>2. CASE Proceed
  BY <1>2, InferKeeps, ChooseKeeps, RecheckKeeps, RejectsKeeps, NoMemoryKeeps, LaunchKeeps,
     FinishKeeps, OthersKeep DEF Proceed
<1>3. CASE DeviceChanges \/ Refresh \/ UNCHANGED vars
  BY <1>3, OthersKeep
<1> QED
  BY <1>1, <1>2, <1>3 DEF Next

\* A varlen call leaves the dispatcher alone.
LEMMA VarlenNextCall ==
  ASSUME [VarlenNext]_varlenVars
  PROVE  [Next]_vars
  BY DEF VarlenNext, varlenVars, Next, CallVarlen, VarlenRejects, VarlenAllocates,
     VarlenSequence, VarlenDone, TakeOutcome

\* The invariant holds whatever varlen calls are made in between.
LEMMA SpecCallInv == VarlenSpec => []CallInv
<1>1. VarlenInit => CallInv
  BY InitCallInv DEF VarlenInit
<1>2. CallInv /\ [VarlenNext]_varlenVars => CallInv'
  BY NextCallInv, VarlenNextCall
<1> QED
  BY <1>1, <1>2, PTL DEF VarlenSpec

\* A launch is instantiated, fits the device and the caller's workspace limit, and has
\* the shape Validate and InferShape ask for, whatever the probes on the way report.
THEOREM LaunchesFitHolds == VarlenSpec => []LaunchesFit
<1>1. CallInv => LaunchesFit
  BY DEF CallInv
<1> QED
  BY <1>1, SpecCallInv, PTL

\* No call is degraded without the caller's consent.
THEOREM NoSilentDegradationHolds == VarlenSpec => []NoSilentDegradation
<1>1. CallInv => NoSilentDegradation
  BY DEF CallInv
<1> QED
  BY <1>1, SpecCallInv, PTL

\* The threshold table never names a backend that has to refuse.
THEOREM AutoServesHolds == VarlenSpec => []AutoServes
<1>1. CallInv => AutoServes
  BY DEF CallInv
<1> QED
  BY <1>1, SpecCallInv, PTL

-----------------------------------------------------------------------------
\* Offsets that ascend from one sequence to the next ascend over any distance.
LEMMA OffsetsAscend ==
  ASSUME NEW n \in Nat, NEW cu \in [1 .. n + 1 -> Int],
         \A i \in 1 .. n : cu[i + 1] > cu[i],
         NEW i \in 1 .. n + 1, NEW j \in i .. n + 1
  PROVE  cu[i] <= cu[j] /\ (i < j => cu[i + 1] <= cu[j])
<1>1. ASSUME NEW a \in 1 .. n + 1, NEW b \in a .. n + 1
      PROVE  cu[a] <= cu[b]
  <2> DEFINE T == {m \in a .. n + 1 : ~(cu[a] <= cu[m])}
  <2> SUFFICES ASSUME T # {} PROVE FALSE OBVIOUS
  <2>1. T \subseteq Nat
    OBVIOUS
  <2>2. PICK m \in T : \A y \in T : m <= y
    BY <2>1, LeastNat
  <2>3. m \in a .. n + 1 /\ ~(cu[a] <= cu[m])
    BY <2>2
  <2>4. m # a
    BY <2>3
  <2>5. m - 1 \in a .. n + 1 /\ m - 1 \in 1 .. n /\ (m - 1) + 1 = m
    BY <2>3, <2>4
  <2>6. m - 1 \notin T
    BY <2>2, <2>5
  <2>7. cu[a] <= cu[m - 1]
    BY <2>5, <2>6
  <2>8. cu[m] > cu[m - 1]
    <3>1. cu[(m - 1) + 1] > cu[m - 1]
      BY <2>5
    <3> QED
      BY <2>5, <3>1
  <2>9. cu[a] \in Int /\ cu[m] \in Int /\ cu[m - 1] \in Int
    BY <2>3, <2>5
  <2> QED
    BY <2>3, <2>7, <2>8, <2>9
<1>2. cu[i] <= cu[j]
  BY <1>1
<1>3. i < j => i + 1 \in 1 .. n + 1 /\ j \in i + 1 .. n + 1
  OBVIOUS
<1> QED
  BY <1>1, <1>2, <1>3

\* Every packed token lies in exactly one sequence.
LEMMA TokenInSequence ==
  ASSUME NEW n \in Nat, NEW cu \in [1 .. n + 1 -> Int], cu[1] = 0,
         \A i \in 1 .. n : cu[i + 1] > cu[i], NEW t \in 0 .. cu[n + 1] - 1
  PROVE  \E i \in 1 .. n : cu[i] <= t /\ t < cu[i + 1]
<1> DEFINE T == {m \in 1 .. n + 1 : t < cu[m]}
<1>1. n + 1 \in T /\ t \in Int /\ 0 <= t
  <2>1. cu[n + 1] \in Int
    OBVIOUS
  <2> QED
    BY <2>1
<1>2. PICK m \in T : \A y \in T : m <= y
  <2>1. T \subseteq 1 .. n + 1 /\ T # {}
    BY <1>1, Zenon
  <2>2. T \subseteq Nat
    BY <2>1
  <2> QED
    BY <2>1, <2>2, LeastNat
<1>3. m \in 1 .. n + 1 /\ t < cu[m]
  BY <1>2
<1>4. m # 1
  BY <1>1, <1>3
<1>5. m - 1 \in 1 .. n /\ m - 1 \in 1 .. n + 1 /\ (m - 1) + 1 = m
  BY <1>3, <1>4
<1>6. ~(t < cu[m - 1])
  <2>1. m - 1 \notin T
    BY <1>2, <1>5
  <2> QED
    BY <1>5, <2>1
<1>7. cu[m - 1] <= t /\ t < cu[(m - 1) + 1]
  <2>1. cu[m - 1] \in Int
    BY <1>5
  <2> QED
    BY <1>1, <1>3, <1>5, <1>6, <2>1
<1> QED
  BY <1>5, <1>7

\* A bounded set of natural numbers has a greatest element, and Max is it.
LEMMA MaxGreatest ==
  ASSUME NEW T, T \subseteq Nat, T # {}, NEW bound \in Nat, \A x \in T : x <= bound
  PROVE  Max(T) \in T /\ \A x \in T : x <= Max(T)
<1> DEFINE U == {b \in Nat : \A x \in T : x <= b}
<1>1. U \subseteq Nat /\ U # {}
  OBVIOUS
<1>2. PICK b \in U : \A y \in U : b <= y
  BY <1>1, LeastNat
<1>3. b \in Nat /\ \A x \in T : x <= b
  BY <1>2
<1>4. b \in T
  <2> SUFFICES ASSUME b \notin T PROVE FALSE OBVIOUS
  <2>1. \A x \in T : x < b /\ x \in Nat
    BY <1>3
  <2>2. b > 0
    <3>1. PICK x \in T : TRUE
      OBVIOUS
    <3>2. x \in Nat /\ x < b
      BY <2>1, <3>1
    <3> QED
      BY <1>3, <3>2
  <2>3. b - 1 \in Nat /\ \A x \in T : x <= b - 1
    BY <1>3, <2>1, <2>2
  <2>4. b - 1 \in U
    BY <2>3
  <2> QED
    BY <1>2, <1>3, <2>4
<1>5. \E x \in T : \A y \in T : x >= y
  BY <1>3, <1>4
<1>6. Max(T) \in T /\ \A y \in T : Max(T) >= y
  BY <1>5 DEF Max
<1> QED
  BY <1>6

-----------------------------------------------------------------------------
\* The launch of sequence n of call c.
ParamsOf(c, n) ==
  [q |-> c.cu_q[n], kv |-> c.cu_kv[n], seq_q |-> c.cu_q[n + 1] - c.cu_q[n],
   seq_kv |-> c.cu_kv[n + 1] - c.cu_kv[n],
   diagonal |-> IF c.cfg.causal
                  THEN (c.cu_kv[n + 1] - c.cu_kv[n]) - (c.cu_q[n + 1] - c.cu_q[n]) ELSE 0]

\* Sequence n of call c has queries and keys.
NonEmpty(c, n) ==
  ~(c.cu_q[n + 1] - c.cu_q[n] <= 0) /\ ~(c.cu_kv[n + 1] - c.cu_kv[n] <= 0)

\* The calls ValidatedServed speaks of.
Servable(c) ==
  /\ Validated(c)
  /\ c.max_q = MaxSeqOut(c.cu_q, c.num_seqs)
  /\ c.max_kv = MaxSeqOut(c.cu_kv, c.num_seqs)
  /\ \A i \in 1 .. c.num_seqs : c.cu_kv[i + 1] - c.cu_kv[i] >= c.cu_q[i + 1] - c.cu_q[i]
  /\ \A t \in {c.q, c.k, c.v} : t.ndims = 3
  /\ c.k.dim[3] = c.q.dim[3] /\ c.v.dim[2] = c.k.dim[2]
  /\ c.v.dim[3] = c.q.dim[3] /\ c.q.dim[2] % c.k.dim[2] = 0

\* The inductive invariant of a varlen call: the launches so far are those of the first
\* sequences, an Ok means all of them, and a shape was refused for a reason.
VarlenInv ==
  /\ vstep \in {"idle", "check", "loop", "done"}
  /\ vstep = "idle" => call = None
  /\ vstep # "idle" => call \in VarlenCalls
  /\ vstep \in {"idle", "check"} => launches = <<>>
  /\ vstep # "done" => outcome = None
  /\ launches \in Seq({ParamsOf(call, n) : n \in Nat})
  /\ \A n \in DOMAIN launches : launches[n] = ParamsOf(call, n) /\ n <= call.num_seqs
  /\ outcome # None /\ outcome.status = "ok" => Len(launches) >= call.num_seqs
  /\ outcome # None /\ outcome.status = "kShapeMismatch" =>
       ~Servable(call)

\* Offsets that passed ValidateVarlenHost, as functions.
LEMMA ValidatedOffsets ==
  ASSUME NEW c \in VarlenCalls, Validated(c)
  PROVE  /\ c.num_seqs \in Nat \ {0}
         /\ \A i \in 1 .. c.num_seqs + 1 : c.cu_q[i] \in Int /\ c.cu_kv[i] \in Int
         /\ \E cu \in [1 .. c.num_seqs + 1 -> Int] :
              /\ cu[1] = 0 /\ \A i \in 1 .. c.num_seqs : cu[i + 1] > cu[i]
              /\ \A i \in 1 .. c.num_seqs + 1 : cu[i] = c.cu_q[i]
         /\ \E cu \in [1 .. c.num_seqs + 1 -> Int] :
              /\ cu[1] = 0 /\ \A i \in 1 .. c.num_seqs : cu[i + 1] > cu[i]
              /\ \A i \in 1 .. c.num_seqs + 1 : cu[i] = c.cu_kv[i]
<1>1. c.num_seqs \in Int /\ c.cu_q \in Seq(Int) /\ c.cu_kv \in Seq(Int)
  BY VarlenAssumption DEF VarlenCallType
<1>2. c.num_seqs >= 1 /\ c.cu_q # <<>> /\ c.cu_kv # <<>>
  BY DEF Validated, ValidateVarlenHost
<1>3. Len(c.cu_q) > c.num_seqs /\ Len(c.cu_kv) > c.num_seqs
  BY <1>2, VarlenAssumption
<1>4. /\ c.cu_q[1] = 0 /\ \A i \in 1 .. c.num_seqs : c.cu_q[i + 1] > c.cu_q[i]
      /\ c.cu_kv[1] = 0 /\ \A i \in 1 .. c.num_seqs : c.cu_kv[i + 1] > c.cu_kv[i]
  BY DEF Validated, ValidateVarlenHost
<1>5. PICK n \in Nat : n = c.num_seqs /\ n >= 1
  BY <1>1, <1>2
<1>6. \A i \in 1 .. n + 1 : c.cu_q[i] \in Int /\ c.cu_kv[i] \in Int
  <2>1. Len(c.cu_q) \in Nat /\ Len(c.cu_kv) \in Nat
    BY <1>1
  <2>2. \A i \in 1 .. n + 1 : i \in 1 .. Len(c.cu_q) /\ i \in 1 .. Len(c.cu_kv)
    BY <1>3, <1>5, <2>1
  <2> QED
    BY <1>1, <2>2
<1> DEFINE fq == [i \in 1 .. n + 1 |-> c.cu_q[i]]
           fkv == [i \in 1 .. n + 1 |-> c.cu_kv[i]]
<1>7. /\ fq \in [1 .. n + 1 -> Int] /\ fkv \in [1 .. n + 1 -> Int]
      /\ \A i \in 1 .. n + 1 : fq[i] = c.cu_q[i] /\ fkv[i] = c.cu_kv[i]
  BY <1>6
<1> HIDE DEF fq, fkv
<1>8. \A i \in 1 .. n : i \in 1 .. n + 1 /\ i + 1 \in 1 .. n + 1
  OBVIOUS
<1>9. 1 \in 1 .. n + 1
  OBVIOUS
<1>10. fq[1] = 0 /\ \A i \in 1 .. n : fq[i + 1] > fq[i]
  BY <1>4, <1>5, <1>7, <1>8, <1>9
<1>11. fkv[1] = 0 /\ \A i \in 1 .. n : fkv[i + 1] > fkv[i]
  BY <1>4, <1>5, <1>7, <1>8, <1>9
<1>12. \E cu \in [1 .. n + 1 -> Int] :
         /\ cu[1] = 0 /\ \A i \in 1 .. n : cu[i + 1] > cu[i]
         /\ \A i \in 1 .. n + 1 : cu[i] = c.cu_q[i]
  BY <1>7, <1>10
<1>13. \E cu \in [1 .. n + 1 -> Int] :
         /\ cu[1] = 0 /\ \A i \in 1 .. n : cu[i + 1] > cu[i]
         /\ \A i \in 1 .. n + 1 : cu[i] = c.cu_kv[i]
  BY <1>7, <1>11
<1>14. n \in Nat \ {0}
  BY <1>5
<1> QED
  BY <1>5, <1>6, <1>12, <1>13, <1>14

\* The keys of KeysOf and of ReferenceKeys, by their numbers.
LaunchKeys(c, q, kv, len, diag, t) ==
  {kv + col : col \in {x \in 0 .. len - 1 : c => x <= t - q + diag}}
OwnKeys(c, kv, kve, qe, t) == {y \in kv .. kve - 1 : c => kve - y >= qe - t}

\* The keys a launch attends a row to are the ones the definition names, if the row is
\* one of its own.
LEMMA KeysMatch ==
  ASSUME NEW c \in BOOLEAN, NEW q \in Int, NEW kv \in Int, NEW qe \in Int, NEW kve \in Int,
         NEW t \in Int, NEW diag \in Int, diag = IF c THEN (kve - kv) - (qe - q) ELSE 0
  PROVE  LaunchKeys(c, q, kv, kve - kv, diag, t) = OwnKeys(c, kv, kve, qe, t)
<1> DEFINE L == {kv + col : col \in {x \in 0 .. (kve - kv) - 1 : c => x <= t - q + diag}}
           R == {y \in kv .. kve - 1 : c => kve - y >= qe - t}
<1>1. ASSUME NEW y \in L PROVE y \in R
  <2>1. PICK col \in {x \in 0 .. (kve - kv) - 1 : c => x <= t - q + diag} : y = kv + col
    OBVIOUS
  <2>2. col \in 0 .. (kve - kv) - 1 /\ (c => col <= t - q + diag)
    BY <2>1
  <2> QED
    BY <2>1, <2>2
<1>2. ASSUME NEW y \in R PROVE y \in L
  <2>1. y \in kv .. kve - 1 /\ (c => kve - y >= qe - t)
    OBVIOUS
  <2>2. y - kv \in 0 .. (kve - kv) - 1 /\ (c => y - kv <= t - q + diag) /\ y = kv + (y - kv)
    BY <2>1
  <2>3. y - kv \in {x \in 0 .. (kve - kv) - 1 : c => x <= t - q + diag}
    BY <2>2
  <2> QED
    BY <2>2, <2>3
<1> HIDE DEF L, R
<1>3. L = R
  BY <1>1, <1>2
<1> QED
  BY <1>3 DEF L, R, LaunchKeys, OwnKeys

\* The launches of the first sequences write disjoint rows, each with the keys of its
\* own sequence, and all of them write every row.
LEMMA VarlenInvExact == VarlenInv => VarlenExact
<1> SUFFICES ASSUME VarlenInv, call # None, Validated(call) PROVE VarlenExact
  BY DEF VarlenExact
<1>1. call \in VarlenCalls
  BY DEF VarlenInv
<1>2. PICK n \in Nat : n = call.num_seqs /\ n >= 1
  BY <1>1, ValidatedOffsets
<1>3. PICK cu \in [1 .. n + 1 -> Int] :
        /\ cu[1] = 0 /\ \A i \in 1 .. n : cu[i + 1] > cu[i]
        /\ \A i \in 1 .. n + 1 : cu[i] = call.cu_q[i]
  BY <1>1, <1>2, ValidatedOffsets
<1>4. \A i \in 1 .. n + 1 : call.cu_q[i] \in Int /\ call.cu_kv[i] \in Int
  BY <1>1, <1>2, ValidatedOffsets
<1>5. call.cfg.causal \in BOOLEAN
  BY <1>1, VarlenAssumption DEF VarlenCallType
<1>6. \A m \in DOMAIN launches : m \in 1 .. n /\ launches[m] = ParamsOf(call, m)
  <2>1. DOMAIN launches = 1 .. Len(launches) /\ Len(launches) \in Nat
    BY DEF VarlenInv
  <2> QED
    BY <1>2, <2>1 DEF VarlenInv
<1> DEFINE writers(t) ==
             {m \in DOMAIN launches : t \in launches[m].q .. launches[m].q + launches[m].seq_q - 1}
           tokens == 0 .. call.cu_q[call.num_seqs + 1] - 1
           inSeq(t, i) == call.cu_q[i] <= t /\ t < call.cu_q[i + 1]
<1>7. ASSUME NEW i \in 1 .. n, NEW j \in 1 .. n, NEW t \in Int, inSeq(t, i), inSeq(t, j)
      PROVE  i = j
  <2>1. ASSUME NEW a \in 1 .. n, NEW b \in 1 .. n, inSeq(t, a), inSeq(t, b), a < b PROVE FALSE
    <3>1. a \in 1 .. n + 1 /\ b \in a .. n + 1 /\ a + 1 \in 1 .. n + 1 /\ b \in 1 .. n + 1
      BY <2>1
    <3>2. cu[a + 1] <= cu[b]
      BY <1>3, <2>1, <3>1, OffsetsAscend
    <3>3. t < cu[a + 1] /\ cu[b] <= t /\ cu[a + 1] \in Int /\ cu[b] \in Int
      BY <1>3, <2>1, <3>1
    <3> QED
      BY <3>2, <3>3
  <2>2. i < j \/ j < i \/ i = j
    OBVIOUS
  <2> QED
    BY <1>7, <2>1, <2>2
<1>8. ASSUME NEW t \in Int, NEW m \in DOMAIN launches
      PROVE  m \in writers(t) <=> inSeq(t, m)
  <2>1. m \in 1 .. n /\ m \in 1 .. n + 1 /\ m + 1 \in 1 .. n + 1 /\ launches[m] = ParamsOf(call, m)
    BY <1>6
  <2>2. launches[m].q = call.cu_q[m] /\ launches[m].seq_q = call.cu_q[m + 1] - call.cu_q[m]
    BY <2>1 DEF ParamsOf
  <2>3. call.cu_q[m] \in Int /\ call.cu_q[m + 1] \in Int
    BY <1>4, <2>1
  <2> QED
    BY <2>2, <2>3
<1>9. tokens \subseteq Int
  OBVIOUS
<1>10. ASSUME NEW t \in tokens, NEW m \in writers(t)
       PROVE  writers(t) = {m} /\ KeysOf(launches[m], t) = ReferenceKeys(t)
  <2>1. t \in Int /\ m \in DOMAIN launches /\ m \in 1 .. n /\ inSeq(t, m)
    BY <1>6, <1>8, <1>9
  <2>2. \A k \in writers(t) : k = m
    BY <1>6, <1>7, <1>8, <2>1
  <2>3. writers(t) = {m}
    BY <2>2
  <2>4. (CHOOSE i \in 1 .. call.num_seqs : call.cu_q[i] <= t /\ t < call.cu_q[i + 1]) = m
    <3>1. \A i \in 1 .. n : inSeq(t, i) <=> i = m
      BY <1>7, <2>1
    <3> QED
      BY <1>2, <3>1
  <2>5. ReferenceKeys(t) =
          {y \in call.cu_kv[m] .. call.cu_kv[m + 1] - 1 :
             call.cfg.causal => call.cu_kv[m + 1] - y >= call.cu_q[m + 1] - t}
    BY <2>4 DEF ReferenceKeys
  <2>6. launches[m] = ParamsOf(call, m)
    BY <1>6, <2>1
  <2>7. PICK q \in Int, kv \in Int, qe \in Int, kve \in Int :
          q = call.cu_q[m] /\ kv = call.cu_kv[m] /\ qe = call.cu_q[m + 1] /\ kve = call.cu_kv[m + 1]
    <3>1. m \in 1 .. n + 1 /\ m + 1 \in 1 .. n + 1
      BY <2>1
    <3> QED
      BY <1>4, <3>1
  <2>8. PICK diag \in Int : diag = IF call.cfg.causal THEN (kve - kv) - (qe - q) ELSE 0
    <3>1. (kve - kv) - (qe - q) \in Int /\ 0 \in Int
      OBVIOUS
    <3> QED
      BY <3>1, Zenon
  <2>9. launches[m] = [q |-> q, kv |-> kv, seq_q |-> qe - q, seq_kv |-> kve - kv, diagonal |-> diag]
    BY <2>6, <2>7, <2>8 DEF ParamsOf
  <2>10. KeysOf(launches[m], t) = LaunchKeys(call.cfg.causal, q, kv, kve - kv, diag, t)
    BY <2>9 DEF KeysOf, LaunchKeys
  <2>11. ReferenceKeys(t) = OwnKeys(call.cfg.causal, kv, kve, qe, t)
    BY <2>5, <2>7 DEF OwnKeys
  <2>12. t \in Int
    BY <2>1
  <2>13. LaunchKeys(call.cfg.causal, q, kv, kve - kv, diag, t) = OwnKeys(call.cfg.causal, kv, kve, qe, t)
    BY <1>5, <2>8, <2>12, KeysMatch
  <2> QED
    BY <2>3, <2>10, <2>11, <2>13
<1>11. ASSUME outcome # None, outcome.status = "ok", NEW t \in tokens
       PROVE  writers(t) # {}
  <2>1. Len(launches) >= n /\ DOMAIN launches = 1 .. Len(launches) /\ Len(launches) \in Nat
    BY <1>2, <1>11 DEF VarlenInv
  <2>2. t \in 0 .. cu[n + 1] - 1
    BY <1>2, <1>3
  <2>3. PICK i \in 1 .. n : cu[i] <= t /\ t < cu[i + 1]
    BY <1>3, <2>2, TokenInSequence
  <2>4. i \in DOMAIN launches /\ i \in 1 .. n + 1 /\ i + 1 \in 1 .. n + 1
    BY <2>1, <2>3
  <2>5. inSeq(t, i)
    BY <1>3, <2>3, <2>4
  <2>6. i \in writers(t)
    BY <1>8, <1>9, <2>4, <2>5
  <2> QED
    BY <2>6
<1> QED
  BY <1>10, <1>11 DEF VarlenExact

-----------------------------------------------------------------------------
\* No shape check among these fails.
ShapeOk(checks) ==
  /\ checks \in Seq(Checks) /\ WellCoded(checks)
  /\ \A i \in DOMAIN checks : ~checks[i].holds => checks[i].code # "kShapeMismatch"

\* Checks in a row.
LEMMA ConcatShapeOk ==
  ASSUME NEW s, NEW t, ShapeOk(s), ShapeOk(t)
  PROVE  ShapeOk(s \o t)
<1>1. s \in Seq(Checks) /\ t \in Seq(Checks) /\ WellCoded(s) /\ WellCoded(t)
  BY DEF ShapeOk
<1> DEFINE c == s \o t
<1>2. /\ c \in Seq(Checks) /\ WellCoded(c)
      /\ \A i \in DOMAIN c : (\E j \in DOMAIN s : c[i] = s[j]) \/ (\E j \in DOMAIN t : c[i] = t[j])
  BY <1>1, ConcatChecks
<1> HIDE DEF c
<1>3. ShapeOk(c)
  BY <1>2 DEF ShapeOk
<1> QED
  BY <1>3 DEF c

\* A status with no failing shape check is not kShapeMismatch.
LEMMA ShapeOkStatus ==
  ASSUME NEW checks, ShapeOk(checks)
  PROVE  FirstError(checks) # "kShapeMismatch"
<1>1. checks \in Seq(Checks) /\ WellCoded(checks)
  BY DEF ShapeOk
<1>2. FirstError(checks) # "ok" =>
        \E i \in DOMAIN checks : ~checks[i].holds /\ FirstError(checks) = checks[i].code
  BY <1>1, FirstErrorMeans
<1>3. "ok" # "kShapeMismatch"
  OBVIOUS
<1> QED
  BY <1>2, <1>3 DEF ShapeOk

\* The longest sequence has at least as many keys as queries if every one has.
LEMMA LongestKeys ==
  ASSUME NEW c \in VarlenCalls, Validated(c),
         \A i \in 1 .. c.num_seqs : c.cu_kv[i + 1] - c.cu_kv[i] >= c.cu_q[i + 1] - c.cu_q[i]
  PROVE  MaxSeqOut(c.cu_kv, c.num_seqs) >= MaxSeqOut(c.cu_q, c.num_seqs)
<1>1. PICK n \in Nat : n = c.num_seqs /\ n >= 1
  BY ValidatedOffsets
<1>2. \A i \in 1 .. n + 1 : c.cu_q[i] \in Int /\ c.cu_kv[i] \in Int
  BY <1>1, ValidatedOffsets
<1>3. PICK cu \in [1 .. n + 1 -> Int] :
        /\ cu[1] = 0 /\ \A i \in 1 .. n : cu[i + 1] > cu[i]
        /\ \A i \in 1 .. n + 1 : cu[i] = c.cu_q[i]
  BY <1>1, ValidatedOffsets
<1>4. PICK ck \in [1 .. n + 1 -> Int] :
        /\ ck[1] = 0 /\ \A i \in 1 .. n : ck[i + 1] > ck[i]
        /\ \A i \in 1 .. n + 1 : ck[i] = c.cu_kv[i]
  BY <1>1, ValidatedOffsets
<1> DEFINE Q == {0} \union {c.cu_q[i + 1] - c.cu_q[i] : i \in 1 .. n}
           K == {0} \union {c.cu_kv[i + 1] - c.cu_kv[i] : i \in 1 .. n}
<1>5. ASSUME NEW f \in [1 .. n + 1 -> Int], f[1] = 0, \A i \in 1 .. n : f[i + 1] > f[i]
      PROVE  /\ f[n + 1] \in Nat
             /\ \A i \in 1 .. n : f[i + 1] - f[i] \in Nat /\ f[i + 1] - f[i] <= f[n + 1]
  <2>1. ASSUME NEW i \in 1 .. n
        PROVE  f[i + 1] - f[i] \in Nat /\ f[i + 1] - f[i] <= f[n + 1]
    <3>1. /\ i + 1 \in 1 .. n + 1 /\ i \in 1 .. n + 1 /\ n + 1 \in i + 1 .. n + 1
          /\ 1 \in 1 .. n + 1
      OBVIOUS
    <3>2. f[i + 1] <= f[n + 1] /\ f[1] <= f[i]
      BY <1>5, <3>1, OffsetsAscend
    <3>3. PICK a \in Int, b \in Int, e \in Int : a = f[i] /\ b = f[i + 1] /\ e = f[n + 1]
      <4>1. f[i] \in Int /\ f[i + 1] \in Int /\ f[n + 1] \in Int
        BY <3>1
      <4> QED
        BY <4>1, Zenon
    <3>4. b > a /\ b <= e /\ 0 <= a
      BY <1>5, <3>2, <3>3
    <3>5. b - a \in Nat /\ b - a <= e
      BY <3>3, <3>4
    <3> QED
      BY <3>3, <3>5
  <2>2. f[n + 1] \in Nat
    <3>1. 1 \in 1 .. n + 1 /\ n + 1 \in 1 .. n + 1
      OBVIOUS
    <3>2. f[1] <= f[n + 1]
      BY <1>5, <3>1, OffsetsAscend
    <3>3. f[n + 1] \in Int
      BY <3>1
    <3> QED
      BY <1>5, <3>2, <3>3
  <2> QED
    BY <2>1, <2>2
<1>6. \A i \in 1 .. n : i \in 1 .. n + 1 /\ i + 1 \in 1 .. n + 1
  OBVIOUS
<1>7. /\ cu[n + 1] \in Nat
      /\ \A i \in 1 .. n : c.cu_q[i + 1] - c.cu_q[i] \in Nat /\ c.cu_q[i + 1] - c.cu_q[i] <= cu[n + 1]
  <2>1. \A i \in 1 .. n : cu[i + 1] - cu[i] \in Nat /\ cu[i + 1] - cu[i] <= cu[n + 1]
    BY <1>3, <1>5
  <2>2. \A i \in 1 .. n : cu[i + 1] = c.cu_q[i + 1] /\ cu[i] = c.cu_q[i]
    BY <1>3, <1>6
  <2> QED
    BY <1>3, <1>5, <2>1, <2>2
<1>8. /\ ck[n + 1] \in Nat
      /\ \A i \in 1 .. n : c.cu_kv[i + 1] - c.cu_kv[i] \in Nat /\ c.cu_kv[i + 1] - c.cu_kv[i] <= ck[n + 1]
  <2>1. \A i \in 1 .. n : ck[i + 1] - ck[i] \in Nat /\ ck[i + 1] - ck[i] <= ck[n + 1]
    BY <1>4, <1>5
  <2>2. \A i \in 1 .. n : ck[i + 1] = c.cu_kv[i + 1] /\ ck[i] = c.cu_kv[i]
    BY <1>4, <1>6
  <2> QED
    BY <1>4, <1>5, <2>1, <2>2
<1>9. Max(Q) \in Q
  <2>1. Q \subseteq Nat /\ Q # {} /\ \A x \in Q : x <= cu[n + 1]
    BY <1>7
  <2> HIDE DEF Q
  <2> QED
    BY <1>7, <2>1, MaxGreatest
<1>10. Max(K) \in Nat /\ \A x \in K : x <= Max(K)
  <2>1. K \subseteq Nat /\ K # {} /\ \A x \in K : x <= ck[n + 1]
    BY <1>8
  <2> HIDE DEF K
  <2> QED
    BY <1>8, <2>1, MaxGreatest
<1> DEFINE mq == Max(Q)
           mk == Max(K)
<1>11. MaxSeqOut(c.cu_q, c.num_seqs) = mq /\ MaxSeqOut(c.cu_kv, c.num_seqs) = mk
  BY <1>1 DEF MaxSeqOut
<1>12. /\ mq = 0 \/ \E i \in 1 .. n : mq = c.cu_q[i + 1] - c.cu_q[i]
       /\ mk \in Nat /\ mk >= 0
  BY <1>9, <1>10
<1>13. \A i \in 1 .. n : c.cu_kv[i + 1] - c.cu_kv[i] <= mk
  BY <1>10
<1> HIDE DEF mq, mk
<1>14. mk >= mq
  <2>1. CASE mq = 0
    BY <1>12, <2>1
  <2>2. CASE \E i \in 1 .. n : mq = c.cu_q[i + 1] - c.cu_q[i]
    <3>1. PICK i \in 1 .. n : mq = c.cu_q[i + 1] - c.cu_q[i]
      BY <2>2
    <3>2. /\ c.cu_kv[i + 1] - c.cu_kv[i] >= c.cu_q[i + 1] - c.cu_q[i]
          /\ c.cu_kv[i + 1] - c.cu_kv[i] <= mk
          /\ c.cu_kv[i + 1] - c.cu_kv[i] \in Nat /\ c.cu_q[i + 1] - c.cu_q[i] \in Nat
      BY <1>1, <1>7, <1>8, <1>13
    <3> QED
      BY <1>12, <3>1, <3>2
  <2> QED
    BY <1>12, <2>1, <2>2
<1> QED
  BY <1>11, <1>14

\* A call ValidatedServed speaks of has no failing shape check.
LEMMA ServedStatus ==
  ASSUME NEW c \in VarlenCalls, Validated(c), cuda \in BOOLEAN,
         c.max_q = MaxSeqOut(c.cu_q, c.num_seqs), c.max_kv = MaxSeqOut(c.cu_kv, c.num_seqs),
         \A i \in 1 .. c.num_seqs : c.cu_kv[i + 1] - c.cu_kv[i] >= c.cu_q[i + 1] - c.cu_q[i],
         c.q.ndims = 3, c.k.ndims = 3, c.v.ndims = 3,
         c.k.dim[3] = c.q.dim[3] /\ c.v.dim[2] = c.k.dim[2],
         c.v.dim[3] = c.q.dim[3] /\ c.q.dim[2] % c.k.dim[2] = 0
  PROVE  VarlenStatus(c) # "kShapeMismatch"
<1> DEFINE a1 == Check(c.backend = "flash", "kUnsupportedFeature")
           a2 == Check(c.cu_q # <<>> /\ c.cu_kv # <<>>, "kShapeMismatch")
           a3 == Check(c.num_seqs >= 1, "kShapeMismatch")
           a4 == Check(~c.cfg.return_lse, "kUnsupportedFeature")
           a5 == Check(~c.cfg.causal \/ c.max_kv >= c.max_q, "kShapeMismatch")
           A == <<a1, a2, a3, a4, a5>>
           b1 == Check(c.q.dtype \in {"fp16", "bf16"}, "kUnsupportedDtype")
           b2 == Check(c.q.dtype = c.k.dtype /\ c.q.dtype = c.v.dtype, "kUnsupportedDtype")
           b3 == Check(/\ c.k.dim[3] = c.q.dim[3] /\ c.v.dim[3] = c.q.dim[3]
                       /\ c.v.dim[2] = c.k.dim[2], "kShapeMismatch")
           groups == c.q.dim[2] % c.k.dim[2] = 0
           b4 == Check(groups, "kShapeMismatch")
           B == <<b1, b2, b3, b4>>
           PQ == PackedChecks(c.q)
           PK == PackedChecks(c.k)
           PV == PackedChecks(c.v)
           F == ValidateFlashRequest(c.q.dtype, c.cfg, c.q.dim[3])
<1>1. VarlenStatus(c) = FirstError(A \o PQ \o PK \o PV \o B \o F)
  BY DEF VarlenStatus
<1>2. c.max_kv >= c.max_q
  BY LongestKeys
<1>3. c.num_seqs >= 1 /\ c.cu_q # <<>> /\ c.cu_kv # <<>>
  BY DEF Validated, ValidateVarlenHost
<1>4. /\ a1 \in Checks /\ a1.code \notin {"ok", "kShapeMismatch"}
      /\ a2 \in Checks /\ a2.holds /\ a3 \in Checks /\ a3.holds
      /\ a4 \in Checks /\ a4.code \notin {"ok", "kShapeMismatch"}
      /\ a5 \in Checks /\ a5.holds
  BY <1>2, <1>3 DEF Check, Checks, Codes
<1>5. ShapeOk(A)
  <2> HIDE DEF a1, a2, a3, a4, a5
  <2> QED
    BY <1>4 DEF ShapeOk, WellCoded
<1>6. /\ b1 \in Checks /\ b1.code \notin {"ok", "kShapeMismatch"}
      /\ b2 \in Checks /\ b2.code \notin {"ok", "kShapeMismatch"}
      /\ b3 \in Checks /\ b3.holds /\ b4 \in Checks /\ b4.holds
  <2>1. groups
    OBVIOUS
  <2>2. groups = TRUE
    BY <2>1
  <2> HIDE DEF groups
  <2> QED
    BY <2>2 DEF Check, Checks, Codes
<1>7. ShapeOk(B)
  <2> HIDE DEF b1, b2, b3, b4
  <2> QED
    BY <1>6 DEF ShapeOk, WellCoded
<1>8. ASSUME NEW t \in PackedTensors, t.ndims = 3 PROVE ShapeOk(PackedChecks(t))
  <2> DEFINE p1 == Check(t.ndims = 3, "kShapeMismatch")
             p2 == Check(t.cuda, "kUnsupportedFeature")
  <2>1. t.cuda \in BOOLEAN
    BY DEF PackedTensors
  <2>2. /\ p1 \in Checks /\ p1.holds /\ p2 \in Checks
        /\ p2.code \notin {"ok", "kShapeMismatch"}
    BY <1>8, <2>1 DEF Check, Checks, Codes
  <2>3. PackedChecks(t) = <<p1, p2>>
    BY DEF PackedChecks
  <2> HIDE DEF p1, p2
  <2> QED
    BY <2>2, <2>3 DEF ShapeOk, WellCoded
<1>9. ShapeOk(PQ) /\ ShapeOk(PK) /\ ShapeOk(PV)
  <2>1. c.q \in PackedTensors /\ c.k \in PackedTensors /\ c.v \in PackedTensors
    BY VarlenAssumption DEF VarlenCallType
  <2> QED
    BY <1>8, <2>1
<1>10. ShapeOk(F)
  <2>1. /\ F \in Seq(Checks) /\ WellCoded(F)
        /\ \A i \in DOMAIN F : F[i].code # "kShapeMismatch"
    BY FlashRequestMeans
  <2> HIDE DEF F
  <2> QED
    BY <2>1 DEF ShapeOk
<1> HIDE DEF A, B, PQ, PK, PV, F
<1>11. ShapeOk(A \o PQ)
  BY <1>5, <1>9, ConcatShapeOk
<1>12. ShapeOk(A \o PQ \o PK)
  BY <1>9, <1>11, ConcatShapeOk
<1>13. ShapeOk(A \o PQ \o PK \o PV)
  BY <1>9, <1>12, ConcatShapeOk
<1>14. ShapeOk(A \o PQ \o PK \o PV \o B)
  BY <1>7, <1>13, ConcatShapeOk
<1>15. ShapeOk(A \o PQ \o PK \o PV \o B \o F)
  BY <1>10, <1>14, ConcatShapeOk
<1> QED
  BY <1>1, <1>15, ShapeOkStatus

\* A servable call has no empty sequence and no failing shape check.
LEMMA ServableMeans ==
  ASSUME NEW c \in VarlenCalls, Servable(c), cuda \in BOOLEAN
  PROVE  /\ VarlenStatus(c) # "kShapeMismatch"
         /\ \A n \in 1 .. c.num_seqs : NonEmpty(c, n)
<1>1. c.q.ndims = 3 /\ c.k.ndims = 3 /\ c.v.ndims = 3
  BY DEF Servable
<1>2. VarlenStatus(c) # "kShapeMismatch"
  BY <1>1, ServedStatus DEF Servable
<1>3. Validated(c)
  BY DEF Servable
<1>4. ASSUME NEW n \in 1 .. c.num_seqs PROVE NonEmpty(c, n)
  <2>1. c.num_seqs \in Nat
    BY <1>3, ValidatedOffsets
  <2>2. n \in 1 .. c.num_seqs + 1 /\ n + 1 \in 1 .. c.num_seqs + 1
    BY <2>1
  <2>3. \A i \in 1 .. c.num_seqs + 1 : c.cu_q[i] \in Int /\ c.cu_kv[i] \in Int
    BY <1>3, ValidatedOffsets
  <2>4. c.cu_q[n + 1] > c.cu_q[n] /\ c.cu_kv[n + 1] > c.cu_kv[n]
    BY <1>3 DEF Validated, ValidateVarlenHost
  <2> QED
    BY <2>2, <2>3, <2>4 DEF NonEmpty
<1> QED
  BY <1>2, <1>4

\* No servable call is refused for its shape.
LEMMA VarlenInvServed ==
  ASSUME VarlenInv
  PROVE  ValidatedServed
  BY DEF VarlenInv, ValidatedServed, Servable

-----------------------------------------------------------------------------
\* What VarlenInv says of a state in which only the dispatcher or the device moved.
LEMMA VarlenFrame ==
  ASSUME VarlenInv, UNCHANGED varlen
  PROVE  VarlenInv'
<1>1. call' = call /\ vstep' = vstep /\ launches' = launches /\ outcome' = outcome
  BY DEF varlen
<1> QED
  BY <1>1 DEF VarlenInv

\* A call returns with the launches it has made.
LEMMA VarlenReturnKeeps ==
  ASSUME VarlenInv, vstep # "idle", NEW status, VarlenReturn(status),
         UNCHANGED <<vars, call, launches>>,
         status = "ok" => Len(launches) >= call.num_seqs,
         status = "kShapeMismatch" => ~Servable(call)
  PROVE  VarlenInv'
<1>1. /\ call' = call /\ vstep' = "done" /\ launches' = launches /\ outcome' = [status |-> status]
  BY DEF VarlenReturn
<1>2. outcome'.status = status
  BY <1>1
<1> QED
  BY <1>1, <1>2 DEF VarlenInv

\* One iteration of the loop.
LEMMA SequenceKeeps ==
  ASSUME VarlenInv, cuda \in BOOLEAN, VarlenSequence
  PROVE  VarlenInv'
<1>1. /\ vstep = "loop" /\ call \in VarlenCalls /\ outcome = None /\ cur <= call.num_seqs
      /\ UNCHANGED <<vars, call>>
  BY DEF VarlenInv, VarlenSequence
<1>2. call.num_seqs \in Int /\ cur \in Nat /\ cur = Len(launches) + 1 /\ cur >= 1
  <2>1. Len(launches) \in Nat
    BY DEF VarlenInv
  <2> QED
    BY <1>1, <2>1, VarlenAssumption DEF cur, VarlenCallType
<1>3. cur_sq = call.cu_q[cur + 1] - call.cu_q[cur] /\ cur_skv = call.cu_kv[cur + 1] - call.cu_kv[cur]
  BY DEF cur_sq, cur_skv
<1>4. CASE cur_sq <= 0 \/ cur_skv <= 0
  <2>1. VarlenReturn("kShapeMismatch") /\ UNCHANGED <<vars, call, launches>>
    BY <1>1, <1>4 DEF VarlenSequence
  <2>2. cur \in 1 .. call.num_seqs
    BY <1>1, <1>2
  <2>3. ~NonEmpty(call, cur)
    BY <1>3, <1>4 DEF NonEmpty
  <2>4. "kShapeMismatch" # "ok" /\ ~Servable(call)
    BY <1>1, <2>2, <2>3, ServableMeans
  <2> QED
    BY <1>1, <2>1, <2>4, VarlenReturnKeeps
<1>5. CASE VarlenReturn("launch failed") /\ UNCHANGED launches
  <2>1. "launch failed" # "ok" /\ "launch failed" # "kShapeMismatch"
    OBVIOUS
  <2> QED
    BY <1>1, <1>5, <2>1, VarlenReturnKeeps
<1>6. CASE launches' = Append(launches, SequenceParams) /\ UNCHANGED <<vstep, outcome>>
  <2>1. SequenceParams = ParamsOf(call, cur)
    BY DEF SequenceParams, ParamsOf, cur_sq, cur_skv
  <2> DEFINE S == {ParamsOf(call, n) : n \in Nat}
  <2>2. ParamsOf(call, cur) \in S /\ launches \in Seq(S)
    BY <1>2 DEF VarlenInv
  <2>3. launches' = Append(launches, ParamsOf(call, cur))
    BY <1>6, <2>1
  <2> DEFINE x == ParamsOf(call, cur)
  <2> HIDE DEF S, x
  <2>4. x \in S /\ launches' = Append(launches, x)
    BY <2>2, <2>3 DEF x
  <2>5. /\ launches' \in Seq(S) /\ DOMAIN launches' = 1 .. cur
        /\ \A n \in DOMAIN launches : launches'[n] = launches[n]
        /\ launches'[cur] = x /\ DOMAIN launches = 1 .. cur - 1
    BY <1>1, <1>2, <2>2, <2>4
  <2>6. \A n \in DOMAIN launches' : launches'[n] = ParamsOf(call, n) /\ n <= call.num_seqs
    <3> SUFFICES ASSUME NEW n \in DOMAIN launches'
                 PROVE  launches'[n] = ParamsOf(call, n) /\ n <= call.num_seqs
      OBVIOUS
    <3>1. CASE n = cur
      BY <1>1, <2>5, <3>1 DEF x
    <3>2. CASE n # cur
      <4>1. n \in DOMAIN launches
        BY <1>2, <2>5, <3>2
      <4> QED
        BY <2>5, <4>1 DEF VarlenInv
    <3> QED
      BY <3>1, <3>2
  <2>7. vstep' = "loop" /\ outcome' = None /\ call' = call
    BY <1>1, <1>6
  <2>8. launches' \in Seq({ParamsOf(call, n) : n \in Nat})
    BY <2>5 DEF S
  <2> QED
    BY <1>1, <2>6, <2>7, <2>8 DEF VarlenInv
<1> QED
  BY <1>4, <1>5, <1>6 DEF VarlenSequence

\* Every step keeps the invariant of the varlen call.
LEMMA NextVarlenInv ==
  ASSUME VarlenInv, cuda \in BOOLEAN, [VarlenNext]_varlenVars
  PROVE  VarlenInv'
<1>1. CASE (\E q \in Requests : vstep = "idle" /\ Call(q) /\ UNCHANGED varlen)
           \/ ((Proceed \/ DeviceChanges \/ Refresh) /\ UNCHANGED varlen)
  BY <1>1, VarlenFrame
<1>2. CASE UNCHANGED varlenVars
  <2>1. UNCHANGED varlen
    BY <1>2 DEF varlenVars
  <2> QED
    BY <2>1, VarlenFrame
<1>3. ASSUME NEW c \in VarlenCalls, CallVarlen(c) PROVE VarlenInv'
  <2>1. /\ vstep' = "check" /\ call' = c /\ launches' = <<>> /\ outcome' = None
    BY <1>3 DEF CallVarlen, VarlenInv
  <2>2. <<>> \in Seq({ParamsOf(c, n) : n \in Nat}) /\ DOMAIN <<>> = {}
    OBVIOUS
  <2> QED
    BY <1>3, <2>1, <2>2 DEF VarlenInv
<1>4. CASE VarlenRejects
  <2>1. /\ vstep = "check" /\ VarlenStatus(call) # "ok" /\ VarlenReturn(VarlenStatus(call))
        /\ UNCHANGED <<vars, call, launches>>
    BY <1>4 DEF VarlenRejects
  <2>2. VarlenStatus(call) = "kShapeMismatch" => ~Servable(call)
    BY <2>1, ServableMeans DEF VarlenInv
  <2> QED
    BY <2>1, <2>2, VarlenReturnKeeps
<1>5. CASE VarlenAllocates
  <2>1. vstep = "check" /\ UNCHANGED <<vars, call, launches>>
    BY <1>5 DEF VarlenAllocates
  <2>2. CASE VarlenReturn("kWorkspaceExceeded")
    <3>1. "kWorkspaceExceeded" # "ok" /\ "kWorkspaceExceeded" # "kShapeMismatch"
      OBVIOUS
    <3> QED
      BY <2>1, <2>2, <3>1, VarlenReturnKeeps
  <2>3. CASE vstep' = "loop" /\ UNCHANGED outcome
    <3>1. outcome' = None /\ call' = call /\ launches' = launches /\ call \in VarlenCalls
      BY <2>1, <2>3 DEF VarlenInv
    <3> QED
      BY <2>3, <3>1 DEF VarlenInv
  <2> QED
    BY <1>5, <2>2, <2>3 DEF VarlenAllocates
<1>6. CASE VarlenSequence
  BY <1>6, SequenceKeeps
<1>7. CASE VarlenDone
  <2>1. /\ vstep = "loop" /\ VarlenReturn("ok") /\ UNCHANGED <<vars, call, launches>>
        /\ cur > call.num_seqs
    BY <1>7 DEF VarlenDone
  <2>2. call.num_seqs \in Int /\ Len(launches) \in Nat
    BY <2>1, VarlenAssumption DEF VarlenInv, VarlenCallType
  <2>3. Len(launches) >= call.num_seqs
    BY <2>1, <2>2 DEF cur
  <2>4. "ok" # "kShapeMismatch"
    OBVIOUS
  <2> QED
    BY <2>1, <2>3, <2>4, VarlenReturnKeeps
<1>8. CASE TakeOutcome
  <2>1. vstep' = "idle" /\ call' = None /\ launches' = <<>> /\ outcome' = None
    BY <1>8 DEF TakeOutcome
  <2>2. <<>> \in Seq({ParamsOf(None, n) : n \in Nat}) /\ DOMAIN <<>> = {}
    OBVIOUS
  <2> QED
    BY <2>1, <2>2 DEF VarlenInv
<1> QED
  BY <1>1, <1>2, <1>3, <1>4, <1>5, <1>6, <1>7, <1>8 DEF VarlenNext

\* The invariant of the varlen call.
LEMMA SpecVarlenInv == VarlenSpec => []VarlenInv
<1>1. VarlenInit => VarlenInv
  <2> SUFFICES ASSUME VarlenInit PROVE VarlenInv OBVIOUS
  <2>1. vstep = "idle" /\ call = None /\ launches = <<>> /\ outcome = None
    BY DEF VarlenInit
  <2>2. <<>> \in Seq({ParamsOf(None, n) : n \in Nat}) /\ DOMAIN <<>> = {}
    OBVIOUS
  <2> QED
    BY <2>1, <2>2 DEF VarlenInv
<1>2. VarlenInv /\ CallInv /\ [VarlenNext]_varlenVars => VarlenInv'
  BY NextVarlenInv DEF CallInv, DeviceInv
<1> QED
  BY <1>1, <1>2, SpecCallInv, PTL DEF VarlenSpec

\* Packed sequences are computed exactly.
THEOREM VarlenExactHolds == VarlenSpec => []VarlenExact
  BY SpecVarlenInv, VarlenInvExact, PTL

\* Offsets that passed ValidateVarlenHost are served.
THEOREM ValidatedServedHolds == VarlenSpec => []ValidatedServed
  BY SpecVarlenInv, VarlenInvServed, PTL

-----------------------------------------------------------------------------
\* The workspace.  Arithmetic modulo m is plain arithmetic on the results that fit.
LEMMA ModSmall ==
  ASSUME NEW m \in Nat \ {0}, NEW a \in 0 .. m - 1
  PROVE a % m = a
  OBVIOUS

\* A slice that passes the range check does not wrap around size_t.
LEMMA FitsNoWrap ==
  ASSUME TypeOK, NEW offset \in Sizes, NEW n \in Sizes, Fits(offset, n)
  PROVE Add(offset, n) = offset + n /\ offset + n <= bytes
  <1>1. offset \in Nat /\ n \in Nat /\ bytes \in 0 .. SizeMod - 1 /\ SizeMod \in Nat \ {0}
    BY SizeAssumption DEF TypeOK
  <1>2. offset <= bytes /\ bytes - offset \in 0 .. SizeMod - 1
    BY <1>1 DEF Fits
  <1>3. Sub(bytes, offset) = bytes - offset
    BY <1>1, <1>2, ModSmall DEF Sub
  <1>4. offset + n <= bytes /\ offset + n \in 0 .. SizeMod - 1
    BY <1>1, <1>2, <1>3 DEF Fits
  <1> QED BY <1>1, <1>4, ModSmall DEF Add

\* The inductive invariant: what holds of one slice at a time comes with the types.
WorkspaceInv == TypeOK /\ SlicesDisjoint /\ PeakCovers

\* The empty workspace satisfies the invariant.
LEMMA InitWorkspaceInv == WorkspaceInit => WorkspaceInv
  BY SizeAssumption DEF WorkspaceInit, WorkspaceInv, TypeOK, SlicesDisjoint, PeakCovers

\* A new workspace has no slices.
LEMMA CreateKeeps ==
  ASSUME WorkspaceInv, NEW b \in Sizes, Create(b)
  PROVE WorkspaceInv'
  BY SizeAssumption DEF WorkspaceInv, TypeOK, SlicesDisjoint, PeakCovers, Create

\* Slice either returns a slice it knows or appends one that passed all the checks.
LEMMA SliceKeeps ==
  ASSUME WorkspaceInv, NEW offset \in Sizes, NEW n \in Sizes, NEW align \in Sizes,
         Slice(offset, n, align)
  PROVE WorkspaceInv'
  <1> DEFINE end == offset + n
             new == [first |-> offset, second |-> end]
  <1>1. TypeOK /\ SlicesDisjoint /\ PeakCovers BY DEF WorkspaceInv
  <1>2. Add(offset, n) = end /\ end <= bytes
    BY <1>1, FitsNoWrap DEF Slice
  <1>3. /\ offset \in 0 .. SizeMod - 1 /\ n \in 1 .. SizeMod - 1 /\ bytes \in 0 .. SizeMod - 1
        /\ peak_bytes \in 0 .. SizeMod - 1 /\ SizeMod \in Nat \ {0} /\ slices \in Seq(SliceRecords)
    BY <1>1, SizeAssumption DEF TypeOK, Slice
  <1>4. new \in SliceRecords /\ offset < end
    BY <1>2, <1>3 DEF SliceRecords
  <1>5. bytes' = bytes /\ peak_bytes' = IF end > peak_bytes THEN end ELSE peak_bytes
    BY <1>2 DEF Slice
  <1>6. CASE Identical(offset, end)
    <2>1. slices' = slices
      BY <1>2, <1>6 DEF Slice
    <2>2. PICK i \in DOMAIN slices : slices[i].second = end
      BY <1>6 DEF Identical
    <2>3. peak_bytes' = peak_bytes
      BY <1>1, <1>3, <1>5, <2>2 DEF PeakCovers
    <2> QED BY <1>1, <1>5, <2>1, <2>3 DEF WorkspaceInv, TypeOK, SlicesDisjoint, PeakCovers
  <1>7. CASE ~Identical(offset, end)
    <2>1. slices' = Append(slices, new) /\ ~Overlaps(offset, end)
      BY <1>2, <1>7 DEF Slice
    <2>2. /\ slices' \in Seq(SliceRecords)
          /\ DOMAIN slices' = (DOMAIN slices) \union {Len(slices) + 1}
          /\ slices'[Len(slices) + 1] = new
          /\ \A i \in DOMAIN slices : slices'[i] = slices[i]
      BY <1>3, <1>4, <2>1
    <2>3. \A i \in DOMAIN slices : slices[i] \in SliceRecords
      BY <1>3
    <2>4. \A i \in DOMAIN slices :
            new.second <= slices[i].first \/ slices[i].second <= new.first
      BY <1>3, <2>1, <2>3 DEF Overlaps, SliceRecords
    <2>5. SlicesDisjoint'
      <3>1. ASSUME NEW i \in DOMAIN slices'
            PROVE 0 <= slices'[i].first /\ slices'[i].first < slices'[i].second
                  /\ slices'[i].second <= bytes'
        BY <1>1, <1>2, <1>3, <1>4, <1>5, <2>2 DEF SlicesDisjoint
      <3>2. ASSUME NEW i \in DOMAIN slices', NEW j \in DOMAIN slices', i # j
            PROVE slices'[i].second <= slices'[j].first \/ slices'[j].second <= slices'[i].first
        BY <1>1, <2>2, <2>4, <3>2 DEF SlicesDisjoint
      <3> QED BY <3>1, <3>2 DEF SlicesDisjoint
    <2>6. PeakCovers'
      BY <1>1, <1>2, <1>3, <1>5, <2>2, <2>3 DEF PeakCovers, SliceRecords
    <2> QED BY <1>2, <1>3, <1>5, <2>2, <2>5, <2>6 DEF WorkspaceInv, TypeOK
  <1> QED BY <1>6, <1>7

\* Reset forgets the slices and keeps the high-water mark.
LEMMA ResetKeeps ==
  ASSUME WorkspaceInv, Reset
  PROVE WorkspaceInv'
  BY DEF WorkspaceInv, TypeOK, SlicesDisjoint, PeakCovers, Reset

\* Every step keeps the invariant.
LEMMA NextWorkspaceInv == WorkspaceInv /\ [WorkspaceNext]_workspaceVars => WorkspaceInv'
  <1> SUFFICES ASSUME WorkspaceInv, [WorkspaceNext]_workspaceVars PROVE WorkspaceInv' OBVIOUS
  <1>1. CASE \E b \in Sizes : Create(b) BY <1>1, CreateKeeps
  <1>2. CASE \E offset, n, align \in Sizes : Slice(offset, n, align) BY <1>2, SliceKeeps
  <1>3. CASE Reset BY <1>3, ResetKeeps
  <1>4. CASE UNCHANGED workspaceVars
    BY <1>4 DEF workspaceVars, WorkspaceInv, TypeOK, SlicesDisjoint, PeakCovers
  <1> QED BY <1>1, <1>2, <1>3, <1>4 DEF WorkspaceNext

\* The slices of a workspace never overlap and never leave its buffer, for every width
\* of size_t and whatever offsets and sizes are asked for.
THEOREM SlicesDisjointHolds == WorkspaceSpec => []SlicesDisjoint
  <1>1. WorkspaceInv => SlicesDisjoint BY DEF WorkspaceInv
  <1> QED BY InitWorkspaceInv, NextWorkspaceInv, <1>1, PTL DEF WorkspaceSpec

\* The high-water mark covers every slice in use and stays inside the buffer.
THEOREM PeakCoversHolds == WorkspaceSpec => []PeakCovers
  <1>1. WorkspaceInv => PeakCovers BY DEF WorkspaceInv
  <1> QED BY InitWorkspaceInv, NextWorkspaceInv, <1>1, PTL DEF WorkspaceSpec
=============================================================================
