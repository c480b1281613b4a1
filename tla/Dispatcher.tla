------------------------------ MODULE Dispatcher ------------------------------
(***************************************************************************)
(* sca::attention(): shape inference, validation, backend selection and    *)
(* the host half of the backend adapters, up to the kernel launch          *)
(* (src/runtime/dispatcher.cpp, src/api/api_validate.cpp,                  *)
(* src/backends/*/..._backend.cpp).                                        *)
(*                                                                         *)
(* The same question is answered up to five times on the way (InferShape,  *)
(* Validate, Supports in Select, Supports in Forward, the adapter's own    *)
(* checks) by code written apart, and another thread may refresh the       *)
(* cached device capability in between, or a probe of the device begin to  *)
(* fail.  A status is its AttnStatusCode; tensors are their dimensions,    *)
(* dtype, device and contiguity.                                           *)
(***************************************************************************)
EXTENDS Integers, Sequences, FiniteSetsExt

CONSTANTS
  Requests,     \* calls: records [cfg, q, k, v]
  SmemLimits,   \* values SmemLimitPerBlock may have on a device
  FreeMems,     \* values a probe may report for free_mem_bytes (0: cudaMemGetInfo failed)
  MaxRefresh    \* bound: changes of the device, and calls of DeviceCapability::Refresh

\* What a caller can pass: one of the backend kinds, and four dimensions, which
\* the dispatcher reads after it has seen that there are four.
Tensors ==
  [ndims : Nat, dim : [1 .. 4 -> Nat], dtype : STRING,
   cuda : BOOLEAN, contiguous : BOOLEAN]
BackendKinds == {"auto", "naive", "tiled", "flash", "decode", "paged"}
Configs ==
  [backend : BackendKinds, layout : STRING, causal : BOOLEAN, return_lse : BOOLEAN,
   softcap : BOOLEAN, sliding_window : Int, workspace_limit : Nat, allow_fallback : BOOLEAN,
   numbers_ok : BOOLEAN]

ASSUME DispatcherAssumption ==
  /\ Requests \subseteq [cfg : Configs, q : Tensors, k : Tensors, v : Tensors]
  /\ SmemLimits \subseteq Nat /\ FreeMems \subseteq Nat /\ MaxRefresh \in Nat

VARIABLES
  cuda,         \* does a probe of the device succeed (CudaAvailable)?
  device_smem,  \* the device's shared memory per block
  smem_limit,   \* SmemLimitPerBlock of the cached capability
  free_mem,     \* free_mem_bytes of the cached capability
  refreshes,
  steady,       \* history: since the call began, probes succeed and the cache knows it
  req,          \* the call under way, None when idle
  step,         \* where attention() is
  decision,     \* backend Select chose
  launched,     \* what the adapter handed to its kernel launch
  result        \* what the call returned

capability == <<smem_limit, free_mem>>
device == <<cuda, device_smem, capability, refreshes, steady>>
vars == <<device, req, step, decision, launched, result>>

None == [none |-> TRUE]
kSupportedHeadDims == {32, 64, 96, 128, 160, 192, 256}
kFlashHeadDims == kSupportedHeadDims
DtypeSize(dtype) == IF dtype = "fp32" THEN 4 ELSE 2

\* The code of the first check that fails, "ok" if none does.
Check(holds, code) == [holds |-> holds, code |-> code]
FirstError(checks) ==
  LET failed == {i \in DOMAIN checks : ~checks[i].holds}
  IN IF failed = {} THEN "ok" ELSE checks[Min(failed)].code

-----------------------------------------------------------------------------
TensorChecks(t) ==
  << Check(t.ndims = 4, "kShapeMismatch"),
     Check(t.contiguous, "kLayoutMismatch"),
     Check(t.dtype \in {"fp32", "fp16", "bf16"}, "kUnsupportedDtype"),
     Check(t.cuda, "kUnsupportedFeature") >>

\* Positions of the head and the sequence axis.
HeadAxis(layout) == IF layout = "bhsd" THEN 2 ELSE 3
SeqAxis(layout) == IF layout = "bhsd" THEN 3 ELSE 2

ShapeOf(r) ==
  LET h == HeadAxis(r.cfg.layout)
      s == SeqAxis(r.cfg.layout)
  IN [batch |-> r.q.dim[1], num_heads |-> r.q.dim[h], seq_q |-> r.q.dim[s],
      head_dim |-> r.q.dim[4], seq_kv |-> r.k.dim[s], num_kv_heads |-> r.k.dim[h]]

InferShape(r) ==
  LET sh == ShapeOf(r) IN
  FirstError(
    << Check(r.cfg.layout \in {"bhsd", "bshd"}, "kUnsupportedLayout") >>
    \o TensorChecks(r.q) \o TensorChecks(r.k) \o TensorChecks(r.v) \o
    << Check(r.q.dtype = r.k.dtype /\ r.q.dtype = r.v.dtype, "kUnsupportedDtype"),
       Check(/\ r.v.dim[HeadAxis(r.cfg.layout)] = sh.num_kv_heads
             /\ r.v.dim[SeqAxis(r.cfg.layout)] = sh.seq_kv
             /\ r.v.dim[4] = sh.head_dim, "kShapeMismatch"),
       Check(r.k.dim[1] = sh.batch /\ r.v.dim[1] = sh.batch, "kShapeMismatch") >>)

IsReferenceOnlyBackend(kind) == kind \in {"naive", "tiled", "decode", "paged"}

\* numbers_ok: softcap, scale and num_splits are not negative and cu_seqlens_q does not
\* come without cu_seqlens_kv.
Validate(cfg, sh) ==
  FirstError(
    << Check(cfg.layout \in {"bhsd", "bshd"}, "kUnsupportedLayout"),
       Check(/\ sh.batch >= 1 /\ sh.seq_q >= 1 /\ sh.seq_kv >= 1
             /\ sh.num_heads >= 1 /\ sh.num_kv_heads >= 1, "kShapeMismatch"),
       Check(sh.head_dim \in kSupportedHeadDims, "kUnsupportedHeadDim"),
       Check(sh.num_kv_heads >= 1 /\ sh.num_heads % sh.num_kv_heads = 0, "kShapeMismatch"),
       Check(~cfg.causal \/ sh.seq_kv >= sh.seq_q, "kShapeMismatch"),
       Check(sh.num_kv_heads <= sh.num_heads, "kShapeMismatch"),
       Check(cfg.sliding_window <= 0, "kUnsupportedFeature"),
       Check(~cfg.softcap \/ ~IsReferenceOnlyBackend(cfg.backend), "kUnsupportedFeature"),
       Check(cfg.numbers_ok, "kShapeMismatch") >>)

-----------------------------------------------------------------------------
\* What the backends say of themselves (Supports) and check in Forward.
ScoreBytes(sh) == sh.batch * sh.num_heads * sh.seq_q * sh.seq_kv * 4

\* A limit of 0 is no limit.
EffectiveWorkspaceLimit(cfg) ==
  IF cfg.workspace_limit # 0 THEN cfg.workspace_limit ELSE free_mem \div 2
ScoresFit(cfg, sh) ==
  EffectiveWorkspaceLimit(cfg) # 0 => ScoreBytes(sh) <= EffectiveWorkspaceLimit(cfg)

MaxTiledHeadDim == 128
TileCandidates(dtype) ==
  IF dtype = "fp32" THEN << <<64, 32>>, <<64, 64>>, <<128, 32>> >>
                    ELSE << <<64, 64>>, <<64, 32>>, <<128, 32>> >>
TiledSmemBytes(head_dim, elem_bytes, tile) ==
  (tile[1] + 2 * tile[2]) * (head_dim + 8) * elem_bytes
    + tile[1] * (tile[2] + 4) * 4 + tile[1] * 3 * 4

\* Mutation of SelectTile: a limit of 0 is taken for no limit.
SelectTileUnlimited(dtype, head_dim) ==
  LET fits == {i \in 1 .. 3 : smem_limit # 0 =>
                 TiledSmemBytes(head_dim, DtypeSize(dtype), TileCandidates(dtype)[i]) <= smem_limit}
  IN IF fits = {} THEN <<>> ELSE TileCandidates(dtype)[Min(fits)]

\* The first candidate that fits, <<>> if none does.
SelectTile(dtype, head_dim) ==
  LET fits == {i \in 1 .. 3 :
                 TiledSmemBytes(head_dim, DtypeSize(dtype), TileCandidates(dtype)[i]) <= smem_limit}
  IN IF fits = {} THEN <<>> ELSE TileCandidates(dtype)[Min(fits)]

FlashTile(head_dim) ==
  IF head_dim <= 128 THEN <<64, 64>> ELSE IF head_dim <= 192 THEN <<64, 32>> ELSE <<32, 32>>
FlashTileSmemBytes(head_dim, elem_bytes) ==
  LET tile == FlashTile(head_dim)
  IN (tile[1] + 2 * tile[2] * 2) * (head_dim + 8) * elem_bytes

NaiveSupports(cfg, sh) ==
  /\ cuda
  /\ sh.head_dim \in kSupportedHeadDims
  /\ cfg.sliding_window <= 0
  /\ ScoresFit(cfg, sh)

\* The tile is measured for half precision, whatever the dtype of the call.
TiledSupports(cfg, sh) ==
  /\ cuda
  /\ sh.head_dim \in kSupportedHeadDims
  /\ sh.head_dim <= MaxTiledHeadDim
  /\ cfg.sliding_window <= 0
  /\ SelectTile("fp16", sh.head_dim) # <<>>

FlashSupports(cfg, sh) ==
  /\ cuda
  /\ sh.head_dim \in kFlashHeadDims
  /\ cfg.sliding_window <= 0
  /\ FlashTileSmemBytes(sh.head_dim, 2) <= smem_limit

DecodeSupports(cfg, sh) ==
  /\ cuda
  /\ sh.seq_q = 1
  /\ sh.head_dim \in kSupportedHeadDims
  /\ sh.head_dim % 32 = 0
  /\ cfg.sliding_window <= 0

PagedSupports(cfg, sh) == cuda /\ sh.seq_q = 1 /\ sh.head_dim % 32 = 0

\* The backend GetBackend returns for a kind.
Supports(kind, cfg, sh) ==
  CASE kind = "naive" -> NaiveSupports(cfg, sh)
    [] kind = "tiled" -> TiledSupports(cfg, sh)
    [] kind = "flash" -> FlashSupports(cfg, sh)
    [] kind = "decode" -> DecodeSupports(cfg, sh)
    [] kind = "paged" -> PagedSupports(cfg, sh)

\* What Forward of each adapter checks, in order.  All but the paged one, which refuses
\* every call, repeat InferShape and Validate first.
RepeatedChecks(r, sh) ==
  << Check(InferShape(r) = "ok", InferShape(r)),
     Check(Validate(r.cfg, sh) = "ok", Validate(r.cfg, sh)) >>

NaiveChecks(r, sh) ==
  RepeatedChecks(r, sh) \o
  << Check(ScoresFit(r.cfg, sh), "kWorkspaceExceeded"),
     Check(~r.cfg.causal \/ sh.seq_kv >= sh.seq_q, "kShapeMismatch") >>

TiledChecks(r, sh) ==
  RepeatedChecks(r, sh) \o
  << Check(sh.head_dim <= MaxTiledHeadDim, "kDeviceCapability"),
     Check(SelectTile(r.q.dtype, sh.head_dim) # <<>>, "kDeviceCapability") >>

ValidateFlashRequest(dtype, cfg, head_dim) ==
  << Check(cuda, "kUnsupportedFeature"),
     Check(dtype \in {"fp16", "bf16"}, "kUnsupportedDtype"),
     Check(head_dim \in kFlashHeadDims, "kUnsupportedHeadDim"),
     Check(FlashTileSmemBytes(head_dim, DtypeSize(dtype)) <= smem_limit, "kDeviceCapability"),
     Check(cfg.sliding_window <= 0, "kUnsupportedFeature") >>

FlashChecks(r, sh) ==
  RepeatedChecks(r, sh) \o ValidateFlashRequest(r.q.dtype, r.cfg, sh.head_dim)

DecodeChecks(r, sh) ==
  RepeatedChecks(r, sh) \o
  << Check(sh.seq_q = 1, "kUnsupportedFeature"),
     Check(sh.head_dim % 32 = 0, "kUnsupportedHeadDim") >>

PagedChecks(r, sh) == << Check(FALSE, "kUnsupportedFeature") >>

AdapterStatus(kind, r, sh) ==
  FirstError(CASE kind = "naive" -> NaiveChecks(r, sh)
               [] kind = "tiled" -> TiledChecks(r, sh)
               [] kind = "flash" -> FlashChecks(r, sh)
               [] kind = "decode" -> DecodeChecks(r, sh)
               [] kind = "paged" -> PagedChecks(r, sh))

\* Dynamic shared memory of the kernel each adapter launches.
TiledLaunchSmem(r, sh) ==
  TiledSmemBytes(sh.head_dim, DtypeSize(r.q.dtype), SelectTile(r.q.dtype, sh.head_dim))
FlashLaunchSmem(r, sh) == FlashTileSmemBytes(sh.head_dim, DtypeSize(r.q.dtype))

-----------------------------------------------------------------------------
decode_max_seq_q == 1
decode_min_seq_kv == 256
tiled_max_seq_kv == 128

\* The threshold rules of Select.
Preferred(cfg, sh) ==
  IF cfg.backend # "auto" THEN cfg.backend
  ELSE IF sh.seq_q <= decode_max_seq_q /\ sh.seq_kv >= decode_min_seq_kv THEN "decode"
  ELSE IF sh.seq_q * 8 <= sh.seq_kv /\ sh.seq_kv >= decode_min_seq_kv THEN "flash"
  ELSE IF sh.seq_kv <= tiled_max_seq_kv THEN "tiled" ELSE "flash"

FallbackChain(preferred) ==
  CASE preferred = "flash" -> <<"tiled", "naive">>
    [] preferred = "decode" -> <<"flash", "tiled", "naive">>
    [] preferred = "paged" -> <<"decode", "tiled", "naive">>
    [] preferred = "tiled" -> <<"naive">>
    [] OTHER -> <<>>

\* Mutation of Select: the fallback chain is tried whether or not the caller opted in.
SelectAlwaysFallsBack(cfg, sh) ==
  LET p == Preferred(cfg, sh)
      able == {i \in DOMAIN FallbackChain(p) : Supports(FallbackChain(p)[i], cfg, sh)}
  IN IF Validate(cfg, sh) # "ok" THEN "auto"
     ELSE IF Supports(p, cfg, sh) \/ able = {} THEN p ELSE FallbackChain(p)[Min(able)]

\* Mutation of Select: a shape too short for the decode kernel is still sent there.
SelectDecodeForSmallQ(cfg, sh) ==
  IF Validate(cfg, sh) # "ok" THEN "auto"
  ELSE IF cfg.backend = "auto" /\ sh.seq_q * 8 <= sh.seq_kv THEN "decode" ELSE Preferred(cfg, sh)

\* AttentionDispatcher::Select; "auto" stands for an invalid configuration.
Select(cfg, sh) ==
  LET p == Preferred(cfg, sh)
      able == {i \in DOMAIN FallbackChain(p) : Supports(FallbackChain(p)[i], cfg, sh)}
  IN IF Validate(cfg, sh) # "ok" THEN "auto"
     ELSE IF Supports(p, cfg, sh) \/ ~cfg.allow_fallback \/ able = {} THEN p
     ELSE FallbackChain(p)[Min(able)]

-----------------------------------------------------------------------------
\* Probe fills in a capability, or leaves it all zeros when the device does not answer.
Probed(mem) == IF cuda THEN <<device_smem, mem>> ELSE <<0, 0>>

\* The first ForDevice has put a probe's result into the cache.
Init ==
  /\ cuda \in BOOLEAN
  /\ device_smem \in SmemLimits
  /\ \E mem \in FreeMems : smem_limit = Probed(mem)[1] /\ free_mem = Probed(mem)[2]
  /\ refreshes = 0
  /\ steady = TRUE
  /\ req = None /\ step = "idle" /\ decision = "auto" /\ launched = None /\ result = None

Return(status, used, has_lse) ==
  /\ step' = "done"
  /\ result' = [status |-> status, used_backend |-> used, has_lse |-> has_lse]

Call(r) ==
  /\ step = "idle"
  /\ req' = r
  /\ step' = "infer"
  /\ steady' = (cuda /\ smem_limit = device_smem)
  /\ UNCHANGED <<cuda, device_smem, capability, refreshes, decision, launched, result>>

Infer ==
  /\ step = "infer"
  /\ IF InferShape(req) = "ok"
       THEN step' = "select" /\ UNCHANGED result
       ELSE Return(InferShape(req), "auto", FALSE)
  /\ UNCHANGED <<device, req, decision, launched>>

\* Forward reports every invalid configuration as kShapeMismatch.
Choose ==
  /\ step = "select"
  /\ decision' = Select(req.cfg, ShapeOf(req))
  /\ IF decision' = "auto"
       THEN Return("kShapeMismatch", "auto", FALSE)
       ELSE step' = "recheck" /\ UNCHANGED result
  /\ UNCHANGED <<device, req, launched>>

Recheck ==
  /\ step = "recheck"
  /\ IF Supports(decision, req.cfg, ShapeOf(req))
       THEN step' = "forward" /\ UNCHANGED result
       ELSE Return("kDeviceCapability", "auto", FALSE)
  /\ UNCHANGED <<device, req, decision, launched>>

\* The adapter: its checks, the scratch and output allocations, the launch.
ForwardRejects ==
  /\ step = "forward"
  /\ LET status == AdapterStatus(decision, req, ShapeOf(req))
     IN status # "ok" /\ Return(status, "auto", FALSE)
  /\ UNCHANGED <<device, req, decision, launched>>

ForwardNoMemory ==
  /\ step = "forward"
  /\ AdapterStatus(decision, req, ShapeOf(req)) = "ok"
  /\ Return("kWorkspaceExceeded", "auto", FALSE)
  /\ UNCHANGED <<device, req, decision, launched>>

Launch ==
  /\ step = "forward"
  /\ AdapterStatus(decision, req, ShapeOf(req)) = "ok"
  /\ LET sh == ShapeOf(req)
         smem == CASE decision = "tiled" -> TiledLaunchSmem(req, sh)
                   [] decision = "flash" -> FlashLaunchSmem(req, sh)
                   [] OTHER -> 0
     IN launched' = [kind |-> decision, shape |-> sh, dtype |-> req.q.dtype, smem |-> smem]
  /\ step' = "launched"
  /\ UNCHANGED <<device, req, decision, result>>

\* LaunchRaw and the decode adapter's missing LSE decide what the caller gets.
Finish(launch_ok) ==
  /\ step = "launched"
  /\ IF launch_ok
       THEN Return("ok", decision, req.cfg.return_lse /\ decision # "decode")
       ELSE Return("launch failed", "auto", FALSE)
  /\ UNCHANGED <<device, req, decision, launched>>

\* The caller takes the result.
TakeResult ==
  /\ step = "done"
  /\ step' = "idle"
  /\ req' = None /\ decision' = "auto" /\ launched' = None /\ result' = None
  /\ UNCHANGED device

\* The device stops answering probes, or answers again.
DeviceChanges ==
  /\ refreshes < MaxRefresh
  /\ refreshes' = refreshes + 1
  /\ cuda' = ~cuda
  /\ steady' = FALSE
  /\ UNCHANGED <<device_smem, capability, req, step, decision, launched, result>>

\* DeviceCapability::Refresh, called by some other thread: whatever Probe returns goes
\* into the cache, and Ok to the caller.
Refresh ==
  /\ refreshes < MaxRefresh
  /\ refreshes' = refreshes + 1
  /\ \E mem \in FreeMems : smem_limit' = Probed(mem)[1] /\ free_mem' = Probed(mem)[2]
  /\ UNCHANGED <<cuda, device_smem, steady, req, step, decision, launched, result>>

\* The steps of a call that is under way.
Proceed ==
  \/ Infer
  \/ Choose
  \/ Recheck
  \/ ForwardRejects
  \/ ForwardNoMemory
  \/ Launch
  \/ \E launch_ok \in BOOLEAN : Finish(launch_ok)
  \/ TakeResult

Next ==
  \/ \E r \in Requests : Call(r)
  \/ Proceed
  \/ DeviceChanges
  \/ Refresh

Spec == Init /\ [][Next]_vars

-----------------------------------------------------------------------------
\* The template instantiations each launch function has.
Instantiated(l) ==
  CASE l.kind = "naive" -> TRUE
    [] l.kind = "tiled" -> l.shape.head_dim \in {32, 64, 96, 128}
    [] l.kind = "flash" -> l.shape.head_dim \in kFlashHeadDims /\ l.dtype # "fp32"
    [] l.kind = "decode" -> l.shape.head_dim \in kSupportedHeadDims
    [] OTHER -> FALSE

\* Whatever the path through the dispatcher (explicit, automatic, fallback, with probes
\* that begin to fail and a capability that is refreshed, or replaced by zeros, between one
\* check and the next), a launch is instantiated, fits the shared memory the device has,
\* keeps the caller's workspace limit, and has whole query groups, a causal diagonal
\* that leaves no row empty, one query row for decode, no window, and a V that matches
\* K's and Q's batch, K's heads and tokens and Q's head_dim.  K's own head_dim is not
\* among them: no check on the way compares it with anything.
LaunchesFit ==
  launched # None =>
    /\ Instantiated(launched)
    /\ launched.smem <= device_smem
    /\ launched.kind = "naive" /\ req.cfg.workspace_limit # 0 =>
         ScoreBytes(launched.shape) <= req.cfg.workspace_limit
    /\ launched.shape.num_heads % launched.shape.num_kv_heads = 0
    /\ req.cfg.causal => launched.shape.seq_kv >= launched.shape.seq_q
    /\ launched.kind = "decode" => launched.shape.seq_q = 1
    /\ req.cfg.sliding_window <= 0
    /\ \A axis \in 1 .. 3 : req.v.dim[axis] = req.k.dim[axis]
    /\ req.v.dim[4] = req.q.dim[4] /\ req.v.dim[1] = req.q.dim[1]

\* attention_config.hpp, allow_fallback: "silent degradation is forbidden".  A call that
\* did not opt in is computed by the backend it named, or by the one the threshold
\* table names for it; one that did is degraded along the chain only.
NoSilentDegradation ==
  result # None /\ result.status = "ok" =>
    LET p == Preferred(req.cfg, ShapeOf(req)) IN
    \/ result.used_backend = p
    \/ /\ req.cfg.allow_fallback
       /\ \E i \in DOMAIN FallbackChain(p) : FallbackChain(p)[i] = result.used_backend

Refused == {"kDeviceCapability", "kUnsupportedFeature", "kUnsupportedDtype", "kUnsupportedHeadDim"}
ValidHalf ==
  /\ req.cfg.backend = "auto" /\ req.q.dtype # "fp32"
  /\ InferShape(req) = "ok" /\ Validate(req.cfg, ShapeOf(req)) = "ok"
  /\ device_smem >= 101376

\* The threshold table never picks a backend that has to refuse: with automatic
\* selection, a valid half-precision call with head_dim up to 128 is computed by the
\* first choice on the device the tiles were sized for (kMaxDynamicSmemBytes), whatever
\* a refresh on the way reports as free, while the device answers every probe.
AutoServes ==
  result # None /\ steady /\ ValidHalf /\ ShapeOf(req).head_dim <= MaxTiledHeadDim =>
    result.status \notin Refused
=============================================================================
