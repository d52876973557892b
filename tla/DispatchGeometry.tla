-------------------------- MODULE DispatchGeometry --------------------------
(***************************************************************************)
(* How many workgroups the plans of pvlc-runtime-core dispatch, and which  *)
(* elements the shaders of pvlc-wgsl then write.  The two are written      *)
(* apart: a plan counts workgroups and fills a uniform, a shader computes  *)
(* an index from its own coordinates and from that uniform, and nothing in *)
(* the code compares the two.                                              *)
(*                                                                         *)
(* A job is a call of a planner.  It is refused, or it yields dispatches;  *)
(* those are validated against the limits of the adapter and run one after *)
(* another.  What a thread computes is left to GpuKernels: here it only    *)
(* writes.  A vec4 element of a half-precision output is one element.      *)
(* GroupLimit stands for the 65535 workgroups that an axis may have; tile  *)
(* and workgroup sizes are those of the code.                              *)
(***************************************************************************)
EXTENDS Integers, Sequences, FiniteSets

CONSTANTS
    GroupLimit,             \* MAX_WEBGPU_DISPATCH_DIMENSION
    QueryHeads, KeyValueHeads, HiddenSize, IntermediateSize,
                            \* PINNED_DECODER_*: 16, 2, 1024, 3072
    PlaneAlignment,         \* min_storage_buffer_offset_alignment, in elements
    GeometryJobs            \* the calls: [call, dims] and a kernel, a storage

GeometryIsCounted ==
    {GroupLimit, QueryHeads, KeyValueHeads, HiddenSize, IntermediateSize,
     PlaneAlignment}
        \subseteq Nat \ {0}

(* What the planners are called with: so many dimensions, and a line of    *)
(* elements that has a u32 for its length, fewer than two axes have        *)
(* threads.  The plan of a half-precision vision layer does not ask that a *)
(* head be a number of vec4s: the rope that its callers plan beside it does.*)
Sizes(n) == [1 .. n -> Nat]
OneSize == {"silu_f32", "gelu_tanh_f32", "gelu_erf_f32", "add_f32"}
TwoSizes == {"gemv_f32", "layer_norm_f32", "rms_norm_f32",
             "projector_merge_2x2_f32"}
ThreeSizes == {"gemm_f32", "rope_neox_f32", "vision_attention_f32",
               "vision_patch_projection_f32"}
IsKernelCall(j) ==
    \/ /\ j.kernel \in OneSize /\ j.dims \in Sizes(1)
       /\ j.dims[1] <= GroupLimit * GroupLimit * 64
    \/ /\ j.kernel \in TwoSizes /\ j.dims \in Sizes(2)
       /\ j.kernel = "projector_merge_2x2_f32" =>
              j.dims[1] * j.dims[2] * 4 <= GroupLimit * GroupLimit * 64
    \/ j.kernel \in ThreeSizes /\ j.dims \in Sizes(3)
IsCall(j) ==
    \/ j.call = "kernel" /\ IsKernelCall(j)
    \/ /\ j.call \in {"tiledProduct", "cache", "layer", "prefill", "lmHead"}
       /\ j.dims \in Sizes(2)
    \/ /\ j.call \in {"projection", "fused", "rope", "projector"}
       /\ j.storage \in {"f32", "f16"} /\ j.dims \in Sizes(3)
    \/ /\ j.call = "visionLayer"
       /\ j.storage \in {"f32", "f16Weights", "f16"} /\ j.dims \in Sizes(4)
       /\ j.storage = "f16" => j.dims[3] % 4 = 0
    \/ /\ j.call = "visionStack" /\ j.layers \in Nat /\ j.dims \in Sizes(4)
JobsAreCalls == \A j \in GeometryJobs : IsCall(j)

VARIABLES
    geometryJob,
    stage,          \* "called", "refused", "planned" or "running"
    dispatchesLeft,
    outcome         \* what the last dispatch wrote, against its plan

geometryVars == <<geometryJob, stage, dispatchesLeft, outcome>>

HeadWidth == 128                    \* MAX_DECODER_HEAD_DIM, HEAD_DIM
QueryWidth == QueryHeads * HeadWidth
KeyValueWidth == KeyValueHeads * HeadWidth
RotatedWidth == QueryWidth + KeyValueWidth      \* TOTAL_WIDTH
MaxVisionHeadDim == 72
SplitChunk == 32                    \* PINNED_DECODER_GQA_SPLIT_CHUNK_SIZE
PartialStride == 192
LinearTile == 32                    \* LINEAR_PROJECTION_TILE
Tile == 64                          \* threads of a one-dimensional workgroup

CeilDiv(value, divisor) ==
    value \div divisor + (IF value % divisor = 0 THEN 0 ELSE 1)
Below(n) == 0 .. n - 1
-----------------------------------------------------------------------------
(* The shaders: the elements that a thread writes, from the words u of its *)
(* uniform, its workgroup w, its place l in it and its global position g,  *)
(* each counted by axis.                                                   *)

Strided(rows, stride, width) ==
    {row * stride + i : row \in Below(rows), i \in Below(width)}
Row(row, width) == {row * width + column : column \in Below(width)}
If(guard, elements) == IF guard THEN elements ELSE {}

gemm_f32(u, g) ==
    If(g[1] < u[3] /\ g[2] < u[1], {g[2] * u[3] + g[1]})

gemv_f32(u, g) == If(g[1] < u[1], {g[1]})

(* Thirty-two threads share a row; the first of them writes the sum. *)
TiledRow(u, w, l) ==
    LET row == w[1] * 8 + l[1] \div 32
    IN  If(l[1] % 32 = 0 /\ row < u[1], {row})
gemv_tiled_f32(u, w, l) == TiledRow(u, w, l)
gemv_tiled_f16_weights(u, w, l) == TiledRow(u, w, l)

layer_norm_f32(u, g) == If(g[1] < u[1], Row(g[1], u[2]))
rms_norm_f32(u, g) == If(g[1] < u[1], Row(g[1], u[2]))
rms_norm_f16_weights(u, g) == If(g[1] < u[1], Row(g[1], u[2]))
layer_norm_f16(u, g) == If(g[1] < u[1], Row(g[1], u[2] \div 4))

(* A dispatch of two dimensions covers a line of elements. *)
LinearIndex(g, length, stride) ==
    g[1] + g[2] * (IF stride # 0 THEN stride ELSE length)
OnLine(g, length, stride) ==
    If(LinearIndex(g, length, stride) < length,
       {LinearIndex(g, length, stride)})

silu_f32(u, g) == OnLine(g, u[1], u[2])
gelu_tanh_f32(u, g) == OnLine(g, u[1], u[2])
gelu_erf_f32(u, g) == OnLine(g, u[1], u[2])
add_f32(u, g) == OnLine(g, u[1], u[2])
add_f16(u, g) == OnLine(g, (u[1] + 3) \div 4, u[2])
gelu_tanh_f16(u, g) == OnLine(g, (u[1] + 3) \div 4, u[2])
gelu_erf_f16(u, g) == OnLine(g, (u[1] + 3) \div 4, u[2])
decoder_swiglu_f32(u, g) == If(g[1] < u[1], {g[1]})

projector_merge_2x2_f32(u, g) ==
    {index \in OnLine(g, u[3], u[4]) : index \div (u[2] * 4) < u[1]}
projector_merge_2x2_f16(u, g) ==
    {index \in OnLine(g, u[3] \div 4, u[4]) :
        index \div ((u[2] \div 4) * 4) < u[1]}

(* A thread turns a pair; what lies past rotary_dim is left alone. *)
rope_neox_f32(u, g) ==
    LET half == u[3] \div 2
        row == g[1] \div half
        first == row * u[2] + (g[1] % half)
    IN  If(row < u[1], {first, first + half})

vision_rope_2d_f32(u, g) ==
    LET pairs == u[3] \div 2
        first == (g[1] \div pairs) * u[3] + (g[1] % pairs)
    IN  If(g[1] < u[1] * u[2] * pairs, {first, first + pairs})
vision_rope_2d_f16(u, g) ==
    LET pairs == u[3] \div 2
        head == (g[1] \div pairs) % u[2]
        token == (g[1] \div pairs) \div u[2]
        first == (token * u[2] + head) * u[3] + (g[1] % pairs)
    IN  If(g[1] < u[1] * u[2] * pairs, {first, first + pairs})

(* A thread attends for one token and one head. *)
vision_attention_f32(u, w, l) ==
    LET token == w[1] * 128 + l[1]
    IN  If(token < u[1] /\ w[2] < u[2],
           {(token * u[2] + w[2]) * u[3] + i : i \in Below(u[3])})
vision_attention_f16(u, w, l) ==
    LET token == w[1] * 128 + l[1]
    IN  If(token < u[1] /\ w[2] < u[2],
           Row(token * u[2] + w[2], u[3] \div 4))

(* A thread computes four rows of four columns. *)
vision_patch_projection_f32(u, w, l) ==
    {row * u[3] + column :
        row \in {r \in {w[2] * 32 + l[2] * 4 + i : i \in 0 .. 3} : r < u[1]},
        column \in {c \in {w[1] * 32 + l[1] * 4 + i : i \in 0 .. 3} : c < u[3]}}
linear_projection_f16_weights(u, w, l) ==
    LET columnVec == w[1] * 8 + l[1]
    IN  If(columnVec < u[3] \div 4,
           {row * u[3] + columnVec * 4 + i : i \in 0 .. 3,
               row \in {r \in {w[2] * 32 + l[2] * 4 + k : k \in 0 .. 3} :
                            r < u[1]}})
linear_projection_f16(u, w, l) ==
    LET columnVec == w[1] * 8 + l[1]
    IN  If(columnVec < u[3] \div 4,
           {row * (u[3] \div 4) + columnVec :
               row \in {r \in {w[2] * 32 + l[2] * 4 + k : k \in 0 .. 3} :
                            r < u[1]}})

vision_qkv_fused_f32(u, g) ==
    If(g[2] < u[1] /\ g[1] < u[3] /\ g[3] < 3,
       {g[3] * u[4] + g[2] * u[3] + g[1]})
vision_qkv_fused_f16_weights(u, w, l) ==
    LET column == (w[1] * 8 + l[1]) * 4
    IN  If(column + 3 < u[3],
           {plane * u[4] + row * u[3] + column + i :
               plane \in 0 .. 2, i \in 0 .. 3,
               row \in {r \in {w[2] * 16 + l[2] * 2 + k : k \in 0 .. 1} :
                            r < u[1]}})

decoder_kv_append_f32(u, g) ==
    If(g[1] < u[2] * u[3] /\ u[1] < u[4], {u[1] * (u[2] * u[3]) + g[1]})
decoder_kv_append_range_f32(u, g) ==
    If(g[1] < u[1] * KeyValueWidth /\ u[1] <= u[2], {g[1]})
decoder_gqa_f32(u, g) == If(g[1] < u[2], Row(g[1], u[4]))
decoder_prefill_gqa_f32(u, g) == If(g[1] < u[1] * u[2], Row(g[1], u[4]))

(* A workgroup attends to a chunk: two values a thread, and the first      *)
(* thread adds the maximum and the sum.                                    *)
decoder_gqa_split_partial_f32(u, w, l) ==
    LET head == w[1] \div u[2]
        base == (head * u[2] + (w[1] % u[2])) * PartialStride
    IN  {base + l[1] * 2, base + l[1] * 2 + 1}
        \union If(l[1] = 0, {base + HeadWidth, base + HeadWidth + 1})
decoder_gqa_split_merge_f32(g) == If(g[1] < QueryWidth, {g[1]})

(* Query and key are outputs of their own: the key follows the query here. *)
decoder_mrope_f32(g) == If(g[1] < RotatedWidth, {g[1]})
decoder_prefill_mrope_f32(u, g) ==
    LET token == g[1] \div RotatedWidth
        within == g[1] % RotatedWidth
    IN  If(g[1] < u[1] * RotatedWidth,
           {IF within < QueryWidth THEN token * QueryWidth + within
            ELSE u[1] * QueryWidth + token * KeyValueWidth
                    + (within - QueryWidth)})
-----------------------------------------------------------------------------
(* A workgroup of every shader, and all that a dispatch of one writes.     *)

Dispatch(kernel, output, size, groups, words) ==
    [kernel |-> kernel, output |-> output, size |-> size, groups |-> groups,
     words |-> words]

Cooperative ==      \* shaders that tile an output
    {"vision_patch_projection_f32", "linear_projection_f16_weights",
     "linear_projection_f16", "vision_qkv_fused_f16_weights"}
WorkgroupSize(kernel) ==
    IF kernel \in Cooperative \union {"gemm_f32", "vision_qkv_fused_f32"}
    THEN <<8, 8, 1>>
    ELSE IF kernel \in {"gemv_tiled_f32", "gemv_tiled_f16_weights"}
    THEN <<256, 1, 1>>
    ELSE IF kernel \in {"vision_attention_f32", "vision_attention_f16"}
    THEN <<128, 1, 1>>
    ELSE <<Tile, 1, 1>>

Box(n) == {<<x, y, z>> : x \in Below(n[1]), y \in Below(n[2]), z \in Below(n[3])}

WrittenBy(d, w, l) ==
    LET u == d.words
        size == WorkgroupSize(d.kernel)
        g == [axis \in 1 .. 3 |-> w[axis] * size[axis] + l[axis]]
    IN  CASE d.kernel = "gemm_f32" -> gemm_f32(u, g)
          [] d.kernel = "gemv_f32" -> gemv_f32(u, g)
          [] d.kernel = "gemv_tiled_f32" -> gemv_tiled_f32(u, w, l)
          [] d.kernel = "gemv_tiled_f16_weights" -> gemv_tiled_f16_weights(u, w, l)
          [] d.kernel = "layer_norm_f32" -> layer_norm_f32(u, g)
          [] d.kernel = "layer_norm_f16" -> layer_norm_f16(u, g)
          [] d.kernel = "rms_norm_f32" -> rms_norm_f32(u, g)
          [] d.kernel = "rms_norm_f16_weights" -> rms_norm_f16_weights(u, g)
          [] d.kernel = "silu_f32" -> silu_f32(u, g)
          [] d.kernel = "gelu_tanh_f32" -> gelu_tanh_f32(u, g)
          [] d.kernel = "gelu_tanh_f16" -> gelu_tanh_f16(u, g)
          [] d.kernel = "gelu_erf_f32" -> gelu_erf_f32(u, g)
          [] d.kernel = "gelu_erf_f16" -> gelu_erf_f16(u, g)
          [] d.kernel = "add_f32" -> add_f32(u, g)
          [] d.kernel = "add_f16" -> add_f16(u, g)
          [] d.kernel = "rope_neox_f32" -> rope_neox_f32(u, g)
          [] d.kernel = "vision_rope_2d_f32" -> vision_rope_2d_f32(u, g)
          [] d.kernel = "vision_rope_2d_f16" -> vision_rope_2d_f16(u, g)
          [] d.kernel = "vision_attention_f32" -> vision_attention_f32(u, w, l)
          [] d.kernel = "vision_attention_f16" -> vision_attention_f16(u, w, l)
          [] d.kernel = "vision_patch_projection_f32" ->
                vision_patch_projection_f32(u, w, l)
          [] d.kernel = "linear_projection_f16_weights" ->
                linear_projection_f16_weights(u, w, l)
          [] d.kernel = "linear_projection_f16" -> linear_projection_f16(u, w, l)
          [] d.kernel = "projector_merge_2x2_f32" -> projector_merge_2x2_f32(u, g)
          [] d.kernel = "projector_merge_2x2_f16" -> projector_merge_2x2_f16(u, g)
          [] d.kernel = "vision_qkv_fused_f32" -> vision_qkv_fused_f32(u, g)
          [] d.kernel = "vision_qkv_fused_f16_weights" ->
                vision_qkv_fused_f16_weights(u, w, l)
          [] d.kernel = "decoder_kv_append_f32" -> decoder_kv_append_f32(u, g)
          [] d.kernel = "decoder_kv_append_range_f32" ->
                decoder_kv_append_range_f32(u, g)
          [] d.kernel = "decoder_gqa_f32" -> decoder_gqa_f32(u, g)
          [] d.kernel = "decoder_gqa_split_partial_f32" ->
                decoder_gqa_split_partial_f32(u, w, l)
          [] d.kernel = "decoder_gqa_split_merge_f32" ->
                decoder_gqa_split_merge_f32(g)
          [] d.kernel = "decoder_prefill_gqa_f32" -> decoder_prefill_gqa_f32(u, g)
          [] d.kernel = "decoder_mrope_f32" -> decoder_mrope_f32(g)
          [] d.kernel = "decoder_prefill_mrope_f32" ->
                decoder_prefill_mrope_f32(u, g)
          [] d.kernel = "decoder_swiglu_f32" -> decoder_swiglu_f32(u, g)

Writes(d) ==
    UNION {LET here == WrittenBy(d, w, l) IN {<<w, l, e>> : e \in here} :
              w \in Box(d.groups), l \in Box(d.size)}

(* What the plan of a dispatch says that it writes: all of the output,     *)
(* except where a stage adds to a buffer or pads one.                      *)
Halves == {"layer_norm_f16", "linear_projection_f16", "vision_attention_f16",
           "add_f16", "gelu_tanh_f16", "gelu_erf_f16",
           "projector_merge_2x2_f16"}
Promised(d) ==
    LET u == d.words
        k == d.kernel
    IN  CASE k = "rope_neox_f32" ->
                Strided(u[1], u[2], u[3])
          [] k \in {"vision_rope_2d_f32", "vision_rope_2d_f16"} ->
                Below(d.output \div 2)
          [] k \in {"vision_qkv_fused_f32", "vision_qkv_fused_f16_weights"} ->
                Strided(3, d.output \div 3, u[1] * u[3])
          [] k = "decoder_kv_append_f32" -> Row(u[1], KeyValueWidth)
          [] k = "decoder_kv_append_range_f32" -> Below(u[1] * KeyValueWidth)
          [] k = "decoder_gqa_split_partial_f32" ->
                Strided(d.output \div PartialStride, PartialStride,
                        HeadWidth + 2)
          [] k \in Halves -> Below(CeilDiv(d.output, 4))
          [] OTHER -> Below(d.output)
-----------------------------------------------------------------------------
(* The plans.  Words that no index depends on (an epsilon, a base, a count *)
(* of segments, a layout) are 0.                                           *)

Positive(dims) == \A i \in DOMAIN dims : dims[i] > 0

(* bounded_linear_dispatch: a line too long for an axis takes two.         *)
BoundedGroups(n) ==
    LET groups == CeilDiv(n, Tile)
        y == CeilDiv(groups, GroupLimit)
    IN  <<CeilDiv(groups, y), y, 1>>
(* Mutant: a row is as long as its workgroups are many, not their threads. *)
BoundedStrideInGroups(n) ==
    IF BoundedGroups(n)[2] = 1 THEN 0 ELSE BoundedGroups(n)[1]
BoundedStride(n) ==
    IF BoundedGroups(n)[2] = 1 THEN 0 ELSE BoundedGroups(n)[1] * Tile

(* A thread for every item, in one dimension. *)
RowStage(kernel, output, items, words) ==
    Dispatch(kernel, output, <<Tile, 1, 1>>, <<CeilDiv(items, Tile), 1, 1>>,
             words)
(* The same in two dimensions when it is long. *)
LineStage(kernel, output, items, words) ==
    Dispatch(kernel, output, <<Tile, 1, 1>>, BoundedGroups(items), words)
ProjectionStage(kernel, rows, inner, columns) ==
    Dispatch(kernel, rows * columns, <<8, 8, 1>>,
             <<CeilDiv(columns, LinearTile), CeilDiv(rows, LinearTile), 1>>,
             <<rows, inner, columns, 0>>)
AttentionStage(kernel, tokens, heads, headDim) ==
    Dispatch(kernel, tokens * heads * headDim, <<128, 1, 1>>,
             <<CeilDiv(tokens, 128), heads, 1>>, <<tokens, heads, headDim, 0>>)
MergeStage(kernel, tokens, hidden, divisor) ==
    LET elements == tokens * hidden * 4
        items == CeilDiv(elements, divisor)
    IN  LineStage(kernel, elements, items,
                  <<tokens, hidden, elements, BoundedStride(items)>>)
ElementStage(kernel, elements, divisor) ==
    LET items == CeilDiv(elements, divisor)
    IN  LineStage(kernel, elements, items,
                  <<elements, BoundedStride(items), 0, 0>>)

(* A single kernel, over the dimensions d of its invocation. *)
KernelAdmits(kernel, d) ==
    /\ Positive(d)
    /\ kernel = "rope_neox_f32" => d[3] <= d[2] /\ d[3] % 2 = 0
    /\ kernel = "vision_attention_f32" => d[3] <= MaxVisionHeadDim
KernelPlan(kernel, d) ==
    <<CASE kernel = "gemm_f32" ->
              Dispatch(kernel, d[1] * d[3], <<8, 8, 1>>,
                       <<CeilDiv(d[3], 8), CeilDiv(d[1], 8), 1>>,
                       <<d[1], d[2], d[3], 0>>)
        [] kernel = "gemv_f32" ->
              RowStage(kernel, d[1], d[1], <<d[1], d[2], 0, 0>>)
        [] kernel \in {"layer_norm_f32", "rms_norm_f32"} ->
              RowStage(kernel, d[1] * d[2], d[1], <<d[1], d[2], 0, 0>>)
        [] kernel \in {"silu_f32", "gelu_tanh_f32", "gelu_erf_f32"} ->
              ElementStage(kernel, d[1], 1)
        [] kernel = "rope_neox_f32" ->
              RowStage(kernel, d[1] * d[2], d[1] * (d[3] \div 2),
                       <<d[1], d[2], d[3], 0>>)
        [] kernel = "vision_attention_f32" ->
              AttentionStage(kernel, d[1], d[2], d[3])
        [] kernel = "vision_patch_projection_f32" ->
              ProjectionStage(kernel, d[1], d[2], d[3])
        [] kernel = "projector_merge_2x2_f32" -> MergeStage(kernel, d[1], d[2], 1)
        [] kernel = "add_f32" -> RowStage(kernel, d[1], d[1], <<d[1], 0, 0, 0>>)>>

(* Projection of bytes: half-precision weights come in fours. *)
ProjectionAdmits(storage, d) ==
    /\ Positive(d)
    /\ storage = "f16" => d[2] % 4 = 0 /\ d[3] % 4 = 0
ProjectionPlan(storage, d) ==
    <<ProjectionStage(IF storage = "f16" THEN "linear_projection_f16_weights"
                      ELSE "vision_patch_projection_f32", d[1], d[2], d[3])>>

(* The tiled matrix-vector product: eight rows a workgroup. *)
TiledColumns == {HiddenSize, QueryWidth, IntermediateSize}
TiledAdmits(rows, columns) ==
    rows > 0 /\ columns \in TiledColumns /\ CeilDiv(rows, 8) <= GroupLimit
TiledStage(rows, columns) ==
    Dispatch("gemv_tiled_f32", rows, <<256, 1, 1>>, <<CeilDiv(rows, 8), 1, 1>>,
             <<rows, columns, 0, 0>>)
-----------------------------------------------------------------------------
(* The plans of the decoder.                                               *)

SplitGroups(tokens) == QueryHeads * CeilDiv(tokens, SplitChunk)
SplitAdmits(tokens) == tokens > 0 /\ SplitGroups(tokens) <= GroupLimit
SplitPlan(tokens) ==
    LET words == <<tokens, CeilDiv(tokens, SplitChunk), 0, 0>>
    IN  <<Dispatch("decoder_gqa_split_partial_f32",
                   SplitGroups(tokens) * PartialStride, <<Tile, 1, 1>>,
                   <<SplitGroups(tokens), 1, 1>>, words),
          RowStage("decoder_gqa_split_merge_f32", QueryWidth, QueryWidth, words)>>

(* A transition of the cache: append, and attend serially or by chunks. *)
CacheAdmits(prefix, capacity) ==
    prefix > 0 /\ prefix < capacity /\ SplitAdmits(capacity)
CacheTransition(tokens, capacity) ==
    <<RowStage("decoder_kv_append_f32", 2 * capacity * KeyValueWidth,
               KeyValueWidth, <<tokens, KeyValueHeads, HeadWidth, capacity>>),
      RowStage("decoder_gqa_f32", QueryWidth, QueryHeads,
               <<tokens + 1, QueryHeads, KeyValueHeads, HeadWidth>>)>>
    \o SplitPlan(tokens + 1)

Norm(rows) ==
    RowStage("rms_norm_f32", rows * HiddenSize, rows, <<rows, HiddenSize, 0, 0>>)
Residual(rows) ==
    RowStage("add_f32", rows * HiddenSize, rows * HiddenSize,
             <<rows * HiddenSize, 0, 0, 0>>)
Swiglu(rows) ==
    RowStage("decoder_swiglu_f32", rows * IntermediateSize,
             rows * IntermediateSize, <<rows * IntermediateSize, 0, 0, 0>>)

AttentionBlockPlan(tokens, capacity) ==
    <<Norm(1), TiledStage(QueryWidth, HiddenSize),
      TiledStage(KeyValueWidth, HiddenSize), TiledStage(KeyValueWidth, HiddenSize),
      RowStage("decoder_mrope_f32", RotatedWidth, RotatedWidth,
               <<tokens, capacity, 0, 0>>),
      TiledStage(HiddenSize, QueryWidth), Residual(1)>>
LayerPlan(tokens, capacity) ==
    AttentionBlockPlan(tokens, capacity)
    \o <<Norm(1), TiledStage(IntermediateSize, HiddenSize),
         TiledStage(IntermediateSize, HiddenSize), Swiglu(1),
         TiledStage(HiddenSize, IntermediateSize), Residual(1)>>
TiledRowsFit ==
    \A rows \in {QueryWidth, KeyValueWidth, HiddenSize, IntermediateSize} :
        CeilDiv(rows, 8) <= GroupLimit

(* A prompt at once; what is too long for an axis is left to the limits. *)
PrefillAdmits(tokens, capacity) == tokens \in 1 .. capacity /\ TiledRowsFit
PrefillPlan(tokens, capacity) ==
    LET linear(inner, columns) ==
            ProjectionStage("vision_patch_projection_f32", tokens, inner, columns)
        keyValue == linear(HiddenSize, KeyValueWidth)
        wide == linear(HiddenSize, IntermediateSize)
    IN  <<Norm(tokens), linear(HiddenSize, QueryWidth), keyValue, keyValue,
          RowStage("decoder_prefill_mrope_f32", tokens * RotatedWidth,
                   tokens * RotatedWidth, <<tokens, capacity, 0, 0>>),
          RowStage("decoder_kv_append_range_f32", 2 * capacity * KeyValueWidth,
                   tokens * KeyValueWidth, <<tokens, capacity, 0, 0>>),
          RowStage("decoder_prefill_gqa_f32", tokens * QueryWidth,
                   tokens * QueryHeads,
                   <<tokens, QueryHeads, KeyValueHeads, HeadWidth>>),
          linear(QueryWidth, HiddenSize), Residual(tokens), Norm(tokens),
          wide, wide, Swiglu(tokens), linear(IntermediateSize, HiddenSize),
          Residual(tokens)>>

LmHeadRows(hidden) == IF hidden \in TiledColumns THEN 8 ELSE Tile
LmHeadAdmits(hidden, vocabulary) ==
    /\ hidden > 0 /\ vocabulary > 0
    /\ CeilDiv(vocabulary, LmHeadRows(hidden)) <= GroupLimit
LmHeadPlan(hidden, vocabulary) ==
    <<RowStage("rms_norm_f32", hidden, 1, <<1, hidden, 0, 0>>),
      IF hidden \in TiledColumns THEN TiledStage(vocabulary, hidden)
      ELSE RowStage("gemv_f32", vocabulary, vocabulary,
                    <<vocabulary, hidden, 0, 0>>)>>
-----------------------------------------------------------------------------
(* The plans of the vision encoder and of the projector.                   *)

(* Three projections in one dispatch; the planes are aligned for binding.  *)
(* A plane of the f32 kernel is a layer of workgroups, the packed kernel   *)
(* writes the three from one.                                              *)
AlignUp(value, alignment) == CeilDiv(value, alignment) * alignment
FusedGroups(storage, d) ==
    IF storage = "f16" THEN <<CeilDiv(d[3], 32), CeilDiv(d[1], 16), 1>>
    ELSE <<CeilDiv(d[3], 8), CeilDiv(d[1], 8), 3>>
FusedAdmits(storage, d) ==
    /\ Positive(d)
    /\ storage = "f16" => d[2] % 4 = 0 /\ d[3] % 4 = 0
    /\ \A axis \in 1 .. 3 : FusedGroups(storage, d)[axis] <= GroupLimit
FusedPlan(storage, d) ==
    LET stride == AlignUp(d[1] * d[3], PlaneAlignment)
    IN  <<Dispatch(IF storage = "f16" THEN "vision_qkv_fused_f16_weights"
                   ELSE "vision_qkv_fused_f32", 3 * stride, <<8, 8, 1>>,
                   FusedGroups(storage, d), <<d[1], d[2], d[3], stride>>)>>

(* Query and key turn together: both are of the size of the tensor. *)
RopeAdmits(d) ==
    /\ Positive(d) /\ d[3] % 4 = 0 /\ d[3] <= MaxVisionHeadDim
    /\ CeilDiv(d[1] * d[2] * (d[3] \div 2), Tile) <= GroupLimit
RopePlan(storage, d) ==
    <<RowStage(IF storage = "f16" THEN "vision_rope_2d_f16"
               ELSE "vision_rope_2d_f32", 2 * d[1] * d[2] * d[3],
               d[1] * d[2] * (d[3] \div 2), <<d[1], d[2], d[3], 0>>)>>

(* d: the merged tokens, the hidden and the output size. *)
ProjectorAdmits(storage, d) ==
    /\ Positive(d)
    /\ storage = "f16" => d[2] % 4 = 0 /\ d[3] % 4 = 0
ProjectorPlan(storage, d) ==
    LET half == storage = "f16"
        divisor == IF half THEN 4 ELSE 1
        wide == 4 * d[2]
        linear(columns) ==
            ProjectionStage(IF half THEN "linear_projection_f16"
                            ELSE "vision_patch_projection_f32",
                            d[1], wide, columns)
    IN  <<RowStage(IF half THEN "layer_norm_f16" ELSE "layer_norm_f32",
                   4 * d[1] * d[2], 4 * d[1], <<4 * d[1], d[2], 0, 0>>),
          MergeStage(IF half THEN "projector_merge_2x2_f16"
                     ELSE "projector_merge_2x2_f32", d[1], d[2], divisor),
          linear(wide),
          ElementStage(IF half THEN "gelu_erf_f16" ELSE "gelu_erf_f32",
                       d[1] * wide, divisor),
          linear(d[3])>>

(* d: tokens, heads, the size of a head and the intermediate size. *)
VisionLayerAdmits(precision, d) ==
    /\ Positive(d) /\ d[3] <= MaxVisionHeadDim
    /\ precision # "f32" => (d[2] * d[3]) % 4 = 0 /\ d[4] % 4 = 0
VisionLayerPlan(precision, d) ==
    LET half == precision = "f16"
        hidden == d[2] * d[3]
        divisor == IF half THEN 4 ELSE 1
        norm == RowStage(IF half THEN "layer_norm_f16" ELSE "layer_norm_f32",
                         d[1] * hidden, d[1], <<d[1], hidden, 0, 0>>)
        linear(inner, columns) ==
            ProjectionStage(
                CASE half -> "linear_projection_f16"
                  [] precision = "f16Weights" -> "linear_projection_f16_weights"
                  [] OTHER -> "vision_patch_projection_f32",
                d[1], inner, columns)
        square == linear(hidden, hidden)
        add == ElementStage(IF half THEN "add_f16" ELSE "add_f32",
                            d[1] * hidden, divisor)
    IN  <<norm, square, square, square,
          AttentionStage(IF half THEN "vision_attention_f16"
                         ELSE "vision_attention_f32", d[1], d[2], d[3]),
          square, add, norm, linear(hidden, d[4]),
          ElementStage(IF half THEN "gelu_tanh_f16" ELSE "gelu_tanh_f32",
                       d[1] * d[4], divisor),
          linear(d[4], hidden), add>>
VisionStackPlan(layers, d) ==
    [i \in 1 .. 12 * layers |-> VisionLayerPlan("f32", d)[((i - 1) % 12) + 1]]
    \o <<VisionLayerPlan("f32", d)[1]>>
-----------------------------------------------------------------------------
Init ==
    /\ geometryJob \in GeometryJobs
    /\ stage = "called"
    /\ dispatchesLeft = <<>>
    /\ outcome = "none"

(* A planner refuses its call, or plans dispatches for it. *)
Plans(admits, dispatches) ==
    /\ stage = "called"
    /\ stage' = IF admits THEN "planned" ELSE "refused"
    /\ dispatchesLeft' = IF admits THEN dispatches ELSE <<>>
    /\ UNCHANGED <<geometryJob, outcome>>

PlansKernel ==
    /\ geometryJob.call = "kernel"
    /\ LET j == geometryJob
       IN  Plans(KernelAdmits(j.kernel, j.dims), KernelPlan(j.kernel, j.dims))
PlansProjection ==
    /\ geometryJob.call = "projection"
    /\ LET j == geometryJob
       IN  Plans(ProjectionAdmits(j.storage, j.dims),
                 ProjectionPlan(j.storage, j.dims))
PlansTiledProduct ==
    /\ geometryJob.call = "tiledProduct"
    /\ LET d == geometryJob.dims
       IN  Plans(TiledAdmits(d[1], d[2]), <<TiledStage(d[1], d[2])>>)
PlansCache ==
    /\ geometryJob.call = "cache"
    /\ LET d == geometryJob.dims
       IN  Plans(CacheAdmits(d[1], d[2]), CacheTransition(d[1], d[2]))
PlansLayer ==
    /\ geometryJob.call = "layer"
    /\ LET d == geometryJob.dims
       IN  Plans(d[1] < d[2] /\ TiledRowsFit, LayerPlan(d[1], d[2]))
PlansPrefill ==
    /\ geometryJob.call = "prefill"
    /\ LET d == geometryJob.dims
       IN  Plans(PrefillAdmits(d[1], d[2]), PrefillPlan(d[1], d[2]))
PlansLmHead ==
    /\ geometryJob.call = "lmHead"
    /\ LET d == geometryJob.dims
       IN  Plans(LmHeadAdmits(d[1], d[2]), LmHeadPlan(d[1], d[2]))
PlansFused ==
    /\ geometryJob.call = "fused"
    /\ LET j == geometryJob
       IN  Plans(FusedAdmits(j.storage, j.dims), FusedPlan(j.storage, j.dims))
PlansRope ==
    /\ geometryJob.call = "rope"
    /\ LET j == geometryJob
       IN  Plans(RopeAdmits(j.dims), RopePlan(j.storage, j.dims))
PlansProjector ==
    /\ geometryJob.call = "projector"
    /\ LET j == geometryJob
       IN  Plans(ProjectorAdmits(j.storage, j.dims),
                 ProjectorPlan(j.storage, j.dims))
PlansVisionLayer ==
    /\ geometryJob.call = "visionLayer"
    /\ LET j == geometryJob
       IN  Plans(VisionLayerAdmits(j.storage, j.dims),
                 VisionLayerPlan(j.storage, j.dims))
PlansVisionStack ==
    /\ geometryJob.call = "visionStack"
    /\ LET j == geometryJob
       IN  Plans(j.layers > 0 /\ VisionLayerAdmits("f32", j.dims),
                 VisionStackPlan(j.layers, j.dims))

(* The limits of the adapter, before anything is dispatched. *)
WithinLimits(d) ==
    /\ \A axis \in 1 .. 3 : d.size[axis] \in 1 .. <<256, 256, 64>>[axis]
    /\ \A axis \in 1 .. 3 : d.groups[axis] \in 1 .. GroupLimit
    /\ d.size[1] * d.size[2] * d.size[3] <= 256
Validates ==
    /\ stage = "planned"
    /\ LET fits == \A i \in DOMAIN dispatchesLeft : WithinLimits(dispatchesLeft[i])
       IN  /\ stage' = IF fits THEN "running" ELSE "refused"
           /\ dispatchesLeft' = IF fits THEN dispatchesLeft ELSE <<>>
    /\ UNCHANGED <<geometryJob, outcome>>

(* The output is compared with what the plan says is in it. *)
Runs ==
    /\ stage = "running" /\ dispatchesLeft # <<>>
    /\ LET d == Head(dispatchesLeft)
           writes == Writes(d)
           elements == {write[3] : write \in writes}
       IN  outcome' = IF ~ Promised(d) \subseteq elements THEN "missing"
                      ELSE IF elements # Promised(d) THEN "stray"
                      ELSE IF Cardinality(writes) # Cardinality(elements)
                      THEN "twice" ELSE "complete"
    /\ dispatchesLeft' = Tail(dispatchesLeft)
    /\ UNCHANGED <<geometryJob, stage>>

Next ==
    \/ PlansKernel \/ PlansProjection \/ PlansTiledProduct \/ PlansCache
    \/ PlansLayer \/ PlansPrefill \/ PlansLmHead
    \/ PlansFused \/ PlansRope \/ PlansProjector \/ PlansVisionLayer
    \/ PlansVisionStack
    \/ Validates \/ Runs

Spec == Init /\ [][Next]_geometryVars
-----------------------------------------------------------------------------
(* Every dispatch that runs writes all of its output, nothing outside it,  *)
(* and no element from two threads: the groups that the plan counts, the   *)
(* words that it fills and the index that the shader computes from both    *)
(* agree, on exact multiples of a workgroup and around them, on one axis   *)
(* and on two.                                                             *)
DispatchesAreComplete == outcome \in {"none", "complete"}

(* A line of elements is never too long for an axis: what is planned by    *)
(* bounded_linear_dispatch is refused only when it is empty.               *)
LongLinesFit ==
    geometryJob.call = "kernel" /\ stage = "refused" =>
        \/ ~ KernelAdmits(geometryJob.kernel, geometryJob.dims)
        \/ geometryJob.kernel \notin
               {"silu_f32", "gelu_tanh_f32", "gelu_erf_f32",
                "projector_merge_2x2_f32"}

DispatchesAreSound == DispatchesAreComplete /\ LongLinesFit
=============================================================================
