----------------------------- MODULE GpuKernels -----------------------------
(***************************************************************************)
(* What a submission to the GPU does: the kernels of pvlc-wgsl/src/lib.rs, *)
(* and the commands the runtimes encode.                                   *)
(*                                                                         *)
(* A memory maps every buffer to its cells, counted from 0; a cell holds a *)
(* row of Tensors, or a part of one where rows are wider than a cell.  A   *)
(* binding is a range of a buffer, in the order of the bind group, read as *)
(* rows of `width` cells.  A kernel takes its parameters from a uniform    *)
(* when it runs, not when it is encoded: the words of a uniform cell are   *)
(* those of the shader's Params that count tokens, rows or chunks; the     *)
(* dimensions of a row are left out.  A thread of a kernel that reads or   *)
(* writes past a binding is not modelled: such rows do not exist.          *)
(***************************************************************************)
EXTENDS Tensors, FiniteSets

CONSTANT ChunkSize      \* CHUNK_SIZE, 32 in the shader
ASSUME ChunkSizeIsCount == ChunkSize \in Nat \ {0}

Poison == <<"poison">>          \* rows nothing may depend on

Slice(buffer, at, cells) == [buffer |-> buffer, at |-> at, cells |-> cells, width |-> 1]
Wide(binding, width) == [binding EXCEPT !.width = width]
Cells(binding) == {binding.at + i : i \in 0 .. binding.cells - 1}

Command(kernel, bind, uniform) ==
    [kernel |-> kernel, bind |-> bind, uniform |-> uniform,
     access |-> "declared"]
(* storage_read_write_variant: a shader all of whose bindings may write. *)
ReadWriteVariant(command) == [command EXCEPT !.access = "read_write"]
-----------------------------------------------------------------------------
(* Memory.                                                                 *)

Part(row, i) == <<"part", i, row>>
Joined(parts) ==
    IF \A i \in DOMAIN parts :
          /\ parts[i][1] = "part"
          /\ parts[i][2] = i
          /\ parts[i][3] = parts[1][3]
    THEN parts[1][3]
    ELSE <<"torn", parts>>

RowOf(memory, binding, i) ==
    LET first == binding.at + i * binding.width
    IN  IF binding.width = 1 THEN memory[binding.buffer][first]
        ELSE Joined([k \in 1 .. binding.width |->
                        memory[binding.buffer][first + k - 1]])

(* rows: some rows of the binding, by their number. *)
Stored(memory, binding, rows) ==
    LET Cell(n, old) ==
            LET i == (n - binding.at) \div binding.width
                k == ((n - binding.at) % binding.width) + 1
            IN  IF n < binding.at \/ i \notin DOMAIN rows THEN old
                ELSE IF binding.width = 1 THEN rows[i] ELSE Part(rows[i], k)
    IN  [memory EXCEPT ![binding.buffer] =
            [n \in DOMAIN @ |-> Cell(n, @[n])]]
-----------------------------------------------------------------------------
(* The kernels: R[k, i] is row i of binding k, u the words of the uniform, *)
(* and the result gives the rows that each written binding gets.           *)

Only(binding, rows) == <<[binding |-> binding, rows |-> rows]>>

gemv_f32(R, u) == Only(3, [i \in {0} |-> Linear(R[1, 0], Zero, R[2, 0])])

rms_norm_f32_kernel(R, u) ==
    Only(3, [i \in 0 .. u[1] - 1 |-> Rms(R[2, 0], R[1, i])])

layer_norm_f32_kernel(R, u) ==
    Only(4, [i \in 0 .. u[1] - 1 |-> Centred(R[2, 0], R[3, 0], R[1, i])])

(* The projection with a bias, of patches and of everything else. *)
vision_patch_projection_f32(R, u) ==
    Only(4, [i \in 0 .. u[1] - 1 |-> Linear(R[2, 0], R[3, 0], R[1, i])])

(* Three projections at once, into planes u[2] rows apart. *)
vision_qkv_fused_f32(R, u) ==
    Only(8, [n \in {p * u[2] + i : p \in 0 .. 2, i \in 0 .. u[1] - 1} |->
                LET p == n \div u[2]
                IN  Linear(R[2 + 2 * p, 0], R[3 + 2 * p, 0], R[1, n % u[2]])])

residual_add_f32(R, u) ==
    Only(3, [i \in 0 .. u[1] - 1 |-> Added(R[1, i], R[2, i])])
gelu_f32(R, u) == Only(2, [i \in 0 .. u[1] - 1 |-> Gelu(R[1, i])])
gelu_erf_f32_kernel(R, u) ==
    Only(2, [i \in 0 .. u[1] - 1 |-> GeluErf(R[1, i])])
decoder_swiglu_f32(R, u) ==
    Only(3, [i \in 0 .. u[1] - 1 |-> Gated(R[1, i], R[2, i])])

(* One token at position u[1] of the tables; or tokens 0, 1, ... of them. *)
decoder_mrope_f32(R, u) ==
    <<[binding |-> 5, rows |-> [i \in {0} |-> Rotated(R[1, 0], R[3, u[1]], R[4, u[1]])]],
      [binding |-> 6, rows |-> [i \in {0} |-> Rotated(R[2, 0], R[3, u[1]], R[4, u[1]])]]>>
decoder_prefill_mrope_f32(R, u) ==
    <<[binding |-> 5, rows |-> [i \in 0 .. u[1] - 1 |-> Rotated(R[1, i], R[3, i], R[4, i])]],
      [binding |-> 6, rows |-> [i \in 0 .. u[1] - 1 |-> Rotated(R[2, i], R[3, i], R[4, i])]]>>

(* In place. *)
vision_rope_2d_kernel(R, u) ==
    <<[binding |-> 1, rows |-> [i \in 0 .. u[1] - 1 |-> Rotated(R[1, i], R[3, i], R[4, i])]],
      [binding |-> 2, rows |-> [i \in 0 .. u[1] - 1 |-> Rotated(R[2, i], R[3, i], R[4, i])]]>>

(* The row after a prefix of u[1], or rows 0 to u[1] - 1, of a cache of    *)
(* u[2] rows; nothing if they do not fit.                                  *)
decoder_kv_append_f32(R, u) ==
    LET to == IF u[1] < u[2] THEN {u[1]} ELSE {}
    IN  <<[binding |-> 3, rows |-> [i \in to |-> R[1, 0]]],
          [binding |-> 4, rows |-> [i \in to |-> R[2, 0]]]>>
decoder_kv_append_range_f32(R, u) ==
    LET to == IF u[1] > u[2] THEN {} ELSE 0 .. u[1] - 1
    IN  <<[binding |-> 3, rows |-> [i \in to |-> R[1, i]]],
          [binding |-> 4, rows |-> [i \in to |-> R[2, i]]]>>

(* Rows first .. last - 1 of binding k. *)
Rows(R, k, first, last) == [j \in 1 .. last - first |-> R[k, first + j - 1]]

decoder_gqa_f32(R, u) ==
    Only(4, [i \in {0} |-> Attended(R[1, 0], Rows(R, 2, 0, u[1]), Rows(R, 3, 0, u[1]))])
decoder_prefill_gqa_f32(R, u) ==
    Only(4, [i \in 0 .. u[1] - 1 |->
                Attended(R[1, i], Rows(R, 2, 0, i + 1), Rows(R, 3, 0, i + 1))])

(* Chunk c attends to its tokens among the first u[1]; u[2] chunks merge. *)
decoder_gqa_split_partial_f32(R, u) ==
    Only(4, [c \in 0 .. u[2] - 1 |->
                LET first == c * ChunkSize
                    last == IF first + ChunkSize < u[1] THEN first + ChunkSize ELSE u[1]
                IN  PartlyAttended(R[1, 0], Rows(R, 2, first, last),
                                   Rows(R, 3, first, last))])
decoder_gqa_split_merge_f32(R, u) ==
    Only(4, [i \in {0} |-> Merged(Rows(R, 1, 0, u[2]))])

(* The cells of cu_seqlens and of source_token_indices hold numbers.  The  *)
(* segment is the first whose end is past the token.                       *)
Number(i) == <<"number", i>>
vision_segmented_attention_f32(R, u) ==
    LET End(s) == R[4, s][2]
        Segment(i) == CHOOSE s \in 1 .. u[2] :
                          i < End(s) /\ \A t \in 1 .. s - 1 : i >= End(t)
    IN  Only(5, [i \in 0 .. u[1] - 1 |->
                    LET s == Segment(i)
                    IN  Attended(R[1, i], Rows(R, 2, End(s - 1), End(s)),
                                 Rows(R, 3, End(s - 1), End(s)))])

projector_merge_2x2(R, u) ==
    Only(3, [t \in 0 .. u[1] - 1 |->
                Gathered([k \in 1 .. 4 |-> R[1, R[2, 4 * t + k - 1][2]]])])

(* The vocabulary is one row. *)
logits_top1(R, u) == Only(2, [i \in {0} |-> Best(R[1, 0])])

(* copyBufferToBuffer of u[1] rows. *)
copy(R, u) == Only(2, [i \in 0 .. u[1] - 1 |-> R[1, i]])
-----------------------------------------------------------------------------
(* Which bindings a kernel's shader declares read_write. *)
Written(kernel) ==
    CASE kernel \in {"gelu", "gelu_erf", "top1", "copy"} -> {2}
      [] kernel \in {"gemv", "rms_norm", "residual", "swiglu", "merge_2x2"} -> {3}
      [] kernel \in {"layer_norm", "projection", "gqa", "prefill_gqa",
                     "split_partial", "split_merge"} -> {4}
      [] kernel = "attention" -> {5}
      [] kernel = "qkv_fused" -> {8}
      [] kernel \in {"mrope", "prefill_mrope"} -> {5, 6}
      [] kernel \in {"kv_append", "kv_append_range"} -> {3, 4}
      [] kernel = "rope_2d" -> {1, 2}

Output(kernel, R, u) ==
    CASE kernel = "gemv" -> gemv_f32(R, u)
      [] kernel = "rms_norm" -> rms_norm_f32_kernel(R, u)
      [] kernel = "layer_norm" -> layer_norm_f32_kernel(R, u)
      [] kernel = "projection" -> vision_patch_projection_f32(R, u)
      [] kernel = "qkv_fused" -> vision_qkv_fused_f32(R, u)
      [] kernel = "residual" -> residual_add_f32(R, u)
      [] kernel = "gelu" -> gelu_f32(R, u)
      [] kernel = "gelu_erf" -> gelu_erf_f32_kernel(R, u)
      [] kernel = "swiglu" -> decoder_swiglu_f32(R, u)
      [] kernel = "mrope" -> decoder_mrope_f32(R, u)
      [] kernel = "prefill_mrope" -> decoder_prefill_mrope_f32(R, u)
      [] kernel = "rope_2d" -> vision_rope_2d_kernel(R, u)
      [] kernel = "kv_append" -> decoder_kv_append_f32(R, u)
      [] kernel = "kv_append_range" -> decoder_kv_append_range_f32(R, u)
      [] kernel = "gqa" -> decoder_gqa_f32(R, u)
      [] kernel = "prefill_gqa" -> decoder_prefill_gqa_f32(R, u)
      [] kernel = "split_partial" -> decoder_gqa_split_partial_f32(R, u)
      [] kernel = "split_merge" -> decoder_gqa_split_merge_f32(R, u)
      [] kernel = "attention" -> vision_segmented_attention_f32(R, u)
      [] kernel = "merge_2x2" -> projector_merge_2x2(R, u)
      [] kernel = "top1" -> logits_top1(R, u)
      [] kernel = "copy" -> copy(R, u)

(* All threads read before any result is seen: a kernel reads what it      *)
(* writes only at the same place (vision_rope_2d), or not at all.          *)
Dispatched(memory, command) ==
    LET R == [k \in DOMAIN command.bind, i \in Nat |->
                  RowOf(memory, command.bind[k], i)]
        u == IF command.kernel = "copy" THEN <<command.uniform>>
             ELSE memory[command.uniform.buffer][command.uniform.at]
        output == Output(command.kernel, R, u)
        after[k \in 0 .. Len(output)] ==
            IF k = 0 THEN memory
            ELSE Stored(after[k - 1], command.bind[output[k].binding], output[k].rows)
    IN  after[Len(output)]

(* The commands of a submission take effect in their order: each on the    *)
(* memory the ones before it leave, which the set has TLC compute first.   *)
Submitted(memory, commands) ==
    LET after[i \in 0 .. Len(commands)] ==
            IF i = 0 THEN memory
            ELSE CHOOSE m \in {Dispatched(before, commands[i]) :
                                  before \in {after[i - 1]}} : TRUE
    IN  after[Len(commands)]
-----------------------------------------------------------------------------
(* WebGPU's usage rules for one dispatch: a buffer that is written is not  *)
(* bound read-only as well, and no cell is bound twice if one of the two   *)
(* bindings may write.                                                     *)
Admissible(command) ==
    LET bind == command.bind
        writable == IF command.access = "read_write" THEN DOMAIN bind
                    ELSE Written(command.kernel)
    IN  \A i \in writable, j \in DOMAIN bind :
            i # j /\ bind[i].buffer = bind[j].buffer =>
                /\ j \in writable
                /\ Cells(bind[i]) \intersect Cells(bind[j]) = {}
=============================================================================
