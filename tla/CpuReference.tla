---------------------------- MODULE CpuReference ----------------------------
(***************************************************************************)
(* The CPU reference of pvlc-cpu-ref/src/lib.rs, on tensors of Tensors.    *)
(* Its operands are valid: the checks that precede each computation are    *)
(* left out.                                                               *)
(***************************************************************************)
EXTENDS Tensors

rms_norm_f32(x, weight) == [i \in DOMAIN x |-> Rms(weight, x[i])]
layer_norm_f32(x, norm) ==
    [i \in DOMAIN x |-> Centred(norm.weight, norm.bias, x[i])]
linear_f32(x, linear) ==
    [i \in DOMAIN x |-> Linear(linear.weight, linear.bias, x[i])]
linear_no_bias_f32(x, weight) ==
    linear_f32(x, [weight |-> weight, bias |-> Zero])
add_vectors_f32(x, y) == [i \in DOMAIN x |-> Added(x[i], y[i])]
apply_multimodal_rope_f32(x, cos, sin) ==
    [i \in DOMAIN x |-> Rotated(x[i], cos[i], sin[i])]
vision_rope_2d_f32(x, cos, sin) ==
    [i \in DOMAIN x |-> Rotated(x[i], cos[i], sin[i])]
-----------------------------------------------------------------------------
(* The decoder.  A cache has a sequence of keys and one of values.         *)

EmptyCache == [keys |-> <<>>, values |-> <<>>]

causal_gqa_f32(query, key, value) ==
    [i \in DOMAIN query |->
        Attended(query[i], SubSeq(key, 1, i), SubSeq(value, 1, i))]

decode_gqa_f32(query, cache) ==
    <<Attended(query[1], cache.keys, cache.values)>>

append_decoder_kv_cache(prefix, key, value) ==
    [keys |-> prefix.keys \o key, values |-> prefix.values \o value]

(* A layer with the weights w: causal attention over its own tokens, or of *)
(* one token over the cache that prefix has become.                        *)
decoder_layer_trace(input, w, cos, sin, causal, prefix) ==
    LET norm1 == rms_norm_f32(input, w.input_norm)
        query == apply_multimodal_rope_f32(
                     linear_no_bias_f32(norm1, w.query), cos, sin)
        key == apply_multimodal_rope_f32(
                   linear_no_bias_f32(norm1, w.key), cos, sin)
        value == linear_no_bias_f32(norm1, w.value)
        cache == append_decoder_kv_cache(prefix, key, value)
        context == IF causal THEN causal_gqa_f32(query, key, value)
                   ELSE decode_gqa_f32(query, cache)
        attention_output == linear_no_bias_f32(context, w.attention_output)
        attention_residual == add_vectors_f32(input, attention_output)
        norm2 == rms_norm_f32(attention_residual, w.post_attention_norm)
        gate == linear_no_bias_f32(norm2, w.gate)
        up == linear_no_bias_f32(norm2, w.up)
        activation == [i \in DOMAIN gate |-> Gated(gate[i], up[i])]
        down == linear_no_bias_f32(activation, w.down)
    IN  [cache |-> cache,
         attention_context |-> context,
         attention_residual |-> attention_residual,
         output |-> add_vectors_f32(attention_residual, down)]

decoder_layer_prefill_f32(input, w, cos, sin) ==
    decoder_layer_trace(input, w, cos, sin, TRUE, EmptyCache)

decoder_layer_decode_f32(input, w, cos, sin, prefix) ==
    decoder_layer_trace(input, w, cos, sin, FALSE, prefix)

(* The layers follow each other, and every one leaves its cache. *)
decoder_stack_trace(input, layers, w, final_norm, cos, sin, causal, prefixes) ==
    LET trace[l \in 0 .. layers - 1] ==
            decoder_layer_trace(IF l = 0 THEN input ELSE trace[l - 1].output,
                                w[l], cos, sin, causal, prefixes[l])
    IN  [caches |-> [l \in 0 .. layers - 1 |-> trace[l].cache],
         output |-> trace[layers - 1].output,
         final_norm |-> rms_norm_f32(trace[layers - 1].output, final_norm)]

decoder_stack_prefill_f32(input, layers, w, final_norm, cos, sin) ==
    decoder_stack_trace(input, layers, w, final_norm, cos, sin, TRUE,
                        [l \in 0 .. layers - 1 |-> EmptyCache])

decoder_stack_decode_f32(input, layers, w, final_norm, cos, sin, prefixes) ==
    decoder_stack_trace(input, layers, w, final_norm, cos, sin, FALSE, prefixes)

prefill_last_logits_f32(final_norm, lm_head) ==
    linear_no_bias_f32(<<final_norm[Len(final_norm)]>>, lm_head)
-----------------------------------------------------------------------------
(* The vision encoder.  cu_seqlens cuts the tokens into segments, and a    *)
(* token attends to its own.                                               *)

SegmentOf(i, cu_seqlens) ==
    CHOOSE s \in 1 .. Len(cu_seqlens) - 1 :
        cu_seqlens[s] < i /\ i <= cu_seqlens[s + 1]

streaming_segmented_attention_f32(query, key, value, cu_seqlens) ==
    [i \in DOMAIN query |->
        LET s == SegmentOf(i, cu_seqlens)
        IN  Attended(query[i],
                     SubSeq(key, cu_seqlens[s] + 1, cu_seqlens[s + 1]),
                     SubSeq(value, cu_seqlens[s] + 1, cu_seqlens[s + 1]))]

(* tables: none, or the cosines and the sines of the spatial rope. *)
NoTables == <<>>
Turned(x, tables) ==
    IF tables = NoTables THEN x ELSE vision_rope_2d_f32(x, tables[1], tables[2])

vision_encoder_layer(input, w, cu_seqlens, tables) ==
    LET norm1 == layer_norm_f32(input, w.norm1)
        context == streaming_segmented_attention_f32(
                       Turned(linear_f32(norm1, w.query), tables),
                       Turned(linear_f32(norm1, w.key), tables),
                       linear_f32(norm1, w.value), cu_seqlens)
        attention_output == linear_f32(context, w.attention_output)
        attention_residual == add_vectors_f32(input, attention_output)
        norm2 == layer_norm_f32(attention_residual, w.norm2)
        fc1 == linear_f32(norm2, w.mlp_fc1)
        activation == [i \in DOMAIN fc1 |-> Gelu(fc1[i])]
        mlp_output == linear_f32(activation, w.mlp_fc2)
    IN  add_vectors_f32(attention_residual, mlp_output)

(* The output of every layer, and the post norm of the last. *)
vision_encoder_stack(input, layers, w, cu_seqlens, tables, post_norm) ==
    LET output[l \in 0 .. layers - 1] ==
            vision_encoder_layer(IF l = 0 THEN input ELSE output[l - 1], w[l],
                                 cu_seqlens, tables)
    IN  [checkpoints |-> output,
         output |-> layer_norm_f32(output[layers - 1], post_norm)]

(* The tokens of images of temporal x height x width, one image after the  *)
(* other: the four tokens of every 2x2 cell of a frame become one.         *)
projector_merge_2x2_f32(rows, image_grid_thw) ==
    LET Frames(grid, offset) ==
            [c \in 1 .. grid[1] * (grid[2] \div 2) * (grid[3] \div 2) |->
                LET cells == (grid[2] \div 2) * (grid[3] \div 2)
                    time == (c - 1) \div cells
                    merged_y == ((c - 1) % cells) \div (grid[3] \div 2)
                    merged_x == ((c - 1) % cells) % (grid[3] \div 2)
                    Source(y, x) == offset + time * grid[2] * grid[3]
                                    + (merged_y * 2 + y) * grid[3] + merged_x * 2 + x
                IN  Gathered([k \in 1 .. 4 |->
                        rows[Source((k - 1) \div 2, (k - 1) % 2) + 1]])]
        merged[g \in 0 .. Len(image_grid_thw)] ==
            IF g = 0 THEN [offset |-> 0, rows |-> <<>>]
            ELSE LET before == merged[g - 1]
                     grid == image_grid_thw[g]
                 IN  [offset |-> before.offset + grid[1] * grid[2] * grid[3],
                      rows |-> before.rows \o Frames(grid, before.offset)]
    IN  merged[Len(image_grid_thw)].rows

projector_f32(input, w, image_grid_thw) ==
    LET normed == layer_norm_f32(input, w.pre_norm)
        merged == projector_merge_2x2_f32(normed, image_grid_thw)
        hidden == linear_f32(merged, w.linear1)
        activated == [i \in DOMAIN hidden |-> GeluErf(hidden[i])]
    IN  linear_f32(activated, w.linear2)
=============================================================================
