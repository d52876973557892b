-------------------------- MODULE DecoderPrograms --------------------------
(***************************************************************************)
(* What the four decoder sessions of pvlc-runtime-web have the GPU compute *)
(* (web/decoder_kv_session.rs, decoder_layer_session.rs,                   *)
(* decoder_full_layer_session.rs and decoder_stack_session.rs): their      *)
(* buffers, the uniforms and operands a call writes, the commands it       *)
(* encodes, and the row it reads back.  How calls, failures and aborts     *)
(* interleave is the subject of DecoderStackSession; here a session does   *)
(* one thing at a time.                                                    *)
(*                                                                         *)
(* A row is one cell: widths are left out, and so is the precision of the  *)
(* weights.                                                                *)
(***************************************************************************)
EXTENDS GpuKernels, SequencesExt, TLC

CONSTANTS Layers,       \* layers of a stack, 18 in the code
          Capacity      \* rows of a cache

(* A stack of a real model has an even number of layers. *)
ShapesAreValid ==
    /\ Layers \in Nat \ {0} /\ Layers % 2 = 0
    /\ Capacity \in Nat \ {0, 1}

VARIABLES
    kind,       \* which of the four sessions
    phase,      \* "closed", "ready", "encoded", "ran", or "poisoned"
    prefix,     \* tokens the caches begin with
    prefill,    \* tokens of the prompt a stack session is to prefill, or 0
    tokens,     \* cache_tokens
    memory,     \* the session's buffers
    commands,   \* the submission of the call in progress
    call,       \* what was called
    row,        \* the hidden row the last prefill or step returned
    answer      \* what the last call returned

vars == <<kind, phase, prefix, prefill, tokens, memory, commands, call, row, answer>>

Kind == {"kv", "layer", "full", "stack"}
LayersOf(k) == IF k = "stack" THEN Layers ELSE 1
Nothing == <<>>

Reference == INSTANCE ReferenceDecoder WITH
    status <- CASE phase \in {"closed", "ready"} -> phase
                [] phase \in {"encoded", "ran"} -> "busy"
                [] phase = "poisoned" -> "lost",
    caches <- [l \in 0 .. LayersOf(kind) - 1 |->
                  [keys |-> [i \in 1 .. tokens |->
                                memory["key_cache"][l * Capacity + i - 1]],
                   values |-> [i \in 1 .. tokens |->
                                  memory["value_cache"][l * Capacity + i - 1]]]],
    asked <- call
-----------------------------------------------------------------------------
(* Buffers.                                                                *)

KvUniforms == {"append_uniform", "attention_uniform"}
LayerUniforms == KvUniforms \union
    {"rms_uniform", "gemv_q_uniform", "gemv_k_uniform", "gemv_v_uniform",
     "mrope_uniform", "gemv_o_uniform", "residual_uniform"}
FullUniforms == LayerUniforms \union
    {"rms2_uniform", "gemv_gate_uniform", "gemv_up_uniform", "swiglu_uniform",
     "gemv_down_uniform", "residual2_uniform"}
SplitUniforms == {"split_partial_uniform", "split_merge_uniform"}
LogitsUniforms == {"logits_rms_uniform", "logits_gemv_uniform"}
Uniforms == FullUniforms \union SplitUniforms \union LogitsUniforms

Caches == {"key_cache", "value_cache"}
LayerWeights ==
    {"norm1_weight", "q_weight", "k_weight", "v_weight", "o_weight",
     "norm2_weight", "gate_weight", "up_weight", "down_weight"}
KvBuffers == {"query", "key", "value", "attention_output", "attention_readback"}
StepBuffers ==
    {"hidden_token", "norm1", "q_projection", "k_projection", "v_projection",
     "mrope_query", "mrope_key", "attention_output", "o_projection",
     "attention_residual", "norm2", "gate", "up", "activation",
     "down_projection", "layer_output", "readback"}
PrefillBuffers ==
    {"prefill_hidden_storage", "prefill_norm1", "prefill_query", "prefill_key",
     "prefill_value", "prefill_context", "prefill_output", "prefill_norm2",
     "prefill_gate", "prefill_up", "prefill_activation"}
LogitsBuffers == {"normed_row", "logits", "top1_result"}

Filled(n, value) == [i \in 0 .. n - 1 |-> value]

(* The cache planes that are uploaded hold anything past the prefix;       *)
(* without an upload they are clear, as is every other buffer.             *)
CachePlane(name, uploaded) ==
    [n \in 0 .. LayersOf(kind) * Capacity - 1 |->
        IF uploaded = 0 THEN Zero
        ELSE IF n % Capacity >= uploaded THEN Poison
        ELSE Reference!Prefix(name, n \div Capacity, n % Capacity)]

(* create and upload_initial_operands. *)
Uploaded(uploaded) ==
    [b \in Uniforms |-> Filled(1, <<1, 1>>)]
    @@ [b \in {"key_cache"} |-> CachePlane("prefix_key", uploaded)]
    @@ [b \in {"value_cache"} |-> CachePlane("prefix_value", uploaded)]
    @@ [b \in KvBuffers \union StepBuffers \union LogitsBuffers |->
            Filled(1, Zero)]
    @@ [b \in {"finish_key_readback", "finish_value_readback"} |->
            Filled(LayersOf(kind) * Capacity, Zero)]
    @@ (IF kind = "kv" THEN <<>>
        ELSE [b \in LayerWeights |->
                  [l \in 0 .. LayersOf(kind) - 1 |-> Weight(b, l)]]
             @@ [b \in {"rope_cos"} |-> [p \in 0 .. Capacity - 1 |-> Weight("cos", p)]]
             @@ [b \in {"rope_sin"} |-> [p \in 0 .. Capacity - 1 |-> Weight("sin", p)]])
    @@ (IF kind # "stack" THEN <<>>
        ELSE [b \in {"hidden_pingpong"} |-> Filled(2, Zero)]
             @@ [b \in {"split_partials"} |-> Filled(Capacity, Zero)]
             @@ [b \in {"final_norm_weight"} |-> Filled(1, Weight("final_norm", 0))]
             @@ [b \in {"lm_head_weight"} |-> Filled(1, Weight("lm_head", 0))]
             @@ [b \in {"zero_bias"} |-> Filled(1, Zero)]
             @@ [b \in PrefillBuffers |-> Filled(Capacity, Zero)])

One(buffer) == Slice(buffer, 0, 1)
Of(buffer, l) == Slice(buffer, l, 1)
Plane(cache, l) == Slice(cache, l * Capacity, Capacity)
Prompt(buffer) == Slice(buffer, 0, Capacity)
U(buffer) == [buffer |-> buffer, at |-> 0]
-----------------------------------------------------------------------------
(* One token through the key-value session.                                *)

AppendAndAttend(query, key, value, append, attend) ==
    <<Command("kv_append", <<key, value, Plane("key_cache", 0),
                             Plane("value_cache", 0)>>, append),
      Command("gqa", <<query, Plane("key_cache", 0), Plane("value_cache", 0),
                       One("attention_output")>>, attend)>>

KvStep ==
    AppendAndAttend(One("query"), One("key"), One("value"),
                    U("append_uniform"), U("attention_uniform"))
    \o <<Command("copy", <<One("attention_output"), One("attention_readback")>>, 1)>>

(* One token through the attention block of layer l, from `hidden` to      *)
(* attention_residual; `attention` is what comes between the rotation and  *)
(* the output projection.                                                  *)
AttentionBlock(hidden, l, attention) ==
    <<Command("rms_norm", <<hidden, Of("norm1_weight", l), One("norm1")>>,
              U("rms_uniform")),
      Command("gemv", <<Of("q_weight", l), One("norm1"), One("q_projection")>>,
              U("gemv_q_uniform")),
      Command("gemv", <<Of("k_weight", l), One("norm1"), One("k_projection")>>,
              U("gemv_k_uniform")),
      Command("gemv", <<Of("v_weight", l), One("norm1"), One("v_projection")>>,
              U("gemv_v_uniform")),
      Command("mrope", <<One("q_projection"), One("k_projection"),
                         Prompt("rope_cos"), Prompt("rope_sin"),
                         One("mrope_query"), One("mrope_key")>>,
              U("mrope_uniform"))>>
    \o attention
    \o <<Command("gemv", <<Of("o_weight", l), One("attention_output"),
                           One("o_projection")>>, U("gemv_o_uniform")),
         Command("residual", <<hidden, One("o_projection"),
                               One("attention_residual")>>,
                 U("residual_uniform"))>>

LayerStep ==
    AttentionBlock(One("hidden_token"), 0,
                   AppendAndAttend(One("mrope_query"), One("mrope_key"),
                                   One("v_projection"), U("append_uniform"),
                                   U("attention_uniform")))

(* The rest of layer l, from attention_residual to `output`. *)
Mlp(l, output) ==
    <<Command("rms_norm", <<One("attention_residual"), Of("norm2_weight", l),
                            One("norm2")>>, U("rms2_uniform")),
      Command("gemv", <<Of("gate_weight", l), One("norm2"), One("gate")>>,
              U("gemv_gate_uniform")),
      Command("gemv", <<Of("up_weight", l), One("norm2"), One("up")>>,
              U("gemv_up_uniform")),
      Command("swiglu", <<One("gate"), One("up"), One("activation")>>,
              U("swiglu_uniform")),
      Command("gemv", <<Of("down_weight", l), One("activation"),
                        One("down_projection")>>, U("gemv_down_uniform")),
      Command("residual", <<One("attention_residual"), One("down_projection"),
                            output>>, U("residual2_uniform"))>>

FullLayerStep == LayerStep \o Mlp(0, One("layer_output"))
-----------------------------------------------------------------------------
(* One token, or a whole prompt, through the stack.                        *)

(* Layers read one slot of hidden_pingpong and write the other. *)
StackLayer(l) ==
    AttentionBlock(Of("hidden_pingpong", l % 2), l,
        <<Command("kv_append", <<One("mrope_key"), One("v_projection"),
                                 Plane("key_cache", l), Plane("value_cache", l)>>,
                  U("append_uniform")),
          Command("split_partial", <<One("mrope_query"), Plane("key_cache", l),
                                     Plane("value_cache", l),
                                     Prompt("split_partials")>>,
                  U("split_partial_uniform")),
          Command("split_merge", <<Prompt("split_partials"),
                                   Plane("key_cache", l), Plane("value_cache", l),
                                   One("attention_output")>>,
                  U("split_merge_uniform"))>>)
    \o Mlp(l, Of("hidden_pingpong", (l + 1) % 2))

StackStep ==
    FlattenSeq([i \in 1 .. Layers |-> StackLayer(i - 1)])
    \o <<Command("copy", <<Of("hidden_pingpong", 0), One("readback")>>, 1)>>

(* A projection of the whole prompt, with the bias of zeros. *)
Project(from, weight, l, to, uniform) ==
    Command("projection", <<Prompt(from), Of(weight, l), One("zero_bias"),
                            Prompt(to)>>, U(uniform))

(* The scratch buffers are used more than once: the query projection is in *)
(* prefill_context, and the rotated keys are in prefill_norm1.  Mutant:    *)
(* the keys are rotated in place.                                          *)
PrefillAttentionInPlace(l) ==
    <<Command("rms_norm", <<Prompt("prefill_hidden_storage"),
                            Of("norm1_weight", l), Prompt("prefill_norm1")>>,
              U("rms_uniform")),
      Project("prefill_norm1", "q_weight", l, "prefill_context", "gemv_q_uniform"),
      Project("prefill_norm1", "k_weight", l, "prefill_key", "gemv_k_uniform"),
      Project("prefill_norm1", "v_weight", l, "prefill_value", "gemv_v_uniform"),
      Command("prefill_mrope", <<Prompt("prefill_context"), Prompt("prefill_key"),
                                 Prompt("rope_cos"), Prompt("rope_sin"),
                                 Prompt("prefill_query"), Prompt("prefill_key")>>,
              U("mrope_uniform")),
      Command("kv_append_range", <<Prompt("prefill_key"), Prompt("prefill_value"),
                                   Plane("key_cache", l), Plane("value_cache", l)>>,
              U("append_uniform")),
      Command("prefill_gqa", <<Prompt("prefill_query"), Plane("key_cache", l),
                               Plane("value_cache", l), Prompt("prefill_context")>>,
              U("attention_uniform")),
      Project("prefill_context", "o_weight", l, "prefill_output", "gemv_o_uniform"),
      Command("residual", <<Prompt("prefill_hidden_storage"),
                            Prompt("prefill_output"), Prompt("prefill_norm1")>>,
              U("residual_uniform"))>>
PrefillAttention(l) ==
    <<Command("rms_norm", <<Prompt("prefill_hidden_storage"),
                            Of("norm1_weight", l), Prompt("prefill_norm1")>>,
              U("rms_uniform")),
      Project("prefill_norm1", "q_weight", l, "prefill_context", "gemv_q_uniform"),
      Project("prefill_norm1", "k_weight", l, "prefill_key", "gemv_k_uniform"),
      Project("prefill_norm1", "v_weight", l, "prefill_value", "gemv_v_uniform"),
      Command("prefill_mrope", <<Prompt("prefill_context"), Prompt("prefill_key"),
                                 Prompt("rope_cos"), Prompt("rope_sin"),
                                 Prompt("prefill_query"), Prompt("prefill_norm1")>>,
              U("mrope_uniform")),
      Command("kv_append_range", <<Prompt("prefill_norm1"), Prompt("prefill_value"),
                                   Plane("key_cache", l), Plane("value_cache", l)>>,
              U("append_uniform")),
      Command("prefill_gqa", <<Prompt("prefill_query"), Plane("key_cache", l),
                               Plane("value_cache", l), Prompt("prefill_context")>>,
              U("attention_uniform")),
      Project("prefill_context", "o_weight", l, "prefill_output", "gemv_o_uniform"),
      Command("residual", <<Prompt("prefill_hidden_storage"),
                            Prompt("prefill_output"), Prompt("prefill_norm1")>>,
              U("residual_uniform"))>>

PrefillMlp(l) ==
    <<Command("rms_norm", <<Prompt("prefill_norm1"), Of("norm2_weight", l),
                            Prompt("prefill_norm2")>>, U("rms2_uniform")),
      Project("prefill_norm2", "gate_weight", l, "prefill_gate", "gemv_gate_uniform"),
      Project("prefill_norm2", "up_weight", l, "prefill_up", "gemv_up_uniform"),
      Command("swiglu", <<Prompt("prefill_gate"), Prompt("prefill_up"),
                          Prompt("prefill_activation")>>, U("swiglu_uniform")),
      Project("prefill_activation", "down_weight", l, "prefill_output",
              "gemv_down_uniform"),
      Command("residual", <<Prompt("prefill_norm1"), Prompt("prefill_output"),
                            Prompt("prefill_hidden_storage")>>,
              U("residual2_uniform"))>>

StackPrefill ==
    FlattenSeq([i \in 1 .. Layers |-> PrefillAttention(i - 1) \o PrefillMlp(i - 1)])
    \o <<Command("copy", <<Of("prefill_hidden_storage", prefill - 1),
                           One("readback")>>, 1)>>

(* prepare_logits_readout: the row of the prompt as long as no token has   *)
(* been appended to it, and the row of the last step after that.           *)
FromPrefill == prefill > 0 /\ tokens = prefill
StackLogits ==
    <<Command("rms_norm", <<IF FromPrefill
                            THEN Of("prefill_hidden_storage", prefill - 1)
                            ELSE Of("hidden_pingpong", 0),
                            One("final_norm_weight"), One("normed_row")>>,
              U("logits_rms_uniform")),
      Command("gemv", <<One("lm_head_weight"), One("normed_row"), One("logits")>>,
              U("logits_gemv_uniform"))>>

FinishCopies ==
    <<Command("copy", <<Slice("key_cache", 0, LayersOf(kind) * Capacity),
                        Slice("finish_key_readback", 0, LayersOf(kind) * Capacity)>>,
              LayersOf(kind) * Capacity),
      Command("copy", <<Slice("value_cache", 0, LayersOf(kind) * Capacity),
                        Slice("finish_value_readback", 0, LayersOf(kind) * Capacity)>>,
              LayersOf(kind) * Capacity)>>
-----------------------------------------------------------------------------
(* Calls.                                                                  *)

(* The words of the uniforms.  plan_cache_transition: the token is         *)
(* appended at row t, and attends to the rows up to its own, in chunks.    *)
(* Mutant: the chunks are those of the tokens before it.                   *)
SplitWordsBefore(t) == <<t + 1, (t + ChunkSize - 1) \div ChunkSize>>
SplitWords(t) == <<t + 1, (t + ChunkSize) \div ChunkSize>>

StepWords(t, u) ==
    CASE u = "append_uniform" -> <<t, Capacity>>
      [] u = "attention_uniform" -> <<t + 1>>
      [] u \in SplitUniforms -> SplitWords(t)
      [] u = "mrope_uniform" -> <<t, Capacity>>
      [] OTHER -> <<1>>

StepUniforms ==
    CASE kind = "kv" -> KvUniforms
      [] kind = "layer" -> LayerUniforms
      [] kind = "full" -> FullUniforms
      [] kind = "stack" -> (FullUniforms \ {"attention_uniform"}) \union SplitUniforms

(* The prefill shares the uniforms of the step. *)
PrefillWords(u) ==
    IF u \in {"append_uniform", "mrope_uniform"} THEN <<prefill, Capacity>>
    ELSE <<prefill>>

(* queue.writeBuffer takes effect before the submission that follows. *)
WithWords(m, words) ==
    [b \in DOMAIN m |-> IF b \in DOMAIN words THEN Filled(1, words[b]) ELSE m[b]]
WithRow(m, buffer, r) == [m EXCEPT ![buffer][0] = r]

KvInput(m) ==
    WithRow(WithRow(WithRow(m, "query", Reference!Operand("query", tokens)),
                    "key", Reference!Operand("key", tokens)),
            "value", Reference!Operand("value", tokens))
LayerInput(m) == WithRow(m, "hidden_token", Reference!Hidden(tokens))
StackInput(m) == WithRow(m, "hidden_pingpong", Reference!Hidden(tokens))
StepInput(m) ==
    CASE kind = "kv" -> KvInput(m)
      [] kind \in {"layer", "full"} -> LayerInput(m)
      [] kind = "stack" -> StackInput(m)

Encodes(what, writes, encoded) ==
    /\ phase = "ready"
    /\ phase' = "encoded"
    /\ call' = what
    /\ memory' = writes
    /\ commands' = encoded
    /\ UNCHANGED <<kind, prefix, prefill, tokens, row, answer>>

(* A prefix is uploaded with its caches; a prompt to prefill has none. *)
Begin ==
    /\ phase = "closed"
    /\ \/ /\ prefix' \in 1 .. Capacity - 1
          /\ prefill' = 0
       \/ /\ kind = "stack"
          /\ prefix' = 0
          /\ prefill' \in 1 .. Capacity
    /\ tokens' = prefix'
    /\ memory' = Uploaded(prefix')
    /\ phase' = "ready"
    /\ row' = Nothing
    /\ answer' = Nothing
    /\ UNCHANGED <<kind, commands, call>>

(* Where the cache plan begins: after the prefix, or after the prompt. *)
InitialTokens ==
    IF prefill = 0 THEN prefix
    ELSE IF prefill < Capacity THEN prefill ELSE Capacity - 1

(* What the layer and the full-layer session return is copied out. *)
LayerStepRead ==
    LayerStep \o <<Command("copy", <<One("attention_residual"), One("readback")>>, 1)>>
FullLayerStepRead ==
    FullLayerStep \o <<Command("copy", <<One("layer_output"), One("readback")>>, 1)>>

CallStep ==
    /\ tokens \in InitialTokens .. Capacity - 1
    /\ Encodes(<<"step">>,
               WithWords(StepInput(memory),
                         [u \in StepUniforms |-> StepWords(tokens, u)]),
               CASE kind = "kv" -> KvStep
                 [] kind = "layer" -> LayerStepRead
                 [] kind = "full" -> FullLayerStepRead
                 [] kind = "stack" -> StackStep)

PromptRows ==
    [i \in 0 .. Capacity - 1 |->
        IF i < prefill THEN Reference!Hidden(i)
        ELSE memory["prefill_hidden_storage"][i]]

CallPrefill ==
    /\ prefill > 0 /\ tokens = 0
    /\ Encodes(<<"prefill", prefill>>,
               WithWords([memory EXCEPT !["prefill_hidden_storage"] = PromptRows],
                         [u \in FullUniforms |-> PrefillWords(u)]),
               StackPrefill)

(* No uniform is written: those of the readout are never changed. *)
CallReadout(operation) ==
    /\ kind = "stack"
    /\ IF prefill > 0 THEN tokens >= 1 ELSE tokens > prefix
    /\ Encodes(<<operation>>, memory,
               IF operation = "logits"
               THEN StackLogits \o <<Command("copy", <<One("logits"), One("readback")>>, 1)>>
               ELSE StackLogits \o
                    <<Command("top1", <<One("logits"), One("top1_result")>>,
                              U("logits_gemv_uniform")),
                      Command("copy", <<One("top1_result"), One("readback")>>, 1)>>)

CallFinish == Encodes(<<"finish">>, memory, FinishCopies)

(* The submission runs; what it reads back is mapped and read. *)
Runs ==
    /\ phase = "encoded"
    /\ memory' = Submitted(memory, commands)
    /\ phase' = "ran"
    /\ UNCHANGED <<kind, prefix, prefill, tokens, commands, call, row, answer>>

Readback ==
    IF call[1] = "finish"
    THEN [l \in 0 .. LayersOf(kind) - 1 |->
             [keys |-> [i \in 1 .. tokens |->
                           memory["finish_key_readback"][l * Capacity + i - 1]],
              values |-> [i \in 1 .. tokens |->
                             memory["finish_value_readback"][l * Capacity + i - 1]]]]
    ELSE IF kind = "kv" THEN memory["attention_readback"][0]
    ELSE memory["readback"][0]

Returns ==
    /\ phase = "ran"
    /\ answer' = Readback
    /\ row' = IF call[1] \in {"step", "prefill"} THEN Readback ELSE row
    /\ tokens' = CASE call[1] = "step" -> tokens + 1
                   [] call[1] = "prefill" -> prefill
                   [] OTHER -> tokens
    /\ phase' = IF call[1] = "finish" THEN "closed" ELSE "ready"
    /\ commands' = <<>>
    /\ call' = Nothing
    /\ UNCHANGED <<kind, prefix, prefill, memory>>

(* Whatever fails leaves the session poisoned. *)
Fails ==
    /\ phase \in {"encoded", "ran"}
    /\ phase' = "poisoned"
    /\ commands' = <<>>
    /\ call' = Nothing
    /\ UNCHANGED <<kind, prefix, prefill, tokens, memory, row, answer>>

Abort ==
    /\ phase \in {"ready", "poisoned"}
    /\ phase' = "closed"
    /\ UNCHANGED <<kind, prefix, prefill, tokens, memory, commands, call, row, answer>>

Init ==
    /\ kind \in Kind
    /\ phase = "closed"
    /\ prefix = 0 /\ prefill = 0
    /\ tokens = 0
    /\ memory = Uploaded(0)
    /\ commands = <<>>
    /\ call = Nothing
    /\ row = Nothing
    /\ answer = Nothing

Next ==
    \/ Begin \/ CallStep \/ CallPrefill
    \/ \E operation \in {"logits", "top1"} : CallReadout(operation)
    \/ CallFinish \/ Runs \/ Returns \/ Fails \/ Abort

Spec == Init /\ [][Next]_vars
-----------------------------------------------------------------------------
(* Every session computes what the CPU reference does: the rows it returns *)
(* and the caches it leaves.  A row left over from another token, layer or *)
(* operation, in a scratch buffer that is used twice, in a uniform or past *)
(* the prefix of a cache, would show in it.                                *)
ComputesReference == Reference!Spec

(* No dispatch binds a buffer it writes a second time, where the device    *)
(* would refuse the whole submission.                                      *)
DispatchesAdmissible == \A i \in DOMAIN commands : Admissible(commands[i])
=============================================================================
