-------------------------- MODULE ReferenceDecoder --------------------------
(***************************************************************************)
(* What a decoder session promises: every operation returns what the CPU   *)
(* reference computes from the operations before it.  A session begins     *)
(* with some cached tokens, or none; a prefill or a step appends tokens    *)
(* and returns the last row it computed; a readout classifies that row; an *)
(* operation that is lost takes the session with it.                       *)
(***************************************************************************)
EXTENDS CpuReference

CONSTANTS Layers,       \* layers of a stack
          Capacity      \* rows of a cache

Kind == {"kv", "layer", "full", "stack"}
LayersOf(k) == IF k = "stack" THEN Layers ELSE 1

VARIABLES
    kind,       \* the session, if there is one
    status,     \* "closed", "ready", "busy", or "lost"
    caches,     \* one per layer
    row,        \* the row the last prefill or step returned
    asked,      \* the operation in progress
    answer      \* what the last operation returned

vars == <<kind, status, caches, row, asked, answer>>

Nothing == <<>>

(* The inputs of position p, the tables, the weights and the caches of a   *)
(* session that begins with tokens.                                        *)
Hidden(p) == Weight("hidden", p)
Operand(name, p) == Weight(name, p)
Table(name, first, last) == [i \in 1 .. last - first |-> Weight(name, first + i - 1)]
LayerWeights(l) ==
    [input_norm |-> Weight("norm1_weight", l),
     query |-> Weight("q_weight", l),
     key |-> Weight("k_weight", l),
     value |-> Weight("v_weight", l),
     attention_output |-> Weight("o_weight", l),
     post_attention_norm |-> Weight("norm2_weight", l),
     gate |-> Weight("gate_weight", l),
     up |-> Weight("up_weight", l),
     down |-> Weight("down_weight", l)]
Prefix(name, l, p) == <<name, l, p>>
PrefixCache(l, tokens) ==
    [keys |-> [i \in 1 .. tokens |-> Prefix("prefix_key", l, i - 1)],
     values |-> [i \in 1 .. tokens |-> Prefix("prefix_value", l, i - 1)]]

CachedTokens == Len(caches[0].keys)
-----------------------------------------------------------------------------
Init ==
    /\ kind \in Kind
    /\ status = "closed"
    /\ caches = [l \in 0 .. LayersOf(kind) - 1 |-> EmptyCache]
    /\ row = Nothing
    /\ asked = Nothing
    /\ answer = Nothing

Begin ==
    /\ status = "closed"
    /\ \E tokens \in 0 .. Capacity :
          caches' = [l \in DOMAIN caches |-> PrefixCache(l, tokens)]
    /\ status' = "ready"
    /\ row' = Nothing
    /\ answer' = Nothing
    /\ UNCHANGED <<kind, asked>>

(* A step takes the inputs of the next position, a prefill of the first n. *)
Ask ==
    /\ status = "ready"
    /\ asked' \in {<<"step">>, <<"logits">>, <<"top1">>, <<"finish">>}
                  \union ({"prefill"} \X (1 .. Capacity))
    /\ asked'[1] = "step" => CachedTokens < Capacity
    /\ asked'[1] = "prefill" => CachedTokens = 0
    /\ asked'[1] \in {"logits", "top1"} => row # Nothing
    /\ status' = "busy"
    /\ UNCHANGED <<kind, caches, row, answer>>

Returns(result, newCaches) ==
    /\ answer' = result
    /\ caches' = newCaches
    /\ status' = IF asked[1] = "finish" THEN "closed" ELSE "ready"
    /\ row' = IF asked[1] \in {"step", "prefill"} THEN result ELSE row
    /\ asked' = Nothing
    /\ UNCHANGED kind

AnswerKvStep ==
    LET p == CachedTokens
        cache == append_decoder_kv_cache(caches[0], <<Operand("key", p)>>,
                                         <<Operand("value", p)>>)
    IN  Returns(decode_gqa_f32(<<Operand("query", p)>>, cache)[1],
                [l \in {0} |-> cache])

AnswerLayerStep ==
    LET p == CachedTokens
        trace == decoder_layer_decode_f32(
                     <<Hidden(p)>>, LayerWeights(0), Table("cos", p, p + 1),
                     Table("sin", p, p + 1), caches[0])
    IN  Returns((IF kind = "layer" THEN trace.attention_residual
                 ELSE trace.output)[1],
                [l \in {0} |-> trace.cache])

StackWeights == [l \in 0 .. Layers - 1 |-> LayerWeights(l)]
FinalNorm == Weight("final_norm", 0)

AnswerStackStep ==
    LET p == CachedTokens
        trace == decoder_stack_decode_f32(
                     <<Hidden(p)>>, Layers, StackWeights, FinalNorm,
                     Table("cos", p, p + 1), Table("sin", p, p + 1), caches)
    IN  Returns(trace.output[1], trace.caches)

AnswerPrefill ==
    LET n == asked[2]
        trace == decoder_stack_prefill_f32(
                     [i \in 1 .. n |-> Hidden(i - 1)], Layers, StackWeights,
                     FinalNorm, Table("cos", 0, n), Table("sin", 0, n))
    IN  Returns(trace.output[n], trace.caches)

Logits == prefill_last_logits_f32(rms_norm_f32(<<row>>, FinalNorm),
                                  Weight("lm_head", 0))[1]

Answer ==
    /\ status = "busy"
    /\ \/ asked[1] = "step" /\ kind = "kv" /\ AnswerKvStep
       \/ asked[1] = "step" /\ kind \in {"layer", "full"} /\ AnswerLayerStep
       \/ asked[1] = "step" /\ kind = "stack" /\ AnswerStackStep
       \/ asked[1] = "prefill" /\ AnswerPrefill
       \/ asked[1] = "logits" /\ Returns(Logits, caches)
       \/ asked[1] = "top1" /\ Returns(Best(Logits), caches)
       \/ asked[1] = "finish" /\ Returns(caches, caches)

Lose ==
    /\ status = "busy"
    /\ status' = "lost"
    /\ asked' = Nothing
    /\ UNCHANGED <<kind, caches, row, answer>>

Close ==
    /\ status \in {"ready", "lost"}
    /\ status' = "closed"
    /\ UNCHANGED <<kind, caches, row, asked, answer>>

Next == Begin \/ Ask \/ Answer \/ Lose \/ Close

Spec == Init /\ [][Next]_vars
=============================================================================
