------------------------------ MODULE Tensors ------------------------------
(***************************************************************************)
(* Rows of f32 as terms.  A row is what the arithmetic below made of other *)
(* rows, so two rows are equal exactly if they were computed the same way  *)
(* from the same inputs.  Rounding, and the order in which one sum is      *)
(* accumulated, are left out: the repository compares them within a        *)
(* tolerance.  A tensor is a sequence of rows, token-major.                *)
(***************************************************************************)
EXTENDS Integers, Sequences

LOCAL INSTANCE SequencesExt

Zero == <<"zero">>                      \* a cleared row; a bias of zeros
Weight(name, layer) == <<"weight", name, layer>>

Rms(weight, x) == <<"rms", weight, x>>
Centred(weight, bias, x) == <<"layer_norm", weight, bias, x>>
(* A zero bias is no bias. *)
Linear(weight, bias, x) ==
    IF bias = Zero THEN <<"linear", weight, x>>
    ELSE <<"affine", weight, bias, x>>
Rotated(x, cos, sin) == <<"rotated", x, cos, sin>>
Attended(query, keys, values) == <<"attended", query, keys, values>>
Gated(gate, up) == <<"gated", gate, up>>
Gelu(x) == <<"gelu", x>>
GeluErf(x) == <<"gelu_erf", x>>
Added(x, y) == <<"added", x, y>>
Gathered(rows) == <<"gathered", rows>>
Best(x) == <<"best", x>>

(* The softmax of some of the keys, not yet divided by its denominator: a  *)
(* maximum, a sum of weights and a weighted sum of values.                 *)
PartlyAttended(query, keys, values) == <<"partly", query, keys, values>>

(* Rescaled to their common maximum, partial softmaxes of one query add up *)
(* to the softmax of all their keys.                                       *)
Merged(partials) ==
    IF \A i \in DOMAIN partials : /\ partials[i][1] = "partly"
                                  /\ partials[i][2] = partials[1][2]
    THEN Attended(partials[1][2],
                  FlattenSeq([i \in DOMAIN partials |-> partials[i][3]]),
                  FlattenSeq([i \in DOMAIN partials |-> partials[i][4]]))
    ELSE <<"mixed", partials>>
=============================================================================
