--------------------------- MODULE DispatchProofs ---------------------------
(***************************************************************************)
(* Proofs about DispatchGeometry, for any sizes, any limit of an axis and  *)
(* any calls: every dispatch that a plan yields writes what the plan       *)
(* promises, each element from one thread.                                 *)
(*                                                                         *)
(* For each shader the thread that owns an element is named: a function    *)
(* Own from the promised elements to workgroups and places, such that a    *)
(* thread writes exactly what it owns.  The rest is counting.              *)
(***************************************************************************)
EXTENDS DispatchGeometry, WellFoundedInduction, FiniteSetTheorems,
        FunctionTheorems, TLAPS

NatOrder == {p \in Nat \X Nat : p[1] < p[2]}
LEMMA NatOrderIsWellFounded == IsWellFoundedOn(NatOrder, Nat)
<1>1. NatOrder = OpToRel(<, Nat)
  BY DEF NatOrder, OpToRel
<1> QED
  BY <1>1, NatLessThanWellFounded, Zenon

LEMMA Least ==
    ASSUME NEW T, T \subseteq Nat, T # {}
    PROVE  \E n \in T : \A m \in T : n <= m
<1>1. PICK n \in T : \A m \in T : ~(<<m, n>> \in NatOrder)
  BY NatOrderIsWellFounded, WFMin, Zenon
<1>2. ASSUME NEW m \in T PROVE n <= m
  <2>1. n \in Nat /\ m \in Nat
    OBVIOUS
  <2>2. ~(m < n)
    BY <1>1, <2>1 DEF NatOrder
  <2> QED
    BY <2>1, <2>2
<1> QED
  BY <1>2

LEMMA Induct ==
    ASSUME NEW S, 0 \in S, \A n \in Nat : n \in S => n + 1 \in S
    PROVE  Nat \subseteq S
<1> SUFFICES ASSUME Nat \ S # {} PROVE FALSE
  OBVIOUS
<1>1. PICK n \in Nat \ S : \A m \in Nat \ S : n <= m
  BY Least
<1>2. n - 1 \in Nat /\ n - 1 \in S
  BY <1>1
<1> QED
  BY <1>1, <1>2

(* Sets that start empty and get one more of the numbers up to n with each *)
(* step, as long as the step is good and something is left, have all of    *)
(* them after step n + 1.                                                  *)
LEMMA GrowsToAll ==
    ASSUME NEW n \in Nat, NEW d, NEW good, d[0] = {}, 0 \in good,
           \A k \in 0..n : k \in good /\ d[k] \subseteq 0..n /\ d[k] # 0..n =>
               /\ k + 1 \in good
               /\ \E s \in (0..n) \ d[k] : d[k + 1] = d[k] \union {s}
    PROVE  n + 1 \in good /\ d[n + 1] = 0..n
<1> DEFINE Counted(k) == /\ d[k] \subseteq 0..n /\ k \in good
                         /\ IsFiniteSet(d[k]) /\ Cardinality(d[k]) = k
           S == {k \in Nat : k \in 0..n + 1 => Counted(k)}
<1>1. IsFiniteSet(0..n) /\ Cardinality(0..n) = n + 1
  BY FS_Interval
<1>2. 0 \in S
  BY FS_EmptySet
<1>3. ASSUME NEW k \in 0..n, Counted(k) PROVE d[k] # 0..n
  BY <1>1, <1>3
<1>4. ASSUME NEW k \in Nat, k \in S PROVE k + 1 \in S
  <2> SUFFICES ASSUME k + 1 \in 0..n + 1 PROVE Counted(k + 1)
    OBVIOUS
  <2>1. k \in 0..n /\ Counted(k)
    BY <1>4
  <2>2. d[k] # 0..n
    BY <1>3, <2>1
  <2>3. /\ k + 1 \in good
        /\ \E s \in (0..n) \ d[k] : d[k + 1] = d[k] \union {s}
    BY <2>1, <2>2
  <2>4. PICK s \in (0..n) \ d[k] : d[k + 1] = d[k] \union {s}
    BY <2>3
  <2>5. /\ IsFiniteSet(d[k] \union {s})
        /\ Cardinality(d[k] \union {s}) = k + 1
    BY <2>1, <2>4, FS_AddElement
  <2> QED
    BY <2>1, <2>3, <2>4, <2>5
<1> HIDE DEF S
<1>5. Nat \subseteq S
  BY <1>2, <1>4, Induct
<1>6. \A k \in 0..n + 1 : Counted(k)
  BY <1>5 DEF S
<1>7. d[n + 1] = 0..n
  <2>1. Counted(n + 1)
    BY <1>6
  <2> QED
    BY <1>1, <2>1, FS_Subset
<1> QED
  BY <1>6, <1>7

(* What Runs finds of a dispatch whose outcome is "complete". *)
Complete(d) ==
    /\ {write[3] : write \in Writes(d)} = Promised(d)
    /\ Cardinality(Writes(d)) = Cardinality(Promised(d))

Owners(d) == Box(d.groups) \X Box(d.size)
OwnedBy(d, Own) ==
    /\ IsFiniteSet(Promised(d))
    /\ \A e \in Promised(d) : Own[e] \in Owners(d)
    /\ \A w \in Box(d.groups), l \in Box(d.size) :
           \A e : e \in WrittenBy(d, w, l) <=>
                     e \in Promised(d) /\ Own[e] = <<w, l>>

LEMMA WritesAre ==
    ASSUME NEW d, NEW t
    PROVE  t \in Writes(d) <=>
              \E w \in Box(d.groups), l \in Box(d.size) :
                  \E e \in WrittenBy(d, w, l) : t = <<w, l, e>>
<1> DEFINE By(w, l) == {<<w, l, e>> : e \in WrittenBy(d, w, l)}
           All == {By(w, l) : w \in Box(d.groups), l \in Box(d.size)}
<1>1. Writes(d) = UNION All
  BY DEF Writes
<1>2. ASSUME NEW w \in Box(d.groups), NEW l \in Box(d.size),
             NEW e \in WrittenBy(d, w, l), t = <<w, l, e>>
      PROVE  t \in UNION All
  <2>1. t \in By(w, l)
    BY <1>2
  <2>2. By(w, l) \in All
    OBVIOUS
  <2> HIDE DEF All, By
  <2> QED
    BY <2>1, <2>2
<1>3. ASSUME t \in UNION All
      PROVE  \E w \in Box(d.groups), l \in Box(d.size) :
                 \E e \in WrittenBy(d, w, l) : t = <<w, l, e>>
  <2>1. PICK X \in All : t \in X
    BY <1>3
  <2>2. PICK w \in Box(d.groups), l \in Box(d.size) : X = By(w, l)
    OBVIOUS
  <2> QED
    BY <2>1, <2>2
<1> QED
  BY <1>1, <1>2, <1>3

(* A dispatch whose elements have owners is complete. *)
LEMMA OwnersComplete ==
    ASSUME NEW d, NEW Own, OwnedBy(d, Own)
    PROVE  Complete(d)
<1> DEFINE P == Promised(d)
           W == Writes(d)
           Of == [e \in P |-> <<Own[e][1], Own[e][2], e>>]
<1>1. ASSUME NEW t \in W
      PROVE  t[3] \in P /\ t = Of[t[3]]
  <2>1. PICK w \in Box(d.groups), l \in Box(d.size) :
            \E e \in WrittenBy(d, w, l) : t = <<w, l, e>>
    BY WritesAre
  <2>2. PICK e \in WrittenBy(d, w, l) : t = <<w, l, e>>
    BY <2>1
  <2>3. e \in P /\ Own[e] = <<w, l>>
    BY <2>2 DEF OwnedBy
  <2> QED
    BY <2>2, <2>3
<1>2. ASSUME NEW e \in P
      PROVE  Of[e] \in W /\ Of[e][3] = e
  <2>1. Own[e] \in Box(d.groups) \X Box(d.size)
    BY DEF OwnedBy, Owners
  <2>2. PICK w \in Box(d.groups), l \in Box(d.size) : Own[e] = <<w, l>>
    BY <2>1
  <2>3. e \in WrittenBy(d, w, l)
    BY <2>2 DEF OwnedBy
  <2>4. Of[e] = <<w, l, e>>
    BY <2>2
  <2> QED
    BY <2>3, <2>4, WritesAre
<1>3. {write[3] : write \in W} = P
  <2> HIDE DEF P, W, Of
  <2>1. \A t \in W : t[3] \in P
    BY <1>1
  <2>2. \A e \in P : \E t \in W : t[3] = e
    BY <1>2
  <2> QED
    BY <2>1, <2>2
<1>4. Of \in Bijection(P, W)
  <2>1. Of \in [P -> W]
    BY <1>2
  <2>2. \A a, b \in P : Of[a] = Of[b] => a = b
    BY <1>2
  <2>3. \A t \in W : \E e \in P : Of[e] = t
    BY <1>1
  <2> QED
    BY <2>1, <2>2, <2>3, Fun_IsBij
<1>5. ExistsBijection(P, W)
  BY <1>4 DEF ExistsBijection
<1>6. Cardinality(W) = Cardinality(P)
  BY <1>5, FS_Bijection DEF OwnedBy
<1> QED
  BY <1>3, <1>6 DEF Complete
-----------------------------------------------------------------------------
(* What a thread of each shader writes, by the size of its workgroup.      *)

At(size, w, l) == [axis \in 1 .. 3 |-> w[axis] * size[axis] + l[axis]]

LEMMA LinearShaders ==
    ASSUME NEW d, NEW w, NEW l
    PROVE  /\ d.kernel = "layer_norm_f32" =>
                 WrittenBy(d, w, l) = layer_norm_f32(d.words, At(<<64, 1, 1>>, w, l))
           /\ d.kernel = "layer_norm_f16" =>
                 WrittenBy(d, w, l) = layer_norm_f16(d.words, At(<<64, 1, 1>>, w, l))
           /\ d.kernel = "rms_norm_f32" =>
                 WrittenBy(d, w, l) = rms_norm_f32(d.words, At(<<64, 1, 1>>, w, l))
           /\ d.kernel = "gemv_f32" =>
                 WrittenBy(d, w, l) = gemv_f32(d.words, At(<<64, 1, 1>>, w, l))
           /\ d.kernel = "silu_f32" =>
                 WrittenBy(d, w, l) = silu_f32(d.words, At(<<64, 1, 1>>, w, l))
           /\ d.kernel = "gelu_tanh_f32" =>
                 WrittenBy(d, w, l) = gelu_tanh_f32(d.words, At(<<64, 1, 1>>, w, l))
           /\ d.kernel = "gelu_tanh_f16" =>
                 WrittenBy(d, w, l) = gelu_tanh_f16(d.words, At(<<64, 1, 1>>, w, l))
           /\ d.kernel = "gelu_erf_f32" =>
                 WrittenBy(d, w, l) = gelu_erf_f32(d.words, At(<<64, 1, 1>>, w, l))
           /\ d.kernel = "gelu_erf_f16" =>
                 WrittenBy(d, w, l) = gelu_erf_f16(d.words, At(<<64, 1, 1>>, w, l))
           /\ d.kernel = "add_f32" =>
                 WrittenBy(d, w, l) = add_f32(d.words, At(<<64, 1, 1>>, w, l))
           /\ d.kernel = "add_f16" =>
                 WrittenBy(d, w, l) = add_f16(d.words, At(<<64, 1, 1>>, w, l))
           /\ d.kernel = "rope_neox_f32" =>
                 WrittenBy(d, w, l) = rope_neox_f32(d.words, At(<<64, 1, 1>>, w, l))
           /\ d.kernel = "vision_rope_2d_f32" =>
                 WrittenBy(d, w, l) = vision_rope_2d_f32(d.words, At(<<64, 1, 1>>, w, l))
           /\ d.kernel = "vision_rope_2d_f16" =>
                 WrittenBy(d, w, l) = vision_rope_2d_f16(d.words, At(<<64, 1, 1>>, w, l))
           /\ d.kernel = "projector_merge_2x2_f32" =>
                 WrittenBy(d, w, l) = projector_merge_2x2_f32(d.words, At(<<64, 1, 1>>, w, l))
           /\ d.kernel = "projector_merge_2x2_f16" =>
                 WrittenBy(d, w, l) = projector_merge_2x2_f16(d.words, At(<<64, 1, 1>>, w, l))
           /\ d.kernel = "decoder_kv_append_f32" =>
                 WrittenBy(d, w, l) = decoder_kv_append_f32(d.words, At(<<64, 1, 1>>, w, l))
           /\ d.kernel = "decoder_kv_append_range_f32" =>
                 WrittenBy(d, w, l) = decoder_kv_append_range_f32(d.words, At(<<64, 1, 1>>, w, l))
           /\ d.kernel = "decoder_gqa_f32" =>
                 WrittenBy(d, w, l) = decoder_gqa_f32(d.words, At(<<64, 1, 1>>, w, l))
           /\ d.kernel = "decoder_prefill_gqa_f32" =>
                 WrittenBy(d, w, l) = decoder_prefill_gqa_f32(d.words, At(<<64, 1, 1>>, w, l))
           /\ d.kernel = "decoder_prefill_mrope_f32" =>
                 WrittenBy(d, w, l) = decoder_prefill_mrope_f32(d.words, At(<<64, 1, 1>>, w, l))
           /\ d.kernel = "decoder_swiglu_f32" =>
                 WrittenBy(d, w, l) = decoder_swiglu_f32(d.words, At(<<64, 1, 1>>, w, l))
<1>1. d.kernel = "layer_norm_f32" =>
         WrittenBy(d, w, l) = layer_norm_f32(d.words, At(<<64, 1, 1>>, w, l))
  BY DEF WrittenBy, WorkgroupSize, Cooperative, Tile, At
<1>2. d.kernel = "layer_norm_f16" =>
         WrittenBy(d, w, l) = layer_norm_f16(d.words, At(<<64, 1, 1>>, w, l))
  BY DEF WrittenBy, WorkgroupSize, Cooperative, Tile, At
<1>3. d.kernel = "rms_norm_f32" =>
         WrittenBy(d, w, l) = rms_norm_f32(d.words, At(<<64, 1, 1>>, w, l))
  BY DEF WrittenBy, WorkgroupSize, Cooperative, Tile, At
<1>4. d.kernel = "gemv_f32" =>
         WrittenBy(d, w, l) = gemv_f32(d.words, At(<<64, 1, 1>>, w, l))
  BY DEF WrittenBy, WorkgroupSize, Cooperative, Tile, At
<1>5. d.kernel = "silu_f32" =>
         WrittenBy(d, w, l) = silu_f32(d.words, At(<<64, 1, 1>>, w, l))
  BY DEF WrittenBy, WorkgroupSize, Cooperative, Tile, At
<1>6. d.kernel = "gelu_tanh_f32" =>
         WrittenBy(d, w, l) = gelu_tanh_f32(d.words, At(<<64, 1, 1>>, w, l))
  BY DEF WrittenBy, WorkgroupSize, Cooperative, Tile, At
<1>7. d.kernel = "gelu_tanh_f16" =>
         WrittenBy(d, w, l) = gelu_tanh_f16(d.words, At(<<64, 1, 1>>, w, l))
  BY DEF WrittenBy, WorkgroupSize, Cooperative, Tile, At
<1>8. d.kernel = "gelu_erf_f32" =>
         WrittenBy(d, w, l) = gelu_erf_f32(d.words, At(<<64, 1, 1>>, w, l))
  BY DEF WrittenBy, WorkgroupSize, Cooperative, Tile, At
<1>9. d.kernel = "gelu_erf_f16" =>
         WrittenBy(d, w, l) = gelu_erf_f16(d.words, At(<<64, 1, 1>>, w, l))
  BY DEF WrittenBy, WorkgroupSize, Cooperative, Tile, At
<1>10. d.kernel = "add_f32" =>
         WrittenBy(d, w, l) = add_f32(d.words, At(<<64, 1, 1>>, w, l))
  BY DEF WrittenBy, WorkgroupSize, Cooperative, Tile, At
<1>11. d.kernel = "add_f16" =>
         WrittenBy(d, w, l) = add_f16(d.words, At(<<64, 1, 1>>, w, l))
  BY DEF WrittenBy, WorkgroupSize, Cooperative, Tile, At
<1>12. d.kernel = "rope_neox_f32" =>
         WrittenBy(d, w, l) = rope_neox_f32(d.words, At(<<64, 1, 1>>, w, l))
  BY DEF WrittenBy, WorkgroupSize, Cooperative, Tile, At
<1>13. d.kernel = "vision_rope_2d_f32" =>
         WrittenBy(d, w, l) = vision_rope_2d_f32(d.words, At(<<64, 1, 1>>, w, l))
  BY DEF WrittenBy, WorkgroupSize, Cooperative, Tile, At
<1>14. d.kernel = "vision_rope_2d_f16" =>
         WrittenBy(d, w, l) = vision_rope_2d_f16(d.words, At(<<64, 1, 1>>, w, l))
  BY DEF WrittenBy, WorkgroupSize, Cooperative, Tile, At
<1>15. d.kernel = "projector_merge_2x2_f32" =>
         WrittenBy(d, w, l) = projector_merge_2x2_f32(d.words, At(<<64, 1, 1>>, w, l))
  BY DEF WrittenBy, WorkgroupSize, Cooperative, Tile, At
<1>16. d.kernel = "projector_merge_2x2_f16" =>
         WrittenBy(d, w, l) = projector_merge_2x2_f16(d.words, At(<<64, 1, 1>>, w, l))
  BY DEF WrittenBy, WorkgroupSize, Cooperative, Tile, At
<1>17. d.kernel = "decoder_kv_append_f32" =>
         WrittenBy(d, w, l) = decoder_kv_append_f32(d.words, At(<<64, 1, 1>>, w, l))
  BY DEF WrittenBy, WorkgroupSize, Cooperative, Tile, At
<1>18. d.kernel = "decoder_kv_append_range_f32" =>
         WrittenBy(d, w, l) = decoder_kv_append_range_f32(d.words, At(<<64, 1, 1>>, w, l))
  BY DEF WrittenBy, WorkgroupSize, Cooperative, Tile, At
<1>19. d.kernel = "decoder_gqa_f32" =>
         WrittenBy(d, w, l) = decoder_gqa_f32(d.words, At(<<64, 1, 1>>, w, l))
  BY DEF WrittenBy, WorkgroupSize, Cooperative, Tile, At
<1>20. d.kernel = "decoder_prefill_gqa_f32" =>
         WrittenBy(d, w, l) = decoder_prefill_gqa_f32(d.words, At(<<64, 1, 1>>, w, l))
  BY DEF WrittenBy, WorkgroupSize, Cooperative, Tile, At
<1>21. d.kernel = "decoder_prefill_mrope_f32" =>
         WrittenBy(d, w, l) = decoder_prefill_mrope_f32(d.words, At(<<64, 1, 1>>, w, l))
  BY DEF WrittenBy, WorkgroupSize, Cooperative, Tile, At
<1>22. d.kernel = "decoder_swiglu_f32" =>
         WrittenBy(d, w, l) = decoder_swiglu_f32(d.words, At(<<64, 1, 1>>, w, l))
  BY DEF WrittenBy, WorkgroupSize, Cooperative, Tile, At
<1> QED
  BY <1>1, <1>2, <1>3, <1>4, <1>5, <1>6, <1>7, <1>8, <1>9, <1>10, <1>11, <1>12, <1>13, <1>14, <1>15, <1>16, <1>17, <1>18, <1>19, <1>20, <1>21, <1>22

LEMMA FixedShaders ==
    ASSUME NEW d, NEW w, NEW l
    PROVE  /\ d.kernel = "decoder_gqa_split_merge_f32" =>
                 WrittenBy(d, w, l) = decoder_gqa_split_merge_f32(At(<<64, 1, 1>>, w, l))
           /\ d.kernel = "decoder_mrope_f32" =>
                 WrittenBy(d, w, l) = decoder_mrope_f32(At(<<64, 1, 1>>, w, l))
<1>1. d.kernel = "decoder_gqa_split_merge_f32" =>
         WrittenBy(d, w, l) = decoder_gqa_split_merge_f32(At(<<64, 1, 1>>, w, l))
  BY DEF WrittenBy, WorkgroupSize, Cooperative, Tile, At
<1>2. d.kernel = "decoder_mrope_f32" =>
         WrittenBy(d, w, l) = decoder_mrope_f32(At(<<64, 1, 1>>, w, l))
  BY DEF WrittenBy, WorkgroupSize, Cooperative, Tile, At
<1> QED
  BY <1>1, <1>2

LEMMA LocalShaders ==
    ASSUME NEW d, NEW w, NEW l
    PROVE  /\ d.kernel = "gemv_tiled_f32" =>
                 WrittenBy(d, w, l) = gemv_tiled_f32(d.words, w, l)
           /\ d.kernel = "vision_attention_f32" =>
                 WrittenBy(d, w, l) = vision_attention_f32(d.words, w, l)
           /\ d.kernel = "vision_attention_f16" =>
                 WrittenBy(d, w, l) = vision_attention_f16(d.words, w, l)
           /\ d.kernel = "vision_patch_projection_f32" =>
                 WrittenBy(d, w, l) = vision_patch_projection_f32(d.words, w, l)
           /\ d.kernel = "linear_projection_f16_weights" =>
                 WrittenBy(d, w, l) = linear_projection_f16_weights(d.words, w, l)
           /\ d.kernel = "linear_projection_f16" =>
                 WrittenBy(d, w, l) = linear_projection_f16(d.words, w, l)
           /\ d.kernel = "vision_qkv_fused_f16_weights" =>
                 WrittenBy(d, w, l) = vision_qkv_fused_f16_weights(d.words, w, l)
           /\ d.kernel = "decoder_gqa_split_partial_f32" =>
                 WrittenBy(d, w, l) = decoder_gqa_split_partial_f32(d.words, w, l)
<1>1. d.kernel = "gemv_tiled_f32" =>
         WrittenBy(d, w, l) = gemv_tiled_f32(d.words, w, l)
  BY DEF WrittenBy, WorkgroupSize, Cooperative, Tile, At
<1>2. d.kernel = "vision_attention_f32" =>
         WrittenBy(d, w, l) = vision_attention_f32(d.words, w, l)
  BY DEF WrittenBy, WorkgroupSize, Cooperative, Tile, At
<1>3. d.kernel = "vision_attention_f16" =>
         WrittenBy(d, w, l) = vision_attention_f16(d.words, w, l)
  BY DEF WrittenBy, WorkgroupSize, Cooperative, Tile, At
<1>4. d.kernel = "vision_patch_projection_f32" =>
         WrittenBy(d, w, l) = vision_patch_projection_f32(d.words, w, l)
  BY DEF WrittenBy, WorkgroupSize, Cooperative, Tile, At
<1>5. d.kernel = "linear_projection_f16_weights" =>
         WrittenBy(d, w, l) = linear_projection_f16_weights(d.words, w, l)
  BY DEF WrittenBy, WorkgroupSize, Cooperative, Tile, At
<1>6. d.kernel = "linear_projection_f16" =>
         WrittenBy(d, w, l) = linear_projection_f16(d.words, w, l)
  BY DEF WrittenBy, WorkgroupSize, Cooperative, Tile, At
<1>7. d.kernel = "vision_qkv_fused_f16_weights" =>
         WrittenBy(d, w, l) = vision_qkv_fused_f16_weights(d.words, w, l)
  BY DEF WrittenBy, WorkgroupSize, Cooperative, Tile, At
<1>8. d.kernel = "decoder_gqa_split_partial_f32" =>
         WrittenBy(d, w, l) = decoder_gqa_split_partial_f32(d.words, w, l)
  BY DEF WrittenBy, WorkgroupSize, Cooperative, Tile, At
<1> QED
  BY <1>1, <1>2, <1>3, <1>4, <1>5, <1>6, <1>7, <1>8

LEMMA SquareShaders ==
    ASSUME NEW d, NEW w, NEW l
    PROVE  /\ d.kernel = "gemm_f32" =>
                 WrittenBy(d, w, l) = gemm_f32(d.words, At(<<8, 8, 1>>, w, l))
           /\ d.kernel = "vision_qkv_fused_f32" =>
                 WrittenBy(d, w, l) = vision_qkv_fused_f32(d.words, At(<<8, 8, 1>>, w, l))
<1>1. d.kernel = "gemm_f32" =>
         WrittenBy(d, w, l) = gemm_f32(d.words, At(<<8, 8, 1>>, w, l))
  BY DEF WrittenBy, WorkgroupSize, Cooperative, Tile, At
<1>2. d.kernel = "vision_qkv_fused_f32" =>
         WrittenBy(d, w, l) = vision_qkv_fused_f32(d.words, At(<<8, 8, 1>>, w, l))
  BY DEF WrittenBy, WorkgroupSize, Cooperative, Tile, At
<1> QED
  BY <1>1, <1>2

-----------------------------------------------------------------------------
(* Quotients and remainders. *)

LEMMA Division ==
    ASSUME NEW v \in Nat, NEW a \in Nat \ {0}
    PROVE  v = a * (v \div a) + (v % a) /\ v \div a \in Nat /\ v % a \in 0..a - 1
<1>1. a \in Nat /\ a > 0
  OBVIOUS
<1>2. v = a * (v \div a) + (v % a)
  BY <1>1, Z3
<1>3. v % a \in 0..a - 1
  BY <1>1
<1>4. v \div a \in Nat
  BY <1>1
<1> QED
  BY <1>2, <1>3, <1>4

LEMMA Larger ==
    ASSUME NEW a \in Nat \ {0}, NEW x \in Int, NEW y \in Int, x < y
    PROVE  a * x + a <= a * y
<1>1. a * y = a * x + a * (y - x)
  OBVIOUS
<1>2. a * (y - x) >= a
  <2>1. y - x - 1 \in Nat
    OBVIOUS
  <2>2. a * (y - x - 1) >= 0
    BY <2>1
  <2>3. a * (y - x) = a * (y - x - 1) + a
    OBVIOUS
  <2> QED
    BY <2>2, <2>3
<1> QED
  BY <1>1, <1>2

LEMMA Fewer ==
    ASSUME NEW a \in Nat \ {0}, NEW x \in Int, NEW y \in Int, a * x < a * y
    PROVE  x < y
<1>1. y < x => a * y + a <= a * x
  BY Larger
<1>2. x = y => a * x = a * y
  OBVIOUS
<1>3. a * x \in Int /\ a * y \in Int
  OBVIOUS
<1> QED
  BY <1>1, <1>2, <1>3

(* Quotient and remainder are unique. *)
LEMMA Unique ==
    ASSUME NEW a \in Nat \ {0}, NEW p \in Int, NEW q \in Int,
           NEW r \in 0 .. a - 1, NEW s \in 0 .. a - 1,
           a * p + r = a * q + s
    PROVE  p = q /\ r = s
<1>1. p < q => a * p + a <= a * q
  BY Larger
<1>2. q < p => a * q + a <= a * p
  BY Larger
<1> QED
  BY <1>1, <1>2

LEMMA Quotient ==
    ASSUME NEW a \in Nat \ {0}, NEW q \in Nat, NEW r \in 0 .. a - 1
    PROVE  (a * q + r) \div a = q /\ (a * q + r) % a = r
<1> DEFINE v == a * q + r
<1>1. a * q \in Nat
  OBVIOUS
<1>2. v \in Nat
  BY <1>1
<1> HIDE DEF v
<1>3. v = a * (v \div a) + (v % a) /\ v \div a \in Nat /\ v % a \in 0..a - 1
  BY <1>2, Division
<1> DEFINE x == v \div a
           y == v % a
<1>4. v = a * x + y /\ x \in Nat /\ y \in 0..a - 1
  BY <1>3
<1> HIDE DEF x, y
<1>5. a * q + r = a * x + y
  BY <1>4 DEF v
<1>6. q = x /\ r = y
  BY <1>4, <1>5, Unique
<1> QED
  BY <1>6 DEF x, y, v

LEMMA CeilDivision ==
    ASSUME NEW n \in Nat, NEW a \in Nat \ {0}
    PROVE  /\ CeilDiv(n, a) \in Nat
           /\ n <= a * CeilDiv(n, a) /\ a * CeilDiv(n, a) < n + a
           /\ n > 0 => CeilDiv(n, a) > 0
           /\ \A i \in Below(n) : i \div a \in Below(CeilDiv(n, a))
<1> DEFINE c == CeilDiv(n, a)
           q == n \div a
           r == n % a
<1>1. q \in Nat /\ r \in 0 .. a - 1 /\ n = a * q + r
  BY Division
<1>2. c = q + (IF r = 0 THEN 0 ELSE 1)
  BY DEF CeilDiv
<1> HIDE DEF c, q, r
<1>3. a * (q + 1) = a * q + a
  BY <1>1
<1>4. c \in Nat /\ n <= a * c /\ a * c < n + a /\ (n > 0 => c > 0)
  <2>1. CASE r = 0
    <3>1. c = q /\ n = a * q
      BY <1>1, <1>2, <2>1
    <3>2. n > 0 => q # 0
      BY <1>1, <2>1
    <3> QED
      BY <1>1, <3>1, <3>2
  <2>2. CASE r # 0
    <3>1. c = q + 1 /\ c \in Nat /\ c > 0
      BY <1>1, <1>2, <2>2
    <3>2. a * c = a * q + a /\ a * q \in Nat
      BY <1>1, <1>3, <3>1
    <3>3. r > 0 /\ r < a
      BY <1>1, <2>2
    <3> QED
      BY <1>1, <3>1, <3>2, <3>3
  <2> QED
    BY <2>1, <2>2
<1>5. ASSUME NEW i \in Below(n)
      PROVE  i \div a \in Below(c)
  <2> DEFINE p == i \div a
  <2>1. i \in Nat /\ i < n
    BY DEF Below
  <2>2. p \in Nat /\ a * p <= i
    <3>1. i = a * p + (i % a) /\ p \in Nat /\ i % a \in 0..a - 1
      BY <2>1, Division
    <3> HIDE DEF p
    <3> QED
      BY <2>1, <3>1
  <2> HIDE DEF p
  <2>3. a * p < a * c
    BY <1>4, <2>1, <2>2
  <2>4. p < c
    BY <1>4, <2>2, <2>3, Fewer
  <2> QED
    BY <2>2, <2>4, <1>4 DEF Below, p
<1> QED
  BY <1>4, <1>5 DEF c

LEMMA InBox ==
    ASSUME NEW a, NEW b, NEW c, NEW x, NEW y, NEW z
    PROVE  <<x, y, z>> \in Box(<<a, b, c>>) <=>
               x \in Below(a) /\ y \in Below(b) /\ z \in Below(c)
  BY DEF Box

LEMMA OfBox ==
    ASSUME NEW a, NEW b, NEW c, NEW w \in Box(<<a, b, c>>)
    PROVE  /\ w[1] \in Below(a) /\ w[2] \in Below(b) /\ w[3] \in Below(c)
           /\ w = <<w[1], w[2], w[3]>>
  BY DEF Box

LEMMA Belows ==
    ASSUME NEW n \in Nat
    PROVE  /\ IsFiniteSet(Below(n)) /\ Below(n) \subseteq Nat
           /\ \A i : i \in Below(n) <=> i \in Nat /\ i < n
           /\ Below(1) = {0}
<1>1. IsFiniteSet(0 .. n - 1)
  BY FS_Interval
<1> QED
  BY <1>1 DEF Below

-----------------------------------------------------------------------------
(* Dispatches of a line of items, on one axis or on two. *)

(* The item of a thread when a row of workgroups is a long. *)
ItemOf(a, w, l) == (w[2] * a + w[1]) * Tile + l[1]

IsLine(d, a, b, items, Item) ==
    /\ d.size = <<64, 1, 1>> /\ d.groups = <<a, b, 1>>
    /\ items <= a * b * Tile
    /\ IsFiniteSet(Promised(d))
    /\ \A e \in Promised(d) : Item[e] \in Below(items)
    /\ \A w \in Box(d.groups), l \in Box(d.size) :
           \A e : e \in WrittenBy(d, w, l) <=>
                     e \in Promised(d) /\ Item[e] = ItemOf(a, w, l)

LEMMA LineThreads ==
    ASSUME NEW d, NEW a \in Nat, NEW b \in Nat, NEW items \in Nat, NEW Item,
           IsLine(d, a, b, items, Item)
    PROVE  Complete(d)
<1> USE DEF IsLine
<1> DEFINE Group(i) == i \div 64
           Thread(i) == <<<<Group(i) % a, Group(i) \div a, 0>>,
                          <<i % 64, 0, 0>>>>
           Own == [e \in Promised(d) |-> Thread(Item[e])]
<1>1. ASSUME NEW i \in Below(items)
      PROVE  /\ a \in Nat \ {0} /\ i \in Nat
             /\ Group(i) \in Nat /\ i % 64 \in 0 .. 63
             /\ i = 64 * Group(i) + (i % 64)
             /\ Group(i) \in Below(a * b)
  <2>1. i \in Nat /\ i < a * b * 64
    BY DEF Below, Tile
  <2>2. a # 0
    BY <2>1
  <2>3. a * b \in Nat
    OBVIOUS
  <2> DEFINE m == a * b
  <2>4. i < m * 64 /\ m \in Nat
    BY <2>1, <2>3
  <2> HIDE DEF m
  <2>5. i \div 64 < m /\ i \div 64 \in Nat
    BY <2>1, <2>4
  <2> QED
    BY <2>1, <2>2, <2>5 DEF Below, m
<1>2. ASSUME NEW i \in Below(items)
      PROVE  Thread(i) \in Owners(d)
  <2> DEFINE q == Group(i) \div a
             r == Group(i) % a
  <2>1. a \in Nat \ {0} /\ Group(i) \in Nat /\ Group(i) < a * b /\ i % 64 \in 0 .. 63
    BY <1>1 DEF Below
  <2>2. Group(i) = a * q + r /\ q \in Nat /\ r \in 0..a - 1
    BY <2>1, Division
  <2>3. q < b
    <3> HIDE DEF q, r
    <3>1. a * q < a * b
      BY <2>1, <2>2
    <3> QED
      BY <2>1, <2>2, <3>1, Fewer
  <2>4. <<r, q, 0>> \in Box(d.groups)
    BY <2>2, <2>3, InBox DEF Below
  <2>5. <<i % 64, 0, 0>> \in Box(d.size)
    BY <2>1, InBox DEF Below
  <2> QED
    BY <2>4, <2>5 DEF Owners
<1>3. ASSUME NEW i \in Below(items), NEW w \in Box(d.groups),
             NEW l \in Box(d.size)
      PROVE  Thread(i) = <<w, l>> <=> i = ItemOf(a, w, l)
  <2> DEFINE q == Group(i) \div a
             r == Group(i) % a
             k == i % 64
  <2>1. /\ w[1] \in Below(a) /\ w[2] \in Below(b) /\ w[3] = 0
        /\ w = <<w[1], w[2], w[3]>>
    <3>1. w \in Box(<<a, b, 1>>)
      OBVIOUS
    <3>2. Below(1) = {0}
      BY Belows
    <3> QED
      BY <3>1, <3>2, OfBox
  <2>2. l[1] \in Below(64) /\ l[2] = 0 /\ l[3] = 0 /\ l = <<l[1], l[2], l[3]>>
    <3>1. l \in Box(<<64, 1, 1>>)
      OBVIOUS
    <3>2. Below(1) = {0}
      BY Belows
    <3> QED
      BY <3>1, <3>2, OfBox
  <2>3. a \in Nat \ {0} /\ Group(i) \in Nat /\ k \in 0 .. 63
        /\ i = 64 * Group(i) + k
    BY <1>1
  <2>4. Group(i) = a * q + r /\ q \in Nat /\ r \in 0..a - 1
    BY <2>3, Division
  <2> DEFINE x == w[1]
             y == w[2]
             z == l[1]
  <2>5. x \in 0..a - 1 /\ y \in Nat /\ z \in 0 .. 63
    BY <2>1, <2>2 DEF Below
  <2>6. Thread(i) = <<w, l>> <=> r = x /\ q = y /\ k = z
    BY <2>1, <2>2
  <2>7. ItemOf(a, w, l) = 64 * (a * y + x) + z
    BY <2>5 DEF ItemOf, Tile
  <2>8. i = 64 * (a * q + r) + k
    BY <2>3, <2>4
  <2> HIDE DEF q, r, k, x, y, z, Thread, Group
  <2>9. a * q + r = a * y + x <=> q = y /\ r = x
    BY <2>3, <2>4, <2>5, Unique
  <2>10. a * q + r \in Nat /\ a * y + x \in Nat
    BY <2>3, <2>4, <2>5
  <2>11. i = ItemOf(a, w, l) <=> a * q + r = a * y + x /\ k = z
    <3> DEFINE m == a * q + r
               n == a * y + x
    <3>1. m \in Nat /\ n \in Nat /\ i = 64 * m + k /\ ItemOf(a, w, l) = 64 * n + z
      BY <2>7, <2>8, <2>10
    <3> HIDE DEF m, n
    <3>2. i = ItemOf(a, w, l) <=> m = n /\ k = z
      BY <2>3, <2>5, <3>1
    <3> QED
      BY <3>2 DEF m, n
  <2> QED
    BY <2>6, <2>9, <2>11
<1>4. \A e \in Promised(d) : Own[e] \in Owners(d)
  BY <1>2
<1>5. ASSUME NEW w \in Box(d.groups), NEW l \in Box(d.size)
      PROVE  \A e : e \in WrittenBy(d, w, l) <=>
                       e \in Promised(d) /\ Own[e] = <<w, l>>
  <2>1. \A e \in Promised(d) : Own[e] = <<w, l>> <=> Item[e] = ItemOf(a, w, l)
    <3>1. ASSUME NEW e \in Promised(d)
          PROVE  Own[e] = <<w, l>> <=> Item[e] = ItemOf(a, w, l)
      <4>1. Own[e] = Thread(Item[e])
        OBVIOUS
      <4>2. Item[e] \in Below(items)
        OBVIOUS
      <4> QED
        BY <4>1, <4>2, <1>3
    <3> QED
      BY <3>1
  <2> HIDE DEF Own
  <2> QED
    BY <2>1
<1>6. OwnedBy(d, Own)
  BY <1>4, <1>5 DEF OwnedBy
<1> QED
  BY <1>6, OwnersComplete

(* The coordinates of a thread of sixty-four. *)
LEMMA LineBoxes ==
    ASSUME NEW a \in Nat, NEW b \in Nat, NEW w \in Box(<<a, b, 1>>),
           NEW l \in Box(<<64, 1, 1>>)
    PROVE  /\ w[1] \in Below(a) /\ w[2] \in Below(b) /\ w[3] = 0
           /\ l[1] \in Below(64) /\ l[2] = 0 /\ l[3] = 0
           /\ At(<<64, 1, 1>>, w, l)[1] = w[1] * 64 + l[1]
           /\ At(<<64, 1, 1>>, w, l)[1] \in Nat
           /\ At(<<64, 1, 1>>, w, l)[2] = w[2]
<1>1. Below(1) = {0}
  BY Belows
<1>2. w[1] \in Below(a) /\ w[2] \in Below(b) /\ w[3] = 0
  BY <1>1, OfBox
<1>3. l[1] \in Below(64) /\ l[2] = 0 /\ l[3] = 0
  BY <1>1, OfBox
<1>4. w[1] \in Nat /\ w[2] \in Nat /\ l[1] \in Nat
  BY <1>2, <1>3 DEF Below
<1>5. /\ At(<<64, 1, 1>>, w, l)[1] = w[1] * 64 + l[1]
      /\ At(<<64, 1, 1>>, w, l)[2] = w[2] * 1 + l[2]
  BY DEF At
<1> QED
  BY <1>2, <1>3, <1>4, <1>5

OnAxis(d, items, Item) ==
    /\ IsFiniteSet(Promised(d))
    /\ \A e \in Promised(d) : Item[e] \in Below(items)
    /\ \A w \in Box(d.groups), l \in Box(d.size) :
           \A e : e \in WrittenBy(d, w, l) <=>
                     e \in Promised(d) /\ Item[e] = At(<<64, 1, 1>>, w, l)[1]

LEMMA RowThreads ==
    ASSUME NEW kernel, NEW output, NEW items \in Nat, NEW words, NEW Item,
           NEW d, d = RowStage(kernel, output, items, words),
           OnAxis(d, items, Item)
    PROVE  Complete(d)
<1> USE DEF OnAxis
<1> DEFINE a == CeilDiv(items, Tile)
<1>1. a \in Nat /\ items <= 64 * a
  BY CeilDivision DEF Tile
<1> DEFINE b == 1
<1>2. d.size = <<64, 1, 1>> /\ d.groups = <<a, b, 1>>
  BY DEF RowStage, Dispatch, Tile
<1>3. items <= a * b * Tile /\ b \in Nat
  BY <1>1 DEF Tile
<1> HIDE DEF a
<1>4. ASSUME NEW w \in Box(d.groups), NEW l \in Box(d.size)
      PROVE  At(<<64, 1, 1>>, w, l)[1] = ItemOf(a, w, l)
  <2>1. /\ w[1] \in Below(a) /\ w[2] \in Below(1) /\ l[1] \in Below(64)
        /\ At(<<64, 1, 1>>, w, l)[1] = w[1] * 64 + l[1]
    BY <1>1, <1>2, <1>3, LineBoxes
  <2>2. w[1] \in Nat /\ w[2] = 0 /\ l[1] \in Nat
    BY <2>1 DEF Below
  <2> QED
    BY <1>1, <2>1, <2>2 DEF ItemOf, Tile
<1>5. \A w \in Box(d.groups), l \in Box(d.size) :
          \A e : e \in WrittenBy(d, w, l) <=>
                    e \in Promised(d) /\ Item[e] = ItemOf(a, w, l)
  BY <1>4
<1>6. IsLine(d, a, b, items, Item)
  BY <1>2, <1>3, <1>5 DEF IsLine
<1> QED
  BY <1>1, <1>3, <1>6, LineThreads

(* One element a thread. *)
Singles(d, first, items) ==
    /\ Promised(d) = {first + i : i \in Below(items)}
    /\ \A w \in Box(d.groups), l \in Box(d.size) :
           WrittenBy(d, w, l) =
               If(At(<<64, 1, 1>>, w, l)[1] < items,
                  {first + At(<<64, 1, 1>>, w, l)[1]})

LEMMA SingleRow ==
    ASSUME NEW kernel, NEW output, NEW items \in Nat, NEW words,
           NEW d, d = RowStage(kernel, output, items, words),
           NEW first \in Nat, Singles(d, first, items)
    PROVE  Complete(d)
<1> USE DEF Singles
<1> DEFINE Item == [e \in Promised(d) |-> e - first]
<1>1. Promised(d) \subseteq 0 .. first + items /\ first + items \in Int
  BY Belows
<1>2. IsFiniteSet(Promised(d))
  <2>1. IsFiniteSet(0 .. first + items)
    BY <1>1, FS_Interval
  <2> QED
    BY <1>1, <2>1, FS_Subset
<1>3. \A e \in Promised(d) : Item[e] \in Below(items)
  BY Belows
<1>4. ASSUME NEW w \in Box(d.groups), NEW l \in Box(d.size)
      PROVE  \A e : e \in WrittenBy(d, w, l) <=>
                       /\ e \in Promised(d)
                       /\ Item[e] = At(<<64, 1, 1>>, w, l)[1]
  <2> DEFINE g == At(<<64, 1, 1>>, w, l)[1]
  <2>1. g \in Nat
    <3>1. d.size = <<64, 1, 1>> /\ d.groups = <<CeilDiv(items, 64), 1, 1>>
      BY DEF RowStage, Dispatch, Tile
    <3>2. CeilDiv(items, 64) \in Nat
      BY CeilDivision
    <3> QED
      BY <3>1, <3>2, LineBoxes
  <2>2. WrittenBy(d, w, l) = If(g < items, {first + g})
    OBVIOUS
  <2>3. g < items <=> g \in Below(items)
    BY <2>1, Belows
  <2> HIDE DEF g
  <2>4. {e \in Promised(d) : e - first = g} = If(g < items, {first + g})
    BY <2>1, <2>3, Belows DEF If
  <2>5. \A e \in Promised(d) : Item[e] = e - first
    OBVIOUS
  <2> HIDE DEF Item
  <2> QED
    BY <2>2, <2>4, <2>5 DEF g
<1> HIDE DEF Item
<1>5. OnAxis(d, items, Item)
  BY <1>2, <1>3, <1>4 DEF OnAxis
<1> QED
  BY <1>5, RowThreads

(* A row of elements a thread. *)
LEMMA RowElements ==
    ASSUME NEW width \in Nat \ {0}, NEW items \in Nat, NEW i \in Nat
    PROVE  If(i < items, Row(i, width)) =
               {e \in Below(items * width) : e \div width = i}
<1> DEFINE total == items * width
<1>1. total \in Nat
  OBVIOUS
<1>2. ASSUME i < items, NEW c \in Below(width)
      PROVE  /\ i * width + c \in Below(total)
             /\ (i * width + c) \div width = i
  <2>1. c \in 0 .. width - 1
    BY DEF Below
  <2>2. (width * i + c) \div width = i
    BY <2>1, Quotient
  <2>3. width * i = i * width /\ i * width \in Nat
    OBVIOUS
  <2>4. i * width + width <= items * width
    <3>1. width * i + width <= width * items
      BY <1>2, Larger
    <3> QED
      BY <3>1
  <2> QED
    BY <2>1, <2>2, <2>3, <2>4, <1>1 DEF Below
<1>3. ASSUME NEW e \in Below(total)
      PROVE  /\ e \div width < items
             /\ e = (e \div width) * width + (e % width)
             /\ e % width \in Below(width)
  <2>1. e \in Nat /\ e < items * width
    BY <1>1, Belows
  <2> DEFINE q == e \div width
             r == e % width
  <2>2. e = width * q + r /\ q \in Nat /\ r \in 0..width - 1
    BY <2>1, Division
  <2> HIDE DEF q, r
  <2>3. q < items
    <3>1. width * q < width * items
      BY <2>1, <2>2
    <3> QED
      BY <2>2, <3>1, Fewer
  <2>4. e = q * width + r
    BY <2>2
  <2>5. r \in Below(width)
    BY <2>2 DEF Below
  <2> QED
    BY <2>3, <2>4, <2>5 DEF q, r
<1>4. CASE i < items
  <2>1. If(i < items, Row(i, width)) = {i * width + c : c \in Below(width)}
    BY <1>4 DEF If, Row
  <2>2. {i * width + c : c \in Below(width)}
            \subseteq {e \in Below(total) : e \div width = i}
    BY <1>2, <1>4
  <2>3. ASSUME NEW e \in Below(total), e \div width = i
        PROVE  e \in {i * width + c : c \in Below(width)}
    <3>1. e = i * width + (e % width) /\ e % width \in Below(width)
      BY <1>3, <2>3
    <3>2. \E c \in Below(width) : e = i * width + c
      BY <3>1, Zenon
    <3> QED
      BY <3>2
  <2> QED
    BY <2>1, <2>2, <2>3
<1>5. CASE ~(i < items)
  BY <1>3, <1>5 DEF If
<1> QED
  BY <1>4, <1>5

Rows(d, items, width) ==
    /\ Promised(d) = Below(items * width)
    /\ \A w \in Box(d.groups), l \in Box(d.size) :
           WrittenBy(d, w, l) =
               If(At(<<64, 1, 1>>, w, l)[1] < items,
                  Row(At(<<64, 1, 1>>, w, l)[1], width))

LEMMA RowsRow ==
    ASSUME NEW kernel, NEW output, NEW items \in Nat, NEW words,
           NEW d, d = RowStage(kernel, output, items, words),
           NEW width \in Nat \ {0}, Rows(d, items, width)
    PROVE  Complete(d)
<1> USE DEF Rows
<1> DEFINE Item == [e \in Promised(d) |-> e \div width]
<1>1. IsFiniteSet(Promised(d)) /\ items * width \in Nat
  BY Belows
<1>2. ASSUME NEW e \in Promised(d)
      PROVE  Item[e] \in Below(items)
  <2>1. e \in Nat
    BY <1>1, Belows
  <2>2. e \div width \in Nat
    BY <2>1, Division
  <2>3. If(e \div width < items, Row(e \div width, width)) # {}
    BY <2>2, RowElements
  <2> QED
    BY <2>2, <2>3, Belows DEF If
<1>3. ASSUME NEW w \in Box(d.groups), NEW l \in Box(d.size)
      PROVE  \A e : e \in WrittenBy(d, w, l) <=>
                       /\ e \in Promised(d)
                       /\ Item[e] = At(<<64, 1, 1>>, w, l)[1]
  <2> DEFINE g == At(<<64, 1, 1>>, w, l)[1]
  <2>1. g \in Nat
    <3>1. d.size = <<64, 1, 1>> /\ d.groups = <<CeilDiv(items, 64), 1, 1>>
      BY DEF RowStage, Dispatch, Tile
    <3>2. CeilDiv(items, 64) \in Nat
      BY CeilDivision
    <3> QED
      BY <3>1, <3>2, LineBoxes
  <2>2. WrittenBy(d, w, l) = If(g < items, Row(g, width))
    OBVIOUS
  <2> HIDE DEF g
  <2>3. WrittenBy(d, w, l) = {e \in Below(items * width) : e \div width = g}
    BY <2>1, <2>2, RowElements
  <2> QED
    BY <2>3 DEF g
<1> HIDE DEF Item
<1>4. OnAxis(d, items, Item)
  BY <1>1, <1>2, <1>3 DEF OnAxis
<1> QED
  BY <1>4, RowThreads

LEMMA RowPlaces ==
    ASSUME NEW kernel, NEW output, NEW items \in Nat, NEW words,
           NEW d, d = RowStage(kernel, output, items, words),
           NEW w \in Box(d.groups), NEW l \in Box(d.size)
    PROVE  /\ At(<<64, 1, 1>>, w, l)[1] \in Nat
           /\ At(<<64, 1, 1>>, w, l)[2] = 0
<1>1. d.size = <<64, 1, 1>> /\ d.groups = <<CeilDiv(items, 64), 1, 1>>
  BY DEF RowStage, Dispatch, Tile
<1>2. CeilDiv(items, 64) \in Nat /\ Below(1) = {0}
  BY CeilDivision, Belows
<1> QED
  BY <1>1, <1>2, LineBoxes

(* The simplest of them: the item is the element. *)
Simple(d, items) ==
    /\ Promised(d) = Below(items)
    /\ \A w \in Box(d.groups), l \in Box(d.size) :
           WrittenBy(d, w, l) = If(At(<<64, 1, 1>>, w, l)[1] < items,
                                   {At(<<64, 1, 1>>, w, l)[1]})

LEMMA SimpleRow ==
    ASSUME NEW kernel, NEW output, NEW items \in Nat, NEW words,
           NEW d, d = RowStage(kernel, output, items, words),
           Simple(d, items)
    PROVE  Complete(d)
<1> USE DEF Simple
<1>1. Promised(d) = {0 + i : i \in Below(items)}
  BY Belows
<1>2. ASSUME NEW w \in Box(d.groups), NEW l \in Box(d.size)
      PROVE  WrittenBy(d, w, l) = If(At(<<64, 1, 1>>, w, l)[1] < items,
                                     {0 + At(<<64, 1, 1>>, w, l)[1]})
  <2> DEFINE g == At(<<64, 1, 1>>, w, l)[1]
  <2>1. g \in Nat
    BY RowPlaces
  <2>2. WrittenBy(d, w, l) = If(g < items, {g})
    OBVIOUS
  <2> HIDE DEF g
  <2>3. WrittenBy(d, w, l) = If(g < items, {0 + g})
    BY <2>1, <2>2
  <2> QED
    BY <2>3 DEF g
<1>3. Singles(d, 0, items)
  BY <1>1, <1>2 DEF Singles
<1> QED
  BY <1>3, SingleRow

LEMMA Counts ==
    ASSUME GeometryIsCounted
    PROVE  /\ GroupLimit \in Nat \ {0} /\ PlaneAlignment \in Nat \ {0}
           /\ QueryHeads \in Nat \ {0} /\ KeyValueHeads \in Nat \ {0}
           /\ HiddenSize \in Nat \ {0} /\ IntermediateSize \in Nat \ {0}
           /\ QueryWidth \in Nat \ {0} /\ KeyValueWidth \in Nat \ {0}
           /\ RotatedWidth \in Nat \ {0}
           /\ QueryWidth = QueryHeads * 128
           /\ KeyValueWidth = KeyValueHeads * 128
           /\ RotatedWidth = QueryWidth + KeyValueWidth
  BY DEF GeometryIsCounted, QueryWidth, KeyValueWidth, RotatedWidth, HeadWidth

LEMMA GemvIsComplete ==
    ASSUME NEW rows \in Nat, NEW inner
    PROVE  Complete(RowStage("gemv_f32", rows, rows,
                             <<rows, inner, 0, 0>>))
<1> DEFINE u == <<rows, inner, 0, 0>>
           n == rows
           d == RowStage("gemv_f32", rows, n, u)
<1>0. n \in Nat
  OBVIOUS
<1>1. Promised(d) = Below(n)
  BY <1>0 DEF Promised, RowStage, Dispatch, Halves
<1>2. d.kernel = "gemv_f32" /\ d.words = u
  BY DEF RowStage, Dispatch
<1> HIDE DEF d
<1>3. ASSUME NEW w \in Box(d.groups), NEW l \in Box(d.size)
      PROVE  WrittenBy(d, w, l) = If(At(<<64, 1, 1>>, w, l)[1] < n,
                                     {At(<<64, 1, 1>>, w, l)[1]})
  BY <1>0, <1>2, LinearShaders DEF gemv_f32
<1>4. Simple(d, n)
  BY <1>1, <1>3 DEF Simple
<1> HIDE DEF n, u
<1> QED
  BY <1>0, <1>4, SimpleRow DEF d, n, u

LEMMA SwigluIsComplete ==
    ASSUME NEW count \in Nat
    PROVE  Complete(RowStage("decoder_swiglu_f32", count, count,
                             <<count, 0, 0, 0>>))
<1> DEFINE u == <<count, 0, 0, 0>>
           n == count
           d == RowStage("decoder_swiglu_f32", count, n, u)
<1>0. n \in Nat
  OBVIOUS
<1>1. Promised(d) = Below(n)
  BY <1>0 DEF Promised, RowStage, Dispatch, Halves
<1>2. d.kernel = "decoder_swiglu_f32" /\ d.words = u
  BY DEF RowStage, Dispatch
<1> HIDE DEF d
<1>3. ASSUME NEW w \in Box(d.groups), NEW l \in Box(d.size)
      PROVE  WrittenBy(d, w, l) = If(At(<<64, 1, 1>>, w, l)[1] < n,
                                     {At(<<64, 1, 1>>, w, l)[1]})
  BY <1>0, <1>2, LinearShaders DEF decoder_swiglu_f32
<1>4. Simple(d, n)
  BY <1>1, <1>3 DEF Simple
<1> HIDE DEF n, u
<1> QED
  BY <1>0, <1>4, SimpleRow DEF d, n, u

LEMMA AddIsComplete ==
    ASSUME NEW count \in Nat
    PROVE  Complete(RowStage("add_f32", count, count,
                             <<count, 0, 0, 0>>))
<1> DEFINE u == <<count, 0, 0, 0>>
           n == count
           d == RowStage("add_f32", count, n, u)
<1>0. n \in Nat
  OBVIOUS
<1>1. Promised(d) = Below(n)
  BY <1>0 DEF Promised, RowStage, Dispatch, Halves
<1>2. d.kernel = "add_f32" /\ d.words = u
  BY DEF RowStage, Dispatch
<1> HIDE DEF d
<1>3. ASSUME NEW w \in Box(d.groups), NEW l \in Box(d.size)
      PROVE  WrittenBy(d, w, l) = If(At(<<64, 1, 1>>, w, l)[1] < n,
                                     {At(<<64, 1, 1>>, w, l)[1]})
  <2>1. At(<<64, 1, 1>>, w, l)[1] \in Nat /\ At(<<64, 1, 1>>, w, l)[2] = 0
    BY <1>0, RowPlaces DEF d
  <2> QED
    BY <1>0, <1>2, <2>1, LinearShaders DEF add_f32, OnLine, LinearIndex, If
<1>4. Simple(d, n)
  BY <1>1, <1>3 DEF Simple
<1> HIDE DEF n, u
<1> QED
  BY <1>0, <1>4, SimpleRow DEF d, n, u

LEMMA SplitMergeIsComplete ==
    ASSUME GeometryIsCounted, NEW words
    PROVE  Complete(RowStage("decoder_gqa_split_merge_f32", QueryWidth, QueryWidth,
                             words))
<1> DEFINE u == words
           n == QueryWidth
           d == RowStage("decoder_gqa_split_merge_f32", QueryWidth, n, u)
<1>0. n \in Nat
  BY Counts
<1>1. Promised(d) = Below(n)
  BY <1>0 DEF Promised, RowStage, Dispatch, Halves
<1>2. d.kernel = "decoder_gqa_split_merge_f32" /\ d.words = u
  BY DEF RowStage, Dispatch
<1> HIDE DEF d
<1>3. ASSUME NEW w \in Box(d.groups), NEW l \in Box(d.size)
      PROVE  WrittenBy(d, w, l) = If(At(<<64, 1, 1>>, w, l)[1] < n,
                                     {At(<<64, 1, 1>>, w, l)[1]})
  BY <1>0, <1>2, FixedShaders DEF decoder_gqa_split_merge_f32
<1>4. Simple(d, n)
  BY <1>1, <1>3 DEF Simple
<1> HIDE DEF n, u
<1> QED
  BY <1>0, <1>4, SimpleRow DEF d, n, u

LEMMA MropeIsComplete ==
    ASSUME GeometryIsCounted, NEW words
    PROVE  Complete(RowStage("decoder_mrope_f32", RotatedWidth, RotatedWidth,
                             words))
<1> DEFINE u == words
           n == RotatedWidth
           d == RowStage("decoder_mrope_f32", RotatedWidth, n, u)
<1>0. n \in Nat
  BY Counts
<1>1. Promised(d) = Below(n)
  BY <1>0 DEF Promised, RowStage, Dispatch, Halves
<1>2. d.kernel = "decoder_mrope_f32" /\ d.words = u
  BY DEF RowStage, Dispatch
<1> HIDE DEF d
<1>3. ASSUME NEW w \in Box(d.groups), NEW l \in Box(d.size)
      PROVE  WrittenBy(d, w, l) = If(At(<<64, 1, 1>>, w, l)[1] < n,
                                     {At(<<64, 1, 1>>, w, l)[1]})
  BY <1>0, <1>2, FixedShaders DEF decoder_mrope_f32
<1>4. Simple(d, n)
  BY <1>1, <1>3 DEF Simple
<1> HIDE DEF n, u
<1> QED
  BY <1>0, <1>4, SimpleRow DEF d, n, u

LEMMA LayerNormIsComplete ==
    ASSUME NEW rows \in Nat, NEW width \in Nat \ {0}
    PROVE  Complete(RowStage("layer_norm_f32", rows * width, rows,
                             <<rows, width, 0, 0>>))
<1> DEFINE u == <<rows, width, 0, 0>>
           n == rows
           d == RowStage("layer_norm_f32", rows * width, n, u)
<1>0. n \in Nat /\ width \in Nat \ {0}
  OBVIOUS
<1>1. Promised(d) = Below(n * (width))
  BY DEF Promised, RowStage, Dispatch, Halves
<1>2. d.kernel = "layer_norm_f32" /\ d.words = u
  BY DEF RowStage, Dispatch
<1> HIDE DEF d
<1>3. ASSUME NEW w \in Box(d.groups), NEW l \in Box(d.size)
      PROVE  WrittenBy(d, w, l) =
                 If(At(<<64, 1, 1>>, w, l)[1] < n,
                    Row(At(<<64, 1, 1>>, w, l)[1], width))
  BY <1>2, LinearShaders DEF layer_norm_f32
<1>4. Rows(d, n, width)
  BY <1>1, <1>3 DEF Rows
<1> HIDE DEF n, u
<1> QED
  BY <1>0, <1>4, RowsRow DEF d, n, u

LEMMA RmsNormIsComplete ==
    ASSUME NEW rows \in Nat, NEW width \in Nat \ {0}
    PROVE  Complete(RowStage("rms_norm_f32", rows * width, rows,
                             <<rows, width, 0, 0>>))
<1> DEFINE u == <<rows, width, 0, 0>>
           n == rows
           d == RowStage("rms_norm_f32", rows * width, n, u)
<1>0. n \in Nat /\ width \in Nat \ {0}
  OBVIOUS
<1>1. Promised(d) = Below(n * (width))
  BY DEF Promised, RowStage, Dispatch, Halves
<1>2. d.kernel = "rms_norm_f32" /\ d.words = u
  BY DEF RowStage, Dispatch
<1> HIDE DEF d
<1>3. ASSUME NEW w \in Box(d.groups), NEW l \in Box(d.size)
      PROVE  WrittenBy(d, w, l) =
                 If(At(<<64, 1, 1>>, w, l)[1] < n,
                    Row(At(<<64, 1, 1>>, w, l)[1], width))
  BY <1>2, LinearShaders DEF rms_norm_f32
<1>4. Rows(d, n, width)
  BY <1>1, <1>3 DEF Rows
<1> HIDE DEF n, u
<1> QED
  BY <1>0, <1>4, RowsRow DEF d, n, u

(* Vec4s are elements of a half-precision output. *)
LEMMA Quarters ==
    ASSUME NEW k \in Nat, NEW width \in Nat \ {0}, width % 4 = 0
    PROVE  /\ width \div 4 \in Nat \ {0} /\ width = (width \div 4) * 4
           /\ CeilDiv(k * width, 4) = k * (width \div 4)
           /\ (k * width) % 4 = 0 /\ (k * width) \div 4 = k * (width \div 4)
<1> DEFINE q == width \div 4
<1>1. q \in Nat \ {0} /\ width = q * 4
  OBVIOUS
<1> HIDE DEF q
<1>2. k * width = 4 * (k * q) /\ k * q \in Nat
  BY <1>1
<1> DEFINE m == k * q
           v == k * width
<1>3. v = 4 * m /\ m \in Nat
  BY <1>2
<1> HIDE DEF m, v
<1>4. v \div 4 = m /\ v % 4 = 0
  BY <1>3
<1>5. CeilDiv(v, 4) = m
  BY <1>3, <1>4 DEF CeilDiv
<1> QED
  BY <1>1, <1>4, <1>5 DEF q, m, v

LEMMA HalfLayerNormIsComplete ==
    ASSUME NEW rows \in Nat, NEW width \in Nat \ {0}, width % 4 = 0
    PROVE  Complete(RowStage("layer_norm_f16", rows * width, rows,
                             <<rows, width, 0, 0>>))
<1> DEFINE u == <<rows, width, 0, 0>>
           n == rows
           d == RowStage("layer_norm_f16", rows * width, n, u)
<1>0. n \in Nat /\ width \div 4 \in Nat \ {0}
      /\ CeilDiv(rows * width, 4) = rows * (width \div 4)
  BY Quarters
<1>1. Promised(d) = Below(n * (width \div 4))
  <2>1. Promised(d) = Below(CeilDiv(rows * width, 4))
    BY DEF Promised, RowStage, Dispatch, Halves
  <2> QED
    BY <1>0, <2>1
<1>2. d.kernel = "layer_norm_f16" /\ d.words = u
  BY DEF RowStage, Dispatch
<1> HIDE DEF d
<1>3. ASSUME NEW w \in Box(d.groups), NEW l \in Box(d.size)
      PROVE  WrittenBy(d, w, l) =
                 If(At(<<64, 1, 1>>, w, l)[1] < n,
                    Row(At(<<64, 1, 1>>, w, l)[1], width \div 4))
  BY <1>2, LinearShaders DEF layer_norm_f16
<1>4. Rows(d, n, width \div 4)
  BY <1>1, <1>3 DEF Rows
<1> HIDE DEF n, u
<1> QED
  BY <1>0, <1>4, RowsRow DEF d, n, u

LEMMA GqaIsComplete ==
    ASSUME GeometryIsCounted, NEW tokens
    PROVE  Complete(RowStage("decoder_gqa_f32", QueryWidth, QueryHeads,
                             <<tokens, QueryHeads, KeyValueHeads, HeadWidth>>))
<1> DEFINE u == <<tokens, QueryHeads, KeyValueHeads, HeadWidth>>
           n == QueryHeads
           d == RowStage("decoder_gqa_f32", QueryWidth, n, u)
<1>0. n \in Nat /\ HeadWidth \in Nat \ {0}
  BY Counts DEF HeadWidth
<1>1. Promised(d) = Below(n * (HeadWidth))
  BY DEF Promised, RowStage, Dispatch, Halves, QueryWidth
<1>2. d.kernel = "decoder_gqa_f32" /\ d.words = u
  BY DEF RowStage, Dispatch
<1> HIDE DEF d
<1>3. ASSUME NEW w \in Box(d.groups), NEW l \in Box(d.size)
      PROVE  WrittenBy(d, w, l) =
                 If(At(<<64, 1, 1>>, w, l)[1] < n,
                    Row(At(<<64, 1, 1>>, w, l)[1], HeadWidth))
  BY <1>2, LinearShaders DEF decoder_gqa_f32
<1>4. Rows(d, n, HeadWidth)
  BY <1>1, <1>3 DEF Rows
<1> HIDE DEF n, u
<1> QED
  BY <1>0, <1>4, RowsRow DEF d, n, u

LEMMA PrefillGqaIsComplete ==
    ASSUME GeometryIsCounted, NEW tokens \in Nat
    PROVE  Complete(RowStage("decoder_prefill_gqa_f32", tokens * QueryWidth, tokens * QueryHeads,
                             <<tokens, QueryHeads, KeyValueHeads, HeadWidth>>))
<1> DEFINE u == <<tokens, QueryHeads, KeyValueHeads, HeadWidth>>
           n == tokens * QueryHeads
           d == RowStage("decoder_prefill_gqa_f32", tokens * QueryWidth, n, u)
<1>0. n \in Nat /\ HeadWidth \in Nat \ {0}
  BY Counts DEF HeadWidth
<1>1. Promised(d) = Below(n * (HeadWidth))
  <2>1. Promised(d) = Below(tokens * QueryWidth)
    BY DEF Promised, RowStage, Dispatch, Halves
  <2>2. tokens * QueryWidth = (tokens * QueryHeads) * 128
    BY Counts
  <2> QED
    BY <2>1, <2>2 DEF HeadWidth
<1>2. d.kernel = "decoder_prefill_gqa_f32" /\ d.words = u
  BY DEF RowStage, Dispatch
<1> HIDE DEF d
<1>3. ASSUME NEW w \in Box(d.groups), NEW l \in Box(d.size)
      PROVE  WrittenBy(d, w, l) =
                 If(At(<<64, 1, 1>>, w, l)[1] < n,
                    Row(At(<<64, 1, 1>>, w, l)[1], HeadWidth))
  BY <1>2, LinearShaders DEF decoder_prefill_gqa_f32
<1>4. Rows(d, n, HeadWidth)
  BY <1>1, <1>3 DEF Rows
<1> HIDE DEF n, u
<1> QED
  BY <1>0, <1>4, RowsRow DEF d, n, u

LEMMA AppendIsComplete ==
    ASSUME GeometryIsCounted, NEW output, NEW tokens \in Nat,
           NEW capacity \in Nat, tokens < capacity
    PROVE  Complete(RowStage("decoder_kv_append_f32", output, KeyValueWidth,
                             <<tokens, KeyValueHeads, HeadWidth, capacity>>))
<1> DEFINE u == <<tokens, KeyValueHeads, HeadWidth, capacity>>
           n == KeyValueWidth
           d == RowStage("decoder_kv_append_f32", output, n, u)
           first == tokens * KeyValueWidth
<1>0. n \in Nat /\ first \in Nat
  BY Counts
<1>1. Promised(d) = {first + i : i \in Below(n)}
  BY DEF Promised, RowStage, Dispatch, Halves, Row
<1>2. d.kernel = "decoder_kv_append_f32" /\ d.words = u
  BY DEF RowStage, Dispatch
<1> HIDE DEF d
<1>3. ASSUME NEW w \in Box(d.groups), NEW l \in Box(d.size)
      PROVE  WrittenBy(d, w, l) =
                 If(At(<<64, 1, 1>>, w, l)[1] < n,
                    {first + At(<<64, 1, 1>>, w, l)[1]})
  BY <1>2, LinearShaders DEF decoder_kv_append_f32, KeyValueWidth
<1>4. Singles(d, first, n)
  BY <1>1, <1>3 DEF Singles
<1> HIDE DEF n, u, first
<1> QED
  BY <1>0, <1>4, SingleRow DEF d, n, u

LEMMA AppendRangeIsComplete ==
    ASSUME GeometryIsCounted, NEW output, NEW tokens \in Nat,
           NEW capacity \in Nat, tokens <= capacity
    PROVE  Complete(RowStage("decoder_kv_append_range_f32", output,
                             tokens * KeyValueWidth,
                             <<tokens, capacity, 0, 0>>))
<1> DEFINE u == <<tokens, capacity, 0, 0>>
           n == tokens * KeyValueWidth
           d == RowStage("decoder_kv_append_range_f32", output, n, u)
<1>0. n \in Nat
  BY Counts
<1>1. Promised(d) = Below(n)
  BY DEF Promised, RowStage, Dispatch, Halves
<1>2. d.kernel = "decoder_kv_append_range_f32" /\ d.words = u
  BY DEF RowStage, Dispatch
<1> HIDE DEF d
<1>3. ASSUME NEW w \in Box(d.groups), NEW l \in Box(d.size)
      PROVE  WrittenBy(d, w, l) = If(At(<<64, 1, 1>>, w, l)[1] < n,
                                     {At(<<64, 1, 1>>, w, l)[1]})
  BY <1>2, LinearShaders DEF decoder_kv_append_range_f32
<1>4. Simple(d, n)
  BY <1>1, <1>3 DEF Simple
<1> HIDE DEF n, u
<1> QED
  BY <1>0, <1>4, SimpleRow DEF d, n, u

-----------------------------------------------------------------------------
(* Dispatches of pairs: a thread turns two elements of a row, half apart. *)

Turned(rows, stride, half) == Strided(rows, stride, 2 * half)
PairAt(g, rows, stride, half) ==
    If(g \div half < rows, {(g \div half) * stride + (g % half),
                            (g \div half) * stride + (g % half) + half})
Pairs(d, rows, stride, half) ==
    /\ Promised(d) = Turned(rows, stride, half)
    /\ \A w \in Box(d.groups), l \in Box(d.size) :
           WrittenBy(d, w, l) =
               PairAt(At(<<64, 1, 1>>, w, l)[1], rows, stride, half)

LEMMA PairOwner ==
    ASSUME NEW stride \in Nat \ {0}, NEW half \in Nat \ {0}, 2 * half <= stride,
           NEW rows \in Nat, NEW row \in Below(rows), NEW i \in Below(2 * half)
    PROVE  /\ (row * stride + i) \div stride = row
           /\ ((row * stride + i) % stride) % half = i % half
           /\ i % half \in Below(half)
           /\ i = i % half \/ i = (i % half) + half
<1>1. row \in Nat /\ i \in 0..2 * half - 1 /\ i \in 0..stride - 1
  BY DEF Below
<1>2. /\ (stride * row + i) \div stride = row
      /\ (stride * row + i) % stride = i
  BY <1>1, Quotient
<1>3. stride * row = row * stride
  BY <1>1
<1> DEFINE r == i % half
<1>4. r \in 0..half - 1 /\ (i = r \/ i = r + half)
  <2>1. CASE i < half
    <3>1. i = half * 0 + i /\ i \in 0..half - 1 /\ 0 \in Nat
      BY <1>1, <2>1
    <3>2. (half * 0 + i) % half = i
      BY <3>1, Quotient
    <3> QED
      BY <3>1, <3>2
  <2>2. CASE i >= half
    <3>1. i = half * 1 + (i - half) /\ i - half \in 0..half - 1 /\ 1 \in Nat
      BY <1>1, <2>2
    <3>2. (half * 1 + (i - half)) % half = i - half
      BY <3>1, Quotient
    <3>3. i % half = i - half
      BY <3>1, <3>2
    <3> QED
      BY <3>1, <3>3, <1>1
  <2> QED
    BY <1>1, <2>1, <2>2
<1>5. r \in Below(half)
  BY <1>4 DEF Below
<1> QED
  BY <1>2, <1>3, <1>4, <1>5

LEMMA PairThreads ==
    ASSUME NEW stride \in Nat \ {0}, NEW half \in Nat \ {0}, 2 * half <= stride,
           NEW rows \in Nat, NEW g \in Nat, NEW e
    PROVE  e \in PairAt(g, rows, stride, half) <=>
               /\ e \in Turned(rows, stride, half)
               /\ (e \div stride) * half + ((e % stride) % half) = g
<1> DEFINE q == g \div half
           r == g % half
<1>1. g = half * q + r /\ q \in Nat /\ r \in 0..half - 1
  BY Division
<1>2. ASSUME q < rows, NEW i \in {r, r + half}, e = q * stride + i
      PROVE  /\ e \in Turned(rows, stride, half)
             /\ (e \div stride) * half + ((e % stride) % half) = g
  <2>1. q \in Below(rows) /\ i \in Below(2 * half) /\ i \in Nat
    BY <1>1, <1>2 DEF Below
  <2>2. e \in Turned(rows, stride, half)
    BY <2>1, <1>2 DEF Turned, Strided
  <2>3. /\ e \div stride = q /\ (e % stride) % half = i % half
        /\ i % half \in Below(half) /\ (i = i % half \/ i = (i % half) + half)
    <3>1. /\ (q * stride + i) \div stride = q
          /\ ((q * stride + i) % stride) % half = i % half
          /\ i % half \in Below(half) /\ (i = i % half \/ i = (i % half) + half)
      BY <2>1, PairOwner
    <3> QED
      BY <1>2, <3>1
  <2> DEFINE x == i % half
  <2>4. x \in 0..half - 1 /\ (i = x \/ i = x + half)
    BY <2>3 DEF Below
  <2> HIDE DEF x
  <2>5. x = r
    BY <1>1, <1>2, <2>4
  <2>6. q * half + r = g
    BY <1>1
  <2> QED
    BY <2>2, <2>3, <2>5, <2>6 DEF x
<1>3. ASSUME e \in Turned(rows, stride, half),
             (e \div stride) * half + ((e % stride) % half) = g
      PROVE  q < rows /\ (e = q * stride + r \/ e = q * stride + r + half)
  <2>1. PICK row \in Below(rows), i \in Below(2 * half) : e = row * stride + i
    BY <1>3 DEF Turned, Strided
  <2>2. /\ e \div stride = row /\ (e % stride) % half = i % half
        /\ i % half \in Below(half) /\ (i = i % half \/ i = (i % half) + half)
    BY <2>1, PairOwner
  <2> DEFINE x == i % half
  <2>3. /\ x \in 0..half - 1 /\ (i = x \/ i = x + half) /\ row \in Nat
        /\ row < rows
    BY <2>2 DEF Below
  <2>4. row * half + x = g
    BY <1>3, <2>2
  <2> HIDE DEF x, q, r
  <2>5. half * row + x = half * q + r
    BY <1>1, <2>3, <2>4
  <2>6. row = q /\ x = r
    BY <1>1, <2>3, <2>5, Unique
  <2>7. row * stride \in Nat
    BY <2>3
  <2> QED
    BY <2>1, <2>3, <2>6, <2>7
<1>4. q * stride \in Nat
  BY <1>1
<1> HIDE DEF q, r
<1>5. e \in If(q < rows, {q * stride + r, q * stride + r + half}) <=>
          q < rows /\ (e = q * stride + r \/ e = q * stride + r + half)
  BY DEF If
<1>6. r \in {r, r + half} /\ r + half \in {r, r + half}
  OBVIOUS
<1>7. q * stride + r + half = q * stride + (r + half)
  BY <1>1, <1>4
<1>8. e \in If(q < rows, {q * stride + r, q * stride + r + half}) <=>
          /\ e \in Turned(rows, stride, half)
          /\ (e \div stride) * half + ((e % stride) % half) = g
  BY <1>2, <1>3, <1>5, <1>6, <1>7
<1> QED
  BY <1>8 DEF q, r, PairAt

LEMMA PairsRow ==
    ASSUME NEW kernel, NEW output, NEW words, NEW rows \in Nat,
           NEW stride \in Nat \ {0}, NEW half \in Nat \ {0}, 2 * half <= stride,
           NEW d, d = RowStage(kernel, output, rows * half, words),
           Pairs(d, rows, stride, half)
    PROVE  Complete(d)
<1> DEFINE n == rows * half
           Item == [e \in Promised(d) |->
                       (e \div stride) * half + ((e % stride) % half)]
<1>1. Promised(d) = Turned(rows, stride, half) /\ n \in Nat
  BY DEF Pairs
<1>2. IsFiniteSet(Promised(d))
  <2>1. rows * stride \in Nat
    OBVIOUS
  <2>2. ASSUME NEW row \in Below(rows), NEW i \in Below(2 * half)
        PROVE  row * stride + i \in 0..rows * stride
    <3>1. row \in Nat /\ row < rows /\ i \in Nat /\ i < stride
      BY DEF Below
    <3>2. stride * row + stride <= stride * rows
      BY <3>1, Larger
    <3>3. row * stride \in Nat
      BY <3>1
    <3> QED
      BY <3>1, <3>2, <3>3
  <2>3. Turned(rows, stride, half) \subseteq 0..rows * stride
    BY <2>2 DEF Turned, Strided
  <2>4. IsFiniteSet(0..rows * stride)
    BY <2>1, FS_Interval
  <2> QED
    BY <1>1, <2>3, <2>4, FS_Subset
<1>3. ASSUME NEW e \in Promised(d)
      PROVE  Item[e] \in Below(n)
  <2>1. PICK row \in Below(rows), i \in Below(2 * half) : e = row * stride + i
    BY <1>1 DEF Turned, Strided
  <2>2. Item[e] = row * half + (i % half) /\ i % half \in Below(half)
    BY <2>1, PairOwner
  <2>3. row \in Nat /\ row < rows /\ i % half \in 0..half - 1
    BY <2>2 DEF Below
  <2>4. half * row + half <= half * rows
    BY <2>3, Larger
  <2>5. row * half \in Nat
    BY <2>3
  <2> QED
    BY <2>2, <2>3, <2>4, <2>5, <1>1 DEF Below
<1>4. ASSUME NEW w \in Box(d.groups), NEW l \in Box(d.size)
      PROVE  \A e : e \in WrittenBy(d, w, l) <=>
                       /\ e \in Promised(d)
                       /\ Item[e] = At(<<64, 1, 1>>, w, l)[1]
  <2> DEFINE g == At(<<64, 1, 1>>, w, l)[1]
  <2>1. g \in Nat
    BY <1>1, RowPlaces
  <2>2. WrittenBy(d, w, l) = PairAt(g, rows, stride, half)
    BY DEF Pairs
  <2> HIDE DEF g
  <2>3. ASSUME NEW e
        PROVE  e \in WrittenBy(d, w, l) <=> e \in Promised(d) /\ Item[e] = g
    <3>1. e \in WrittenBy(d, w, l) <=>
              /\ e \in Turned(rows, stride, half)
              /\ (e \div stride) * half + ((e % stride) % half) = g
      BY <2>1, <2>2, PairThreads
    <3>2. e \in Promised(d) =>
              Item[e] = (e \div stride) * half + ((e % stride) % half)
      OBVIOUS
    <3> QED
      BY <1>1, <3>1, <3>2
  <2> QED
    BY <2>3 DEF g
<1> HIDE DEF Item
<1>5. OnAxis(d, n, Item)
  BY <1>2, <1>3, <1>4 DEF OnAxis
<1> HIDE DEF n
<1> QED
  BY <1>1, <1>5, RowThreads DEF n

LEMMA RopeNeoxIsComplete ==
    ASSUME NEW rows \in Nat, NEW stride \in Nat \ {0}, NEW rotary \in Nat \ {0},
           rotary % 2 = 0, rotary <= stride
    PROVE  Complete(RowStage("rope_neox_f32", rows * stride,
                             rows * (rotary \div 2), <<rows, stride, rotary, 0>>))
<1> DEFINE u == <<rows, stride, rotary, 0>>
           half == rotary \div 2
           d == RowStage("rope_neox_f32", rows * stride, rows * half, u)
<1>1. half \in Nat \ {0} /\ rotary = 2 * half /\ 2 * half <= stride
  OBVIOUS
<1>2. d.kernel = "rope_neox_f32" /\ d.words = u
  BY DEF RowStage, Dispatch
<1> HIDE DEF d, half
<1>3. Promised(d) = Strided(rows, stride, rotary)
  <2>1. Promised(d) = Strided(d.words[1], d.words[2], d.words[3])
    BY <1>2 DEF Promised, Halves
  <2> QED
    BY <1>2, <2>1
<1>4. Promised(d) = Turned(rows, stride, half)
  BY <1>1, <1>3 DEF Turned
<1>5. ASSUME NEW w \in Box(d.groups), NEW l \in Box(d.size)
      PROVE  WrittenBy(d, w, l) =
                 PairAt(At(<<64, 1, 1>>, w, l)[1], rows, stride, half)
  <2> DEFINE g == At(<<64, 1, 1>>, w, l)[1]
  <2>1. WrittenBy(d, w, l) = rope_neox_f32(u, At(<<64, 1, 1>>, w, l))
    BY <1>2, LinearShaders
  <2> HIDE DEF g
  <2>2. rope_neox_f32(u, At(<<64, 1, 1>>, w, l)) =
            PairAt(g, rows, stride, half)
    BY DEF rope_neox_f32, PairAt, g, half
  <2> QED
    BY <2>1, <2>2 DEF g
<1>6. Pairs(d, rows, stride, half)
  BY <1>4, <1>5 DEF Pairs
<1> HIDE DEF u
<1> QED
  BY <1>1, <1>6, PairsRow DEF d, u, half

(* Rows without a gap are a line. *)
LEMMA StridedLine ==
    ASSUME NEW rows \in Nat, NEW stride \in Nat \ {0}
    PROVE  Strided(rows, stride, stride) = Below(rows * stride)
<1>1. ASSUME NEW e \in Strided(rows, stride, stride)
      PROVE  e \in Below(rows * stride)
  <2>1. PICK row \in Below(rows), i \in Below(stride) : e = row * stride + i
    BY DEF Strided
  <2>2. row \in Nat /\ row < rows /\ i \in Nat /\ i < stride
    BY DEF Below
  <2>3. stride * row + stride <= stride * rows
    BY <2>2, Larger
  <2>4. row * stride \in Nat /\ rows * stride \in Nat
    BY <2>2
  <2> QED
    BY <2>1, <2>2, <2>3, <2>4 DEF Below
<1>2. ASSUME NEW e \in Below(rows * stride)
      PROVE  e \in Strided(rows, stride, stride)
  <2>1. e \in Nat /\ e < rows * stride
    BY DEF Below
  <2> DEFINE q == e \div stride
             r == e % stride
  <2>2. e = stride * q + r /\ q \in Nat /\ r \in 0..stride - 1
    BY <2>1, Division
  <2> HIDE DEF q, r
  <2>3. stride * q < stride * rows
    BY <2>1, <2>2
  <2>4. q < rows
    BY <2>2, <2>3, Fewer
  <2>5. e = q * stride + r /\ q \in Below(rows) /\ r \in Below(stride)
    BY <2>2, <2>4 DEF Below
  <2> QED
    BY <2>5 DEF Strided
<1> QED
  BY <1>1, <1>2

LEMMA QuotientBelow ==
    ASSUME NEW g \in Nat, NEW rows \in Nat, NEW a \in Nat \ {0}
    PROVE  g < rows * a <=> g \div a < rows
<1> DEFINE q == g \div a
           r == g % a
<1>1. g = a * q + r /\ q \in Nat /\ r \in 0..a - 1
  BY Division
<1> HIDE DEF q, r
<1>2. ASSUME g < rows * a
      PROVE  q < rows
  <2>1. a * q < a * rows
    BY <1>1, <1>2
  <2> QED
    BY <1>1, <2>1, Fewer
<1>3. ASSUME q < rows
      PROVE  g < rows * a
  <2>1. a * q + a <= a * rows
    BY <1>1, <1>3, Larger
  <2>2. a * q \in Nat
    BY <1>1
  <2> QED
    BY <1>1, <2>1, <2>2
<1> QED
  BY <1>2, <1>3 DEF q

LEMMA RopeIsComplete ==
    ASSUME NEW tokens \in Nat, NEW heads \in Nat \ {0},
           NEW dim \in Nat \ {0}, dim % 4 = 0
    PROVE  Complete(RowStage("vision_rope_2d_f32", 2 * tokens * heads * dim,
                             tokens * heads * (dim \div 2),
                             <<tokens, heads, dim, 0>>))
<1> DEFINE u == <<tokens, heads, dim, 0>>
           half == dim \div 2
           rows == tokens * heads
           output == 2 * tokens * heads * dim
           d == RowStage("vision_rope_2d_f32", output, rows * half, u)
<1>1. half \in Nat \ {0} /\ dim = 2 * half /\ 2 * half <= dim
  OBVIOUS
<1>2. d.kernel = "vision_rope_2d_f32" /\ d.words = u /\ d.output = output
  BY DEF RowStage, Dispatch
<1>3. rows \in Nat
  OBVIOUS
<1>4. output \div 2 = rows * dim
  <2> DEFINE n == rows * dim
  <2>1. n \in Nat /\ output = 2 * n
    OBVIOUS
  <2> HIDE DEF n, output
  <2> QED
    BY <2>1 DEF n
<1> HIDE DEF d, half, output, rows
<1>5. Promised(d) = Turned(rows, dim, half)
  <2>1. Promised(d) = Below(d.output \div 2)
    BY <1>2 DEF Promised, Halves
  <2>2. Strided(rows, dim, dim) = Below(rows * dim)
    BY <1>3, StridedLine
  <2> QED
    BY <1>1, <1>2, <1>4, <2>1, <2>2 DEF Turned
<1>6. ASSUME NEW w \in Box(d.groups), NEW l \in Box(d.size)
      PROVE  WrittenBy(d, w, l) =
                 PairAt(At(<<64, 1, 1>>, w, l)[1], rows, dim, half)
  <2> DEFINE g == At(<<64, 1, 1>>, w, l)[1]
  <2>0. rows * half \in Nat
    BY <1>1, <1>3
  <2>1. g \in Nat
    BY <2>0, RowPlaces DEF d
  <2>2. WrittenBy(d, w, l) = vision_rope_2d_f32(u, At(<<64, 1, 1>>, w, l))
    BY <1>2, LinearShaders
  <2> HIDE DEF g
  <2>3. vision_rope_2d_f32(u, At(<<64, 1, 1>>, w, l)) =
            If(g < rows * half, {(g \div half) * dim + (g % half),
                                 (g \div half) * dim + (g % half) + half})
    BY DEF vision_rope_2d_f32, g, half, rows
  <2> QED
    <3>1. g < rows * half <=> g \div half < rows
      BY <1>1, <1>3, <2>1, QuotientBelow
    <3> QED
      BY <2>2, <2>3, <3>1 DEF PairAt, g
<1>7. Pairs(d, rows, dim, half)
  BY <1>5, <1>6 DEF Pairs
<1>8. Complete(d)
  <2> HIDE DEF u
  <2> QED
    BY <1>1, <1>3, <1>7, PairsRow DEF d
<1> QED
  BY <1>8 DEF d, rows, half, output

LEMMA HalfRopeIsComplete ==
    ASSUME NEW tokens \in Nat, NEW heads \in Nat \ {0},
           NEW dim \in Nat \ {0}, dim % 4 = 0
    PROVE  Complete(RowStage("vision_rope_2d_f16", 2 * tokens * heads * dim,
                             tokens * heads * (dim \div 2),
                             <<tokens, heads, dim, 0>>))
<1> DEFINE u == <<tokens, heads, dim, 0>>
           half == dim \div 2
           rows == tokens * heads
           output == 2 * tokens * heads * dim
           d == RowStage("vision_rope_2d_f16", output, rows * half, u)
<1>1. half \in Nat \ {0} /\ dim = 2 * half /\ 2 * half <= dim
  OBVIOUS
<1>2. d.kernel = "vision_rope_2d_f16" /\ d.words = u /\ d.output = output
  BY DEF RowStage, Dispatch
<1>3. rows \in Nat
  OBVIOUS
<1>4. output \div 2 = rows * dim
  <2> DEFINE n == rows * dim
  <2>1. n \in Nat /\ output = 2 * n
    OBVIOUS
  <2> HIDE DEF n, output
  <2> QED
    BY <2>1 DEF n
<1> HIDE DEF d, half, output, rows
<1>5. Promised(d) = Turned(rows, dim, half)
  <2>1. Promised(d) = Below(d.output \div 2)
    BY <1>2 DEF Promised, Halves
  <2>2. Strided(rows, dim, dim) = Below(rows * dim)
    BY <1>3, StridedLine
  <2> QED
    BY <1>1, <1>2, <1>4, <2>1, <2>2 DEF Turned
<1>6. ASSUME NEW w \in Box(d.groups), NEW l \in Box(d.size)
      PROVE  WrittenBy(d, w, l) =
                 PairAt(At(<<64, 1, 1>>, w, l)[1], rows, dim, half)
  <2> DEFINE g == At(<<64, 1, 1>>, w, l)[1]
  <2>0. rows * half \in Nat
    BY <1>1, <1>3
  <2>1. g \in Nat
    BY <2>0, RowPlaces DEF d
  <2>2. WrittenBy(d, w, l) = vision_rope_2d_f16(u, At(<<64, 1, 1>>, w, l))
    BY <1>2, LinearShaders
  <2> HIDE DEF g
  <2> DEFINE x == g \div half
  <2>4. x \in Nat
    BY <1>1, <2>1, Division
  <2>5. (x \div heads) * heads + (x % heads) = x
    <3> HIDE DEF x
    <3>1. x = heads * (x \div heads) + (x % heads) /\ x \div heads \in Nat
          /\ x % heads \in 0..heads - 1
      BY <2>4, Division
    <3> QED
      BY <3>1
  <2>3. vision_rope_2d_f16(u, At(<<64, 1, 1>>, w, l)) =
            If(g < rows * half, {(g \div half) * dim + (g % half),
                                 (g \div half) * dim + (g % half) + half})
    <3>1. vision_rope_2d_f16(u, At(<<64, 1, 1>>, w, l)) =
              If(g < rows * half,
                 {((x \div heads) * heads + (x % heads)) * dim + (g % half),
                  ((x \div heads) * heads + (x % heads)) * dim + (g % half) + half})
      BY DEF vision_rope_2d_f16, g, half, rows
    <3> QED
      BY <2>5, <3>1
  <2> QED
    <3>1. g < rows * half <=> g \div half < rows
      BY <1>1, <1>3, <2>1, QuotientBelow
    <3> QED
      BY <2>2, <2>3, <3>1 DEF PairAt, g
<1>7. Pairs(d, rows, dim, half)
  BY <1>5, <1>6 DEF Pairs
<1>8. Complete(d)
  <2> HIDE DEF u
  <2> QED
    BY <1>1, <1>3, <1>7, PairsRow DEF d
<1> QED
  BY <1>8 DEF d, rows, half, output

-----------------------------------------------------------------------------
(* The rotation of a prompt: rows of queries and keys are taken apart. *)

ApartAt(T, Q, K, g) ==
    LET token == g \div (Q + K)
        within == g % (Q + K)
    IN  IF within < Q THEN token * Q + within
        ELSE T * Q + token * K + (within - Q)
ApartItem(T, Q, K, e) ==
    IF e < T * Q THEN (e \div Q) * (Q + K) + (e % Q)
    ELSE ((e - T * Q) \div K) * (Q + K) + Q + ((e - T * Q) % K)

LEMMA RowWithin ==
    ASSUME NEW T \in Nat, NEW W \in Nat \ {0}, NEW row \in Nat, row < T,
           NEW i \in 0..W - 1
    PROVE  /\ row * W + i \in Nat /\ row * W + i < T * W
           /\ (row * W + i) \div W = row /\ (row * W + i) % W = i
<1>1. W * row + W <= W * T
  BY Larger
<1>2. W * row = row * W /\ W * T = T * W /\ row * W \in Nat /\ T * W \in Nat
  OBVIOUS
<1>3. (W * row + i) \div W = row /\ (W * row + i) % W = i
  BY Quotient
<1> QED
  BY <1>1, <1>2, <1>3

LEMMA WithinRow ==
    ASSUME NEW T \in Nat, NEW W \in Nat \ {0}, NEW e \in Nat, e < T * W
    PROVE  /\ e \div W \in Nat /\ e \div W < T /\ e % W \in 0..W - 1
           /\ e = (e \div W) * W + (e % W)
<1> DEFINE q == e \div W
           r == e % W
<1>1. e = W * q + r /\ q \in Nat /\ r \in 0..W - 1
  BY Division
<1>2. q < T
  BY QuotientBelow
<1> HIDE DEF q, r
<1>3. e = q * W + r
  BY <1>1
<1>4. q \in Nat /\ q < T /\ r \in 0..W - 1 /\ e = q * W + r
  BY <1>1, <1>2, <1>3
<1> QED
  BY <1>4 DEF q, r

LEMMA ApartIsBelow ==
    ASSUME NEW T \in Nat, NEW Q \in Nat \ {0}, NEW K \in Nat \ {0},
           NEW g \in Nat, g < T * (Q + K)
    PROVE  /\ ApartAt(T, Q, K, g) \in Nat /\ ApartAt(T, Q, K, g) < T * (Q + K)
           /\ ApartItem(T, Q, K, ApartAt(T, Q, K, g)) = g
<1> DEFINE R == Q + K
           token == g \div R
           within == g % R
<1>1. /\ token \in Nat /\ token < T /\ within \in 0..R - 1
      /\ g = token * R + within
  <2>1. R \in Nat \ {0} /\ g < T * R
    OBVIOUS
  <2> HIDE DEF R
  <2> QED
    BY <2>1, WithinRow
<1>2. T * R = T * Q + T * K /\ T * Q \in Nat /\ T * K \in Nat
  OBVIOUS
<1>3. ApartAt(T, Q, K, g) = IF within < Q THEN token * Q + within
                            ELSE T * Q + token * K + (within - Q)
  BY DEF ApartAt
<1> DEFINE e == ApartAt(T, Q, K, g)
<1>4. CASE within < Q
  <2>1. e = token * Q + within /\ within \in 0..Q - 1
    BY <1>1, <1>3, <1>4
  <2> HIDE DEF e, token, within
  <2>2. e \in Nat /\ e < T * Q /\ e \div Q = token /\ e % Q = within
    BY <1>1, <2>1, RowWithin
  <2>3. ApartItem(T, Q, K, e) = token * R + within
    BY <2>2 DEF ApartItem
  <2> QED
    BY <1>1, <1>2, <2>2, <2>3 DEF e
<1>5. CASE ~(within < Q)
  <2> DEFINE i == within - Q
             f == token * K + i
  <2>1. i \in 0..K - 1 /\ within = Q + i
    BY <1>1, <1>5
  <2> HIDE DEF i, within, token
  <2>2. f \in Nat /\ f < T * K /\ f \div K = token /\ f % K = i
    BY <1>1, <2>1, RowWithin
  <2>3. e = T * Q + f
    <3>1. e = T * Q + token * K + i
      BY <1>3, <1>5 DEF i
    <3>2. token * K \in Nat
      BY <1>1
    <3> QED
      BY <3>1, <3>2, <2>1, <1>2
  <2> HIDE DEF e, f
  <2>4. e \in Nat /\ ~(e < T * Q) /\ e - T * Q = f /\ e < T * R
    BY <1>2, <2>2, <2>3
  <2>5. ApartItem(T, Q, K, e) = token * R + Q + i
    BY <2>2, <2>4 DEF ApartItem
  <2>6. token * R \in Nat
    BY <1>1
  <2>7. ApartItem(T, Q, K, e) = g
    BY <1>1, <2>1, <2>5, <2>6
  <2> QED
    BY <2>4, <2>7 DEF e
<1> QED
  BY <1>4, <1>5

LEMMA ItemIsApart ==
    ASSUME NEW T \in Nat, NEW Q \in Nat \ {0}, NEW K \in Nat \ {0},
           NEW e \in Nat, e < T * (Q + K)
    PROVE  /\ ApartItem(T, Q, K, e) \in Nat /\ ApartItem(T, Q, K, e) < T * (Q + K)
           /\ ApartAt(T, Q, K, ApartItem(T, Q, K, e)) = e
<1> DEFINE R == Q + K
           g == ApartItem(T, Q, K, e)
<1>1. T * R = T * Q + T * K /\ T * Q \in Nat /\ T * K \in Nat
  OBVIOUS
<1>2. CASE e < T * Q
  <2> DEFINE row == e \div Q
             i == e % Q
  <2>1. row \in Nat /\ row < T /\ i \in 0..Q - 1 /\ e = row * Q + i
    BY <1>2, WithinRow
  <2>2. g = row * R + i
    BY <1>2 DEF ApartItem
  <2> HIDE DEF row, i, g
  <2>3. i \in 0..R - 1 /\ R \in Nat \ {0}
    BY <2>1
  <2>4. g \in Nat /\ g < T * R /\ g \div R = row /\ g % R = i
    BY <2>1, <2>2, <2>3, RowWithin
  <2>5. ApartAt(T, Q, K, g) = row * Q + i
    BY <2>1, <2>4 DEF ApartAt
  <2> QED
    BY <2>1, <2>4, <2>5 DEF g
<1>3. CASE ~(e < T * Q)
  <2> DEFINE f == e - T * Q
             row == f \div K
             i == f % K
  <2>1. f \in Nat /\ f < T * K
    BY <1>1, <1>3
  <2>2. row \in Nat /\ row < T /\ i \in 0..K - 1 /\ f = row * K + i
    BY <2>1, WithinRow
  <2>3. g = row * R + Q + i
    BY <1>3 DEF ApartItem
  <2>4. e = T * Q + f
    BY <1>1, <1>3
  <2> HIDE DEF row, i, g, f
  <2> DEFINE j == Q + i
  <2>5. j \in 0..R - 1 /\ R \in Nat \ {0} /\ g = row * R + j
    <3>1. row * R \in Nat
      BY <2>2
    <3> QED
      BY <2>2, <2>3, <3>1
  <2>6. ~(j < Q) /\ j - Q = i
    BY <2>2
  <2> HIDE DEF j
  <2>7. g \in Nat /\ g < T * R /\ g \div R = row /\ g % R = j
    BY <2>2, <2>5, RowWithin
  <2>8. ApartAt(T, Q, K, g) = T * Q + row * K + i
    BY <2>6, <2>7 DEF ApartAt
  <2>9. row * K \in Nat
    BY <2>2
  <2>10. ApartAt(T, Q, K, g) = e
    BY <1>1, <2>2, <2>4, <2>8, <2>9
  <2> QED
    BY <2>7, <2>10 DEF g
<1> QED
  BY <1>2, <1>3

LEMMA PrefillMropeIsComplete ==
    ASSUME GeometryIsCounted, NEW tokens \in Nat, NEW capacity
    PROVE  Complete(RowStage("decoder_prefill_mrope_f32", tokens * RotatedWidth,
                             tokens * RotatedWidth, <<tokens, capacity, 0, 0>>))
<1> DEFINE u == <<tokens, capacity, 0, 0>>
           n == tokens * RotatedWidth
           d == RowStage("decoder_prefill_mrope_f32", n, n, u)
           Q == QueryWidth
           K == KeyValueWidth
           Item == [e \in Promised(d) |-> ApartItem(tokens, Q, K, e)]
<1>1. /\ Q \in Nat \ {0} /\ K \in Nat \ {0} /\ RotatedWidth = Q + K
      /\ n \in Nat /\ n = tokens * (Q + K)
  BY Counts
<1>2. d.kernel = "decoder_prefill_mrope_f32" /\ d.words = u
  BY DEF RowStage, Dispatch
<1>3. Promised(d) = Below(n)
  BY DEF Promised, RowStage, Dispatch, Halves
<1> HIDE DEF d, n, Q, K
<1>4. IsFiniteSet(Promised(d)) /\ (\A e : e \in Promised(d) <=> e \in Nat /\ e < n)
  BY <1>1, <1>3, Belows
<1>5. \A e \in Promised(d) : Item[e] \in Below(n)
  BY <1>1, <1>4, ItemIsApart DEF Below
<1>6. ASSUME NEW w \in Box(d.groups), NEW l \in Box(d.size), NEW e
      PROVE  e \in WrittenBy(d, w, l) <=>
                 e \in Promised(d) /\ Item[e] = At(<<64, 1, 1>>, w, l)[1]
  <2> DEFINE g == At(<<64, 1, 1>>, w, l)[1]
  <2>1. g \in Nat
    BY <1>1, RowPlaces DEF d
  <2>2. WrittenBy(d, w, l) =
            decoder_prefill_mrope_f32(u, At(<<64, 1, 1>>, w, l))
    BY <1>2, LinearShaders
  <2> HIDE DEF g
  <2>3. decoder_prefill_mrope_f32(u, At(<<64, 1, 1>>, w, l)) =
            If(g < tokens * (Q + K), {ApartAt(tokens, Q, K, g)})
    BY <1>1 DEF decoder_prefill_mrope_f32, ApartAt, g, Q, K
  <2>4. e \in WrittenBy(d, w, l) <=> g < n /\ e = ApartAt(tokens, Q, K, g)
    BY <1>1, <2>2, <2>3 DEF If
  <2>5. e \in Promised(d) => Item[e] = ApartItem(tokens, Q, K, e)
    OBVIOUS
  <2> HIDE DEF Item
  <2>6. ASSUME g < n, e = ApartAt(tokens, Q, K, g)
        PROVE  e \in Promised(d) /\ ApartItem(tokens, Q, K, e) = g
    BY <1>1, <1>4, <2>1, <2>6, ApartIsBelow
  <2>7. ASSUME e \in Promised(d), ApartItem(tokens, Q, K, e) = g
        PROVE  g < n /\ e = ApartAt(tokens, Q, K, g)
    BY <1>1, <1>4, <2>7, ItemIsApart
  <2>8. e \in WrittenBy(d, w, l) <=> e \in Promised(d) /\ Item[e] = g
    BY <2>4, <2>5, <2>6, <2>7
  <2> QED
    BY <2>8 DEF g
<1>7. OnAxis(d, n, Item)
  BY <1>4, <1>5, <1>6 DEF OnAxis
<1>8. Complete(d)
  <2> HIDE DEF u, Item
  <2> QED
    BY <1>1, <1>7, RowThreads DEF d
<1> QED
  BY <1>8 DEF d, n

-----------------------------------------------------------------------------
(* Lines on two axes. *)

LEMMA BoundedLines ==
    ASSUME GeometryIsCounted, NEW n \in Nat \ {0}
    PROVE  \E a \in Nat \ {0}, b \in Nat \ {0} :
              /\ BoundedGroups(n) = <<a, b, 1>>
              /\ n <= a * b * Tile
              /\ BoundedStride(n) = IF b = 1 THEN 0 ELSE a * Tile
              /\ n <= GroupLimit * GroupLimit * 64 =>
                     a <= GroupLimit /\ b <= GroupLimit
<1> DEFINE groups == CeilDiv(n, Tile)
           b == CeilDiv(groups, GroupLimit)
           a == CeilDiv(groups, b)
<1>1. GroupLimit \in Nat \ {0} /\ Tile = 64
  BY Counts DEF Tile
<1>2. groups \in Nat \ {0} /\ n <= 64 * groups /\ 64 * groups < n + 64
  BY <1>1, CeilDivision
<1> HIDE DEF groups
<1>3. b \in Nat \ {0} /\ groups <= GroupLimit * b
      /\ GroupLimit * b < groups + GroupLimit
  BY <1>1, <1>2, CeilDivision
<1> HIDE DEF b
<1>4. a \in Nat \ {0} /\ groups <= b * a /\ b * a < groups + b
  BY <1>2, <1>3, CeilDivision
<1> HIDE DEF a
<1>5. BoundedGroups(n) = <<a, b, 1>>
  BY DEF BoundedGroups, groups, b, a
<1>6. n <= a * b * Tile
  <2>1. b * a = a * b /\ a * b \in Nat
    BY <1>3, <1>4
  <2> DEFINE m == a * b
  <2>2. groups <= m /\ m \in Nat
    BY <1>4, <2>1
  <2> HIDE DEF m
  <2>3. n <= m * 64
    BY <1>2, <2>2
  <2> QED
    BY <1>1, <2>3 DEF m
<1>7. BoundedStride(n) = IF b = 1 THEN 0 ELSE a * Tile
  BY <1>5 DEF BoundedStride
<1>8. ASSUME n <= GroupLimit * GroupLimit * 64
      PROVE  a <= GroupLimit /\ b <= GroupLimit
  <2> DEFINE L == GroupLimit
             m == L * L
  <2>1. m \in Nat /\ n <= m * 64 /\ L \in Nat \ {0}
    BY <1>1, <1>8
  <2> HIDE DEF m
  <2>2. groups <= m
    BY <1>2, <2>1
  <2> HIDE DEF L
  <2>3. L * b < L * L + L
    BY <1>2, <1>3, <2>1, <2>2 DEF m, L
  <2>4. L * b < L * (L + 1)
    BY <2>1, <2>3
  <2>5. b < L + 1
    BY <1>3, <2>1, <2>4, Fewer
  <2>6. L * b \in Nat /\ b * L = L * b
    BY <1>3, <2>1
  <2>7. b * a < b * L + b
    BY <1>2, <1>3, <1>4, <2>1, <2>6 DEF L
  <2>8. b * a < b * (L + 1)
    BY <1>3, <2>1, <2>7
  <2>9. a < L + 1
    BY <1>3, <1>4, <2>1, <2>8, Fewer
  <2> QED
    BY <1>3, <1>4, <2>1, <2>5, <2>9 DEF L
<1> QED
  BY <1>3, <1>4, <1>5, <1>6, <1>7, <1>8

Lines(d, items) ==
    /\ Promised(d) = Below(items)
    /\ \A w \in Box(d.groups), l \in Box(d.size) :
           WrittenBy(d, w, l) =
               OnLine(At(<<64, 1, 1>>, w, l), items, BoundedStride(items))

LEMMA LineRow ==
    ASSUME GeometryIsCounted, NEW kernel, NEW output, NEW items \in Nat \ {0},
           NEW words, NEW d, d = LineStage(kernel, output, items, words),
           Lines(d, items)
    PROVE  Complete(d)
<1>1. PICK a \in Nat \ {0}, b \in Nat \ {0} :
          /\ BoundedGroups(items) = <<a, b, 1>>
          /\ items <= a * b * Tile
          /\ BoundedStride(items) = IF b = 1 THEN 0 ELSE a * Tile
  BY BoundedLines
<1> DEFINE Item == [e \in Promised(d) |-> e]
<1>2. d.size = <<64, 1, 1>> /\ d.groups = <<a, b, 1>>
  BY <1>1 DEF LineStage, Dispatch, Tile
<1>3. Promised(d) = Below(items)
  BY DEF Lines
<1>4. IsFiniteSet(Promised(d)) /\ (\A e : e \in Promised(d) <=> e \in Nat /\ e < items)
  BY <1>3, Belows
<1>5. ASSUME NEW w \in Box(d.groups), NEW l \in Box(d.size)
      PROVE  /\ LinearIndex(At(<<64, 1, 1>>, w, l), items, BoundedStride(items))
                    = ItemOf(a, w, l)
             /\ ItemOf(a, w, l) \in Nat
  <2> DEFINE g == At(<<64, 1, 1>>, w, l)
             s == BoundedStride(items)
  <2>1. /\ w[1] \in Below(a) /\ w[2] \in Below(b) /\ l[1] \in Below(64)
        /\ g[1] = w[1] * 64 + l[1] /\ g[2] = w[2]
    BY <1>2, LineBoxes
  <2> DEFINE x == w[1]
             y == w[2]
             z == l[1]
  <2>2. x \in Nat /\ y \in Nat /\ z \in Nat /\ y < b
    BY <2>1 DEF Below
  <2>3. LinearIndex(g, items, s) = g[1] + g[2] * (IF s # 0 THEN s ELSE items)
    BY DEF LinearIndex
  <2>4. ItemOf(a, w, l) = (y * a + x) * 64 + z
    BY DEF ItemOf, Tile
  <2>5. g[1] = x * 64 + z /\ g[2] = y
    BY <2>1
  <2> HIDE DEF g, x, y, z, s
  <2>6. y * a \in Nat
    BY <2>2
  <2>7. CASE b = 1
    <3>1. y = 0 /\ s = 0
      BY <1>1, <2>2, <2>7 DEF s
    <3>2. LinearIndex(g, items, s) = x * 64 + z
      BY <2>2, <2>3, <2>5, <3>1
    <3>3. ItemOf(a, w, l) = x * 64 + z
      BY <2>2, <2>4, <3>1
    <3> QED
      BY <2>2, <3>2, <3>3 DEF g, s
  <2>8. CASE b # 1
    <3>1. s = a * 64 /\ a * 64 # 0
      BY <1>1, <2>8 DEF s, Tile
    <3>2. LinearIndex(g, items, s) = x * 64 + z + y * (a * 64)
      BY <2>3, <2>5, <3>1
    <3>3. y * (a * 64) = (y * a) * 64
      BY <2>2
    <3>4. LinearIndex(g, items, s) = ItemOf(a, w, l)
      BY <2>2, <2>4, <2>6, <3>2, <3>3
    <3> QED
      BY <2>2, <2>4, <2>6, <3>4 DEF g, s
  <2> QED
    BY <2>7, <2>8
<1>6. ASSUME NEW w \in Box(d.groups), NEW l \in Box(d.size), NEW e
      PROVE  e \in WrittenBy(d, w, l) <=>
                 e \in Promised(d) /\ Item[e] = ItemOf(a, w, l)
  <2>1. WrittenBy(d, w, l) =
            OnLine(At(<<64, 1, 1>>, w, l), items, BoundedStride(items))
    BY DEF Lines
  <2>2. WrittenBy(d, w, l) = If(ItemOf(a, w, l) < items, {ItemOf(a, w, l)})
    BY <1>5, <2>1 DEF OnLine
  <2>3. e \in Promised(d) => Item[e] = e
    OBVIOUS
  <2> HIDE DEF Item
  <2>4. ItemOf(a, w, l) \in Nat
    BY <1>5
  <2> DEFINE i == ItemOf(a, w, l)
  <2> HIDE DEF i
  <2>5. e \in WrittenBy(d, w, l) <=> i < items /\ e = i
    BY <2>2 DEF If, i
  <2> QED
    BY <1>4, <2>3, <2>4, <2>5 DEF i
<1>7. \A e \in Promised(d) : Item[e] \in Below(items)
  BY <1>3
<1> HIDE DEF Item
<1>8. IsLine(d, a, b, items, Item)
  BY <1>1, <1>2, <1>4, <1>6, <1>7 DEF IsLine
<1> QED
  BY <1>8, LineThreads

LEMMA SingleDivision ==
    ASSUME NEW n \in Nat
    PROVE  CeilDiv(n, 1) = n /\ (n + 3) \div 4 = CeilDiv(n, 4)
  BY DEF CeilDiv

LEMMA SiluIsComplete ==
    ASSUME GeometryIsCounted, NEW count \in Nat \ {0}
    PROVE  Complete(ElementStage("silu_f32", count, 1))
<1> DEFINE items == CeilDiv(count, 1)
           u == <<count, BoundedStride(items), 0, 0>>
           d == LineStage("silu_f32", count, items, u)
<1>1. d = ElementStage("silu_f32", count, 1)
  BY DEF ElementStage
<1>2. items \in Nat \ {0} /\ items = count
  BY CeilDivision, SingleDivision
<1>3. d.kernel = "silu_f32" /\ d.words = u
  BY DEF LineStage, Dispatch
<1>4. Promised(d) = Below(items)
  BY <1>2 DEF Promised, LineStage, Dispatch, Halves
<1> HIDE DEF d, items
<1>5. ASSUME NEW w \in Box(d.groups), NEW l \in Box(d.size)
      PROVE  WrittenBy(d, w, l) =
                 OnLine(At(<<64, 1, 1>>, w, l), items, BoundedStride(items))
  <2>1. WrittenBy(d, w, l) = silu_f32(u, At(<<64, 1, 1>>, w, l))
    BY <1>3, LinearShaders
  <2> QED
    BY <1>2, <2>1 DEF silu_f32
<1>6. Lines(d, items)
  BY <1>4, <1>5 DEF Lines
<1>7. Complete(d)
  <2> HIDE DEF u
  <2> QED
    BY <1>2, <1>6, LineRow DEF d
<1> QED
  BY <1>1, <1>7

LEMMA GeluTanhIsComplete ==
    ASSUME GeometryIsCounted, NEW count \in Nat \ {0}
    PROVE  Complete(ElementStage("gelu_tanh_f32", count, 1))
<1> DEFINE items == CeilDiv(count, 1)
           u == <<count, BoundedStride(items), 0, 0>>
           d == LineStage("gelu_tanh_f32", count, items, u)
<1>1. d = ElementStage("gelu_tanh_f32", count, 1)
  BY DEF ElementStage
<1>2. items \in Nat \ {0} /\ items = count
  BY CeilDivision, SingleDivision
<1>3. d.kernel = "gelu_tanh_f32" /\ d.words = u
  BY DEF LineStage, Dispatch
<1>4. Promised(d) = Below(items)
  BY <1>2 DEF Promised, LineStage, Dispatch, Halves
<1> HIDE DEF d, items
<1>5. ASSUME NEW w \in Box(d.groups), NEW l \in Box(d.size)
      PROVE  WrittenBy(d, w, l) =
                 OnLine(At(<<64, 1, 1>>, w, l), items, BoundedStride(items))
  <2>1. WrittenBy(d, w, l) = gelu_tanh_f32(u, At(<<64, 1, 1>>, w, l))
    BY <1>3, LinearShaders
  <2> QED
    BY <1>2, <2>1 DEF gelu_tanh_f32
<1>6. Lines(d, items)
  BY <1>4, <1>5 DEF Lines
<1>7. Complete(d)
  <2> HIDE DEF u
  <2> QED
    BY <1>2, <1>6, LineRow DEF d
<1> QED
  BY <1>1, <1>7

LEMMA GeluErfIsComplete ==
    ASSUME GeometryIsCounted, NEW count \in Nat \ {0}
    PROVE  Complete(ElementStage("gelu_erf_f32", count, 1))
<1> DEFINE items == CeilDiv(count, 1)
           u == <<count, BoundedStride(items), 0, 0>>
           d == LineStage("gelu_erf_f32", count, items, u)
<1>1. d = ElementStage("gelu_erf_f32", count, 1)
  BY DEF ElementStage
<1>2. items \in Nat \ {0} /\ items = count
  BY CeilDivision, SingleDivision
<1>3. d.kernel = "gelu_erf_f32" /\ d.words = u
  BY DEF LineStage, Dispatch
<1>4. Promised(d) = Below(items)
  BY <1>2 DEF Promised, LineStage, Dispatch, Halves
<1> HIDE DEF d, items
<1>5. ASSUME NEW w \in Box(d.groups), NEW l \in Box(d.size)
      PROVE  WrittenBy(d, w, l) =
                 OnLine(At(<<64, 1, 1>>, w, l), items, BoundedStride(items))
  <2>1. WrittenBy(d, w, l) = gelu_erf_f32(u, At(<<64, 1, 1>>, w, l))
    BY <1>3, LinearShaders
  <2> QED
    BY <1>2, <2>1 DEF gelu_erf_f32
<1>6. Lines(d, items)
  BY <1>4, <1>5 DEF Lines
<1>7. Complete(d)
  <2> HIDE DEF u
  <2> QED
    BY <1>2, <1>6, LineRow DEF d
<1> QED
  BY <1>1, <1>7

LEMMA AddLineIsComplete ==
    ASSUME GeometryIsCounted, NEW count \in Nat \ {0}
    PROVE  Complete(ElementStage("add_f32", count, 1))
<1> DEFINE items == CeilDiv(count, 1)
           u == <<count, BoundedStride(items), 0, 0>>
           d == LineStage("add_f32", count, items, u)
<1>1. d = ElementStage("add_f32", count, 1)
  BY DEF ElementStage
<1>2. items \in Nat \ {0} /\ items = count
  BY CeilDivision, SingleDivision
<1>3. d.kernel = "add_f32" /\ d.words = u
  BY DEF LineStage, Dispatch
<1>4. Promised(d) = Below(items)
  BY <1>2 DEF Promised, LineStage, Dispatch, Halves
<1> HIDE DEF d, items
<1>5. ASSUME NEW w \in Box(d.groups), NEW l \in Box(d.size)
      PROVE  WrittenBy(d, w, l) =
                 OnLine(At(<<64, 1, 1>>, w, l), items, BoundedStride(items))
  <2>1. WrittenBy(d, w, l) = add_f32(u, At(<<64, 1, 1>>, w, l))
    BY <1>3, LinearShaders
  <2> QED
    BY <1>2, <2>1 DEF add_f32
<1>6. Lines(d, items)
  BY <1>4, <1>5 DEF Lines
<1>7. Complete(d)
  <2> HIDE DEF u
  <2> QED
    BY <1>2, <1>6, LineRow DEF d
<1> QED
  BY <1>1, <1>7

LEMMA HalfAddIsComplete ==
    ASSUME GeometryIsCounted, NEW count \in Nat \ {0}
    PROVE  Complete(ElementStage("add_f16", count, 4))
<1> DEFINE items == CeilDiv(count, 4)
           u == <<count, BoundedStride(items), 0, 0>>
           d == LineStage("add_f16", count, items, u)
<1>1. d = ElementStage("add_f16", count, 4)
  BY DEF ElementStage
<1>2. items \in Nat \ {0} /\ items = (count + 3) \div 4
  BY CeilDivision, SingleDivision
<1>3. d.kernel = "add_f16" /\ d.words = u
  BY DEF LineStage, Dispatch
<1>4. Promised(d) = Below(items)
  BY <1>2 DEF Promised, LineStage, Dispatch, Halves
<1> HIDE DEF d, items
<1>5. ASSUME NEW w \in Box(d.groups), NEW l \in Box(d.size)
      PROVE  WrittenBy(d, w, l) =
                 OnLine(At(<<64, 1, 1>>, w, l), items, BoundedStride(items))
  <2>1. WrittenBy(d, w, l) = add_f16(u, At(<<64, 1, 1>>, w, l))
    BY <1>3, LinearShaders
  <2> QED
    BY <1>2, <2>1 DEF add_f16
<1>6. Lines(d, items)
  BY <1>4, <1>5 DEF Lines
<1>7. Complete(d)
  <2> HIDE DEF u
  <2> QED
    BY <1>2, <1>6, LineRow DEF d
<1> QED
  BY <1>1, <1>7

LEMMA HalfGeluTanhIsComplete ==
    ASSUME GeometryIsCounted, NEW count \in Nat \ {0}
    PROVE  Complete(ElementStage("gelu_tanh_f16", count, 4))
<1> DEFINE items == CeilDiv(count, 4)
           u == <<count, BoundedStride(items), 0, 0>>
           d == LineStage("gelu_tanh_f16", count, items, u)
<1>1. d = ElementStage("gelu_tanh_f16", count, 4)
  BY DEF ElementStage
<1>2. items \in Nat \ {0} /\ items = (count + 3) \div 4
  BY CeilDivision, SingleDivision
<1>3. d.kernel = "gelu_tanh_f16" /\ d.words = u
  BY DEF LineStage, Dispatch
<1>4. Promised(d) = Below(items)
  BY <1>2 DEF Promised, LineStage, Dispatch, Halves
<1> HIDE DEF d, items
<1>5. ASSUME NEW w \in Box(d.groups), NEW l \in Box(d.size)
      PROVE  WrittenBy(d, w, l) =
                 OnLine(At(<<64, 1, 1>>, w, l), items, BoundedStride(items))
  <2>1. WrittenBy(d, w, l) = gelu_tanh_f16(u, At(<<64, 1, 1>>, w, l))
    BY <1>3, LinearShaders
  <2> QED
    BY <1>2, <2>1 DEF gelu_tanh_f16
<1>6. Lines(d, items)
  BY <1>4, <1>5 DEF Lines
<1>7. Complete(d)
  <2> HIDE DEF u
  <2> QED
    BY <1>2, <1>6, LineRow DEF d
<1> QED
  BY <1>1, <1>7

LEMMA HalfGeluErfIsComplete ==
    ASSUME GeometryIsCounted, NEW count \in Nat \ {0}
    PROVE  Complete(ElementStage("gelu_erf_f16", count, 4))
<1> DEFINE items == CeilDiv(count, 4)
           u == <<count, BoundedStride(items), 0, 0>>
           d == LineStage("gelu_erf_f16", count, items, u)
<1>1. d = ElementStage("gelu_erf_f16", count, 4)
  BY DEF ElementStage
<1>2. items \in Nat \ {0} /\ items = (count + 3) \div 4
  BY CeilDivision, SingleDivision
<1>3. d.kernel = "gelu_erf_f16" /\ d.words = u
  BY DEF LineStage, Dispatch
<1>4. Promised(d) = Below(items)
  BY <1>2 DEF Promised, LineStage, Dispatch, Halves
<1> HIDE DEF d, items
<1>5. ASSUME NEW w \in Box(d.groups), NEW l \in Box(d.size)
      PROVE  WrittenBy(d, w, l) =
                 OnLine(At(<<64, 1, 1>>, w, l), items, BoundedStride(items))
  <2>1. WrittenBy(d, w, l) = gelu_erf_f16(u, At(<<64, 1, 1>>, w, l))
    BY <1>3, LinearShaders
  <2> QED
    BY <1>2, <2>1 DEF gelu_erf_f16
<1>6. Lines(d, items)
  BY <1>4, <1>5 DEF Lines
<1>7. Complete(d)
  <2> HIDE DEF u
  <2> QED
    BY <1>2, <1>6, LineRow DEF d
<1> QED
  BY <1>1, <1>7

LEMMA LineIndexIsCount ==
    ASSUME GeometryIsCounted, NEW kernel, NEW output, NEW items \in Nat \ {0},
           NEW words, NEW d, d = LineStage(kernel, output, items, words),
           NEW w \in Box(d.groups), NEW l \in Box(d.size)
    PROVE  LinearIndex(At(<<64, 1, 1>>, w, l), items, BoundedStride(items)) \in Nat
<1>1. PICK a \in Nat \ {0}, b \in Nat \ {0} :
          /\ BoundedGroups(items) = <<a, b, 1>>
          /\ BoundedStride(items) = IF b = 1 THEN 0 ELSE a * Tile
  BY BoundedLines
<1>2. d.size = <<64, 1, 1>> /\ d.groups = <<a, b, 1>>
  BY <1>1 DEF LineStage, Dispatch, Tile
<1> DEFINE g == At(<<64, 1, 1>>, w, l)
           s == BoundedStride(items)
           t == IF s # 0 THEN s ELSE items
<1>3. w[2] \in Nat /\ g[1] \in Nat /\ g[2] = w[2]
  BY <1>2, LineBoxes DEF Below
<1>4. t \in Nat
  BY <1>1 DEF Tile
<1>5. LinearIndex(g, items, s) = g[1] + g[2] * t
  BY DEF LinearIndex
<1> HIDE DEF g, t
<1> QED
  BY <1>3, <1>4, <1>5 DEF g

LEMMA MergeIsComplete ==
    ASSUME GeometryIsCounted, NEW tokens \in Nat \ {0},
           NEW hidden \in Nat \ {0}
    PROVE  Complete(MergeStage("projector_merge_2x2_f32", tokens, hidden, 1))
<1> DEFINE elements == tokens * hidden * 4
           width == hidden * 4
           items == CeilDiv(elements, 1)
           u == <<tokens, hidden, elements, BoundedStride(items)>>
           d == LineStage("projector_merge_2x2_f32", elements, items, u)
<1>1. d = MergeStage("projector_merge_2x2_f32", tokens, hidden, 1)
  BY DEF MergeStage
<1>2. elements \in Nat \ {0} /\ width \in Nat \ {0}
  <2>1. tokens * hidden \in Nat \ {0}
    OBVIOUS
  <2> QED
    BY <2>1
<1>3. items = tokens * width /\ items = elements
  <2>1. items = elements
    BY <1>2, SingleDivision
  <2>2. elements = tokens * width
    OBVIOUS
  <2> QED
    BY <2>1, <2>2
<1>4. items \in Nat \ {0}
  BY <1>2, <1>3
<1>5. d.kernel = "projector_merge_2x2_f32" /\ d.words = u
  BY DEF LineStage, Dispatch
<1>6. Promised(d) = Below(items)
  BY <1>3 DEF Promised, LineStage, Dispatch, Halves
<1> HIDE DEF d, items, elements, width
<1>7. ASSUME NEW w \in Box(d.groups), NEW l \in Box(d.size)
      PROVE  WrittenBy(d, w, l) =
                 OnLine(At(<<64, 1, 1>>, w, l), items, BoundedStride(items))
  <2> DEFINE line == OnLine(At(<<64, 1, 1>>, w, l), items, BoundedStride(items))
  <2>1. WrittenBy(d, w, l) = projector_merge_2x2_f32(u, At(<<64, 1, 1>>, w, l))
    BY <1>5, LinearShaders
  <2>2. projector_merge_2x2_f32(u, At(<<64, 1, 1>>, w, l)) =
            {index \in line : index \div width < tokens}
    BY <1>3 DEF projector_merge_2x2_f32, width
  <2>3. ASSUME NEW index \in line
        PROVE  index \div width < tokens
    <3>1. index < items /\ index \in Nat
      <4>1. index = LinearIndex(At(<<64, 1, 1>>, w, l), items, BoundedStride(items))
        BY DEF OnLine, If
      <4>2. index < items
        BY <4>1 DEF OnLine, If
      <4>3. index \in Nat
        BY <1>4, <4>1, LineIndexIsCount DEF d
      <4> QED
        BY <4>2, <4>3
    <3> QED
      BY <1>2, <1>3, <3>1, QuotientBelow
  <2> HIDE DEF line
  <2>4. {index \in line : index \div width < tokens} = line
    BY <2>3
  <2> QED
    BY <2>1, <2>2, <2>4 DEF line
<1>8. Lines(d, items)
  BY <1>6, <1>7 DEF Lines
<1>9. Complete(d)
  <2> HIDE DEF u
  <2> QED
    BY <1>4, <1>8, LineRow DEF d
<1> QED
  BY <1>1, <1>9

LEMMA HalfMergeIsComplete ==
    ASSUME GeometryIsCounted, NEW tokens \in Nat \ {0},
           NEW hidden \in Nat \ {0}, hidden % 4 = 0
    PROVE  Complete(MergeStage("projector_merge_2x2_f16", tokens, hidden, 4))
<1> DEFINE elements == tokens * hidden * 4
           width == (hidden \div 4) * 4
           items == CeilDiv(elements, 4)
           u == <<tokens, hidden, elements, BoundedStride(items)>>
           d == LineStage("projector_merge_2x2_f16", elements, items, u)
<1>1. d = MergeStage("projector_merge_2x2_f16", tokens, hidden, 4)
  BY DEF MergeStage
<1>2. elements \in Nat \ {0} /\ width \in Nat \ {0}
  <2>1. width = hidden
    OBVIOUS
  <2>2. tokens * hidden \in Nat \ {0}
    OBVIOUS
  <2> QED
    BY <2>1, <2>2
<1>3. items = tokens * width /\ items = elements \div 4
  <2>1. width = hidden
    OBVIOUS
  <2> DEFINE m == tokens * hidden
  <2>2. m \in Nat /\ elements = m * 4
    OBVIOUS
  <2> HIDE DEF m
  <2>3. elements \div 4 = m /\ elements % 4 = 0
    BY <2>2
  <2> HIDE DEF elements
  <2>4. items = m
    BY <2>2, <2>3 DEF CeilDiv
  <2> QED
    BY <2>1, <2>3, <2>4 DEF m
<1>4. items \in Nat \ {0}
  <2> HIDE DEF elements
  <2> QED
    BY <1>2, CeilDivision
<1>5. d.kernel = "projector_merge_2x2_f16" /\ d.words = u
  BY DEF LineStage, Dispatch
<1>6. Promised(d) = Below(items)
  BY <1>3 DEF Promised, LineStage, Dispatch, Halves
<1> HIDE DEF d, items, elements, width
<1>7. ASSUME NEW w \in Box(d.groups), NEW l \in Box(d.size)
      PROVE  WrittenBy(d, w, l) =
                 OnLine(At(<<64, 1, 1>>, w, l), items, BoundedStride(items))
  <2> DEFINE line == OnLine(At(<<64, 1, 1>>, w, l), items, BoundedStride(items))
  <2>1. WrittenBy(d, w, l) = projector_merge_2x2_f16(u, At(<<64, 1, 1>>, w, l))
    BY <1>5, LinearShaders
  <2>2. projector_merge_2x2_f16(u, At(<<64, 1, 1>>, w, l)) =
            {index \in line : index \div width < tokens}
    BY <1>3 DEF projector_merge_2x2_f16, width
  <2>3. ASSUME NEW index \in line
        PROVE  index \div width < tokens
    <3>1. index < items /\ index \in Nat
      <4>1. index = LinearIndex(At(<<64, 1, 1>>, w, l), items, BoundedStride(items))
        BY DEF OnLine, If
      <4>2. index < items
        BY <4>1 DEF OnLine, If
      <4>3. index \in Nat
        BY <1>4, <4>1, LineIndexIsCount DEF d
      <4> QED
        BY <4>2, <4>3
    <3> QED
      BY <1>2, <1>3, <3>1, QuotientBelow
  <2> HIDE DEF line
  <2>4. {index \in line : index \div width < tokens} = line
    BY <2>3
  <2> QED
    BY <2>1, <2>2, <2>4 DEF line
<1>8. Lines(d, items)
  BY <1>6, <1>7 DEF Lines
<1>9. Complete(d)
  <2> HIDE DEF u
  <2> QED
    BY <1>4, <1>8, LineRow DEF d
<1> QED
  BY <1>1, <1>9

-----------------------------------------------------------------------------
(* Dispatches on several axes: X, Y and Z give the coordinates of the      *)
(* thread that owns an element, counted over all workgroups.               *)

IsGrid(d, a, b, c, sx, sy, X, Y, Z) ==
    /\ d.size = <<sx, sy, 1>> /\ d.groups = <<a, b, c>>
    /\ IsFiniteSet(Promised(d))
    /\ \A e \in Promised(d) :
           X[e] \in Below(a * sx) /\ Y[e] \in Below(b * sy) /\ Z[e] \in Below(c)
    /\ \A w \in Box(d.groups), l \in Box(d.size) :
           \A e : e \in WrittenBy(d, w, l) <=>
                     /\ e \in Promised(d)
                     /\ X[e] = w[1] * sx + l[1]
                     /\ Y[e] = w[2] * sy + l[2]
                     /\ Z[e] = w[3]

LEMMA Slots ==
    ASSUME NEW a \in Nat, NEW s \in Nat \ {0}, NEW x \in Below(a * s)
    PROVE  /\ x \div s \in Below(a) /\ x % s \in Below(s)
           /\ \A w \in Below(a), l \in Below(s) :
                  x \div s = w /\ x % s = l <=> x = w * s + l
<1>1. x \in Nat /\ x < a * s
  BY Belows
<1>2. /\ x \div s \in Nat /\ x \div s < a /\ x % s \in 0..s - 1
      /\ x = (x \div s) * s + (x % s)
  BY <1>1, WithinRow
<1>3. ASSUME NEW w \in Below(a), NEW l \in Below(s)
      PROVE  x \div s = w /\ x % s = l <=> x = w * s + l
  <2>1. w \in Nat /\ w < a /\ l \in 0..s - 1
    BY DEF Below
  <2>2. (w * s + l) \div s = w /\ (w * s + l) % s = l
    BY <2>1, RowWithin
  <2> QED
    BY <1>2, <2>2
<1> QED
  BY <1>2, <1>3 DEF Below

LEMMA GridThreads ==
    ASSUME NEW d, NEW a \in Nat, NEW b \in Nat, NEW c \in Nat,
           NEW sx \in Nat \ {0}, NEW sy \in Nat \ {0}, NEW X, NEW Y, NEW Z,
           IsGrid(d, a, b, c, sx, sy, X, Y, Z)
    PROVE  Complete(d)
<1> DEFINE Own == [e \in Promised(d) |->
                      <<<<X[e] \div sx, Y[e] \div sy, Z[e]>>,
                        <<X[e] % sx, Y[e] % sy, 0>>>>]
<1>1. d.size = <<sx, sy, 1>> /\ d.groups = <<a, b, c>> /\ Below(1) = {0}
  BY Belows DEF IsGrid
<1>2. ASSUME NEW e \in Promised(d)
      PROVE  Own[e] \in Owners(d)
  <2>1. X[e] \in Below(a * sx) /\ Y[e] \in Below(b * sy) /\ Z[e] \in Below(c)
    BY DEF IsGrid
  <2>2. X[e] \div sx \in Below(a) /\ X[e] % sx \in Below(sx)
    BY <2>1, Slots
  <2>3. Y[e] \div sy \in Below(b) /\ Y[e] % sy \in Below(sy)
    BY <2>1, Slots
  <2>4. <<X[e] \div sx, Y[e] \div sy, Z[e]>> \in Box(<<a, b, c>>)
    BY <2>1, <2>2, <2>3, InBox
  <2>5. <<X[e] % sx, Y[e] % sy, 0>> \in Box(<<sx, sy, 1>>)
    BY <1>1, <2>2, <2>3, InBox
  <2> QED
    BY <1>1, <2>4, <2>5 DEF Owners
<1>3. ASSUME NEW w \in Box(d.groups), NEW l \in Box(d.size), NEW e
      PROVE  e \in WrittenBy(d, w, l) <=>
                 e \in Promised(d) /\ Own[e] = <<w, l>>
  <2>1. e \in WrittenBy(d, w, l) <=>
            /\ e \in Promised(d) /\ X[e] = w[1] * sx + l[1]
            /\ Y[e] = w[2] * sy + l[2] /\ Z[e] = w[3]
    BY DEF IsGrid
  <2>2. /\ w[1] \in Below(a) /\ w[2] \in Below(b) /\ w[3] \in Below(c)
        /\ w = <<w[1], w[2], w[3]>>
    BY <1>1, OfBox
  <2>3. /\ l[1] \in Below(sx) /\ l[2] \in Below(sy) /\ l[3] \in Below(1)
        /\ l = <<l[1], l[2], l[3]>>
    BY <1>1, OfBox
  <2>4. l[3] = 0
    BY <1>1, <2>3
  <2>5. ASSUME e \in Promised(d)
        PROVE  Own[e] = <<w, l>> <=>
                   /\ X[e] = w[1] * sx + l[1]
                   /\ Y[e] = w[2] * sy + l[2] /\ Z[e] = w[3]
    <3>1. X[e] \in Below(a * sx) /\ Y[e] \in Below(b * sy)
      BY <2>5 DEF IsGrid
    <3>2. X[e] \div sx = w[1] /\ X[e] % sx = l[1] <=> X[e] = w[1] * sx + l[1]
      BY <2>2, <2>3, <3>1, Slots
    <3>3. Y[e] \div sy = w[2] /\ Y[e] % sy = l[2] <=> Y[e] = w[2] * sy + l[2]
      BY <2>2, <2>3, <3>1, Slots
    <3> DEFINE p == X[e] \div sx
               q == X[e] % sx
               r == Y[e] \div sy
               s == Y[e] % sy
    <3>4. Own[e] = <<<<p, r, Z[e]>>, <<q, s, 0>>>>
      BY <2>5
    <3> HIDE DEF Own
    <3>5. Own[e] = <<w, l>> <=> /\ p = w[1] /\ r = w[2] /\ Z[e] = w[3]
                                /\ q = l[1] /\ s = l[2]
      <4> HIDE DEF p, q, r, s
      <4> QED
        BY <2>2, <2>3, <2>4, <3>4
    <3> QED
      BY <3>2, <3>3, <3>5
  <2> QED
    BY <2>1, <2>5
<1> HIDE DEF Own
<1>4. IsFiniteSet(Promised(d))
  BY DEF IsGrid
<1>5. OwnedBy(d, Own)
  BY <1>2, <1>3, <1>4 DEF OwnedBy
<1> QED
  BY <1>5, OwnersComplete

LEMMA GridBoxes ==
    ASSUME NEW a \in Nat, NEW b \in Nat, NEW c \in Nat, NEW sx \in Nat,
           NEW sy \in Nat, NEW w \in Box(<<a, b, c>>), NEW l \in Box(<<sx, sy, 1>>)
    PROVE  /\ w[1] \in Nat /\ w[1] < a /\ w[2] \in Nat /\ w[2] < b
           /\ w[3] \in Nat /\ w[3] < c
           /\ l[1] \in Nat /\ l[1] < sx /\ l[2] \in Nat /\ l[2] < sy /\ l[3] = 0
           /\ At(<<sx, sy, 1>>, w, l)[1] = w[1] * sx + l[1]
           /\ At(<<sx, sy, 1>>, w, l)[2] = w[2] * sy + l[2]
           /\ At(<<sx, sy, 1>>, w, l)[3] = w[3]
<1>1. /\ w[1] \in Below(a) /\ w[2] \in Below(b) /\ w[3] \in Below(c)
      /\ l[1] \in Below(sx) /\ l[2] \in Below(sy) /\ l[3] \in Below(1)
  BY OfBox
<1>2. /\ w[1] \in Nat /\ w[1] < a /\ w[2] \in Nat /\ w[2] < b
      /\ w[3] \in Nat /\ w[3] < c
      /\ l[1] \in Nat /\ l[1] < sx /\ l[2] \in Nat /\ l[2] < sy /\ l[3] = 0
  BY <1>1 DEF Below
<1>3. /\ At(<<sx, sy, 1>>, w, l)[1] = w[1] * sx + l[1]
      /\ At(<<sx, sy, 1>>, w, l)[2] = w[2] * sy + l[2]
      /\ At(<<sx, sy, 1>>, w, l)[3] = w[3] * 1 + l[3]
  BY DEF At
<1> QED
  BY <1>2, <1>3


(* A matrix of columns that are N wide: a tile of it, and who owns what.   *)
Table(R, C, N) == {row * N + column : row \in R, column \in C}

LEMMA InTable ==
    ASSUME NEW M \in Nat, NEW N \in Nat \ {0}, NEW R \in SUBSET Below(M),
           NEW C \in SUBSET Below(N), NEW e
    PROVE  e \in Table(R, C, N) <=>
               e \in Below(M * N) /\ e \div N \in R /\ e % N \in C
<1>0. M * N \in Nat
  OBVIOUS
<1>1. ASSUME e \in Table(R, C, N)
      PROVE  e \in Below(M * N) /\ e \div N \in R /\ e % N \in C
  <2>1. PICK row \in R, column \in C : e = row * N + column
    BY <1>1 DEF Table
  <2>2. row \in Nat /\ row < M /\ column \in 0..N - 1
    BY DEF Below
  <2>3. e \in Nat /\ e < M * N /\ e \div N = row /\ e % N = column
    BY <2>1, <2>2, RowWithin
  <2> QED
    BY <1>0, <2>3, Belows
<1>2. ASSUME e \in Below(M * N), e \div N \in R, e % N \in C
      PROVE  e \in Table(R, C, N)
  <2>1. e \in Nat /\ e < M * N
    BY <1>0, <1>2, Belows
  <2>2. e = (e \div N) * N + (e % N)
    BY <2>1, WithinRow
  <2> QED
    BY <1>2, <2>2 DEF Table
<1> QED
  BY <1>1, <1>2

(* The n items of tile y, those that lie below a limit. *)
TileOf(y, n, limit) == {v \in {y * n + i : i \in Below(n)} : v < limit}

LEMMA InTile ==
    ASSUME NEW y \in Nat, NEW n \in Nat \ {0}, NEW limit \in Nat, NEW v
    PROVE  v \in TileOf(y, n, limit) <=> v \in Below(limit) /\ v \div n = y
<1>1. ASSUME v \in TileOf(y, n, limit)
      PROVE  v \in Below(limit) /\ v \div n = y
  <2>1. PICK i \in Below(n) : v = y * n + i /\ v < limit
    BY <1>1 DEF TileOf
  <2>2. i \in 0..n - 1
    BY DEF Below
  <2>3. v \in Nat /\ v \div n = y
    BY <2>1, <2>2, RowWithin, y + 1 \in Nat, y < y + 1
  <2> QED
    BY <2>1, <2>3, Belows
<1>2. ASSUME v \in Below(limit), v \div n = y
      PROVE  v \in TileOf(y, n, limit)
  <2>1. v \in Nat /\ v < limit
    BY <1>2, Belows
  <2> DEFINE r == v % n
  <2>2. v = n * (v \div n) + r /\ r \in 0..n - 1
    BY <2>1, Division
  <2> HIDE DEF r
  <2>3. v = y * n + r /\ r \in Below(n)
    BY <1>2, <2>2 DEF Below
  <2> QED
    BY <2>1, <2>3 DEF TileOf
<1> QED
  BY <1>1, <1>2

(* Threads that write tiles of th rows and tw columns of an M by N output. *)
IsTiled(d, M, N, tw, th, sx, sy) ==
    /\ d.size = <<sx, sy, 1>>
    /\ d.groups = <<CeilDiv(N, tw * sx), CeilDiv(M, th * sy), 1>>
    /\ Promised(d) = Below(M * N)
    /\ \A w \in Box(d.groups), l \in Box(d.size) :
           \A e : e \in WrittenBy(d, w, l) <=>
                     e \in Table(TileOf(w[2] * sy + l[2], th, M),
                                 TileOf(w[1] * sx + l[1], tw, N), N)

LEMMA TileCount ==
    ASSUME NEW n \in Nat, NEW t \in Nat \ {0}, NEW s \in Nat \ {0},
           NEW i \in Below(n)
    PROVE  i \div t \in Below(CeilDiv(n, t * s) * s)
<1> DEFINE c == CeilDiv(n, t * s)
           q == i \div t
<1>1. t * s \in Nat \ {0} /\ i \in Nat /\ i < n
  BY Belows
<1>2. c \in Nat /\ n <= (t * s) * c
  BY <1>1, CeilDivision
<1>3. q \in Nat /\ t * q <= i
  <2>1. i = t * q + (i % t) /\ q \in Nat /\ i % t \in 0..t - 1
    BY <1>1, Division
  <2> HIDE DEF q
  <2> QED
    BY <1>1, <2>1
<1> HIDE DEF c, q
<1>4. c * s \in Nat /\ (t * s) * c = t * (c * s)
  BY <1>2
<1> DEFINE m == c * s
<1>5. t * q < t * m /\ m \in Nat
  BY <1>1, <1>2, <1>3, <1>4
<1> HIDE DEF m
<1>6. q < m
  BY <1>3, <1>5, Fewer
<1> QED
  BY <1>3, <1>5, <1>6, Belows DEF m, c, q

LEMMA TilesAreComplete ==
    ASSUME NEW d, NEW M \in Nat, NEW N \in Nat \ {0}, NEW tw \in Nat \ {0},
           NEW th \in Nat \ {0}, NEW sx \in Nat \ {0}, NEW sy \in Nat \ {0},
           IsTiled(d, M, N, tw, th, sx, sy)
    PROVE  Complete(d)
<1> DEFINE a == CeilDiv(N, tw * sx)
           b == CeilDiv(M, th * sy)
           P == Promised(d)
           X == [e \in P |-> (e % N) \div tw]
           Y == [e \in P |-> (e \div N) \div th]
           Z == [e \in P |-> 0]
<1>1. a \in Nat /\ b \in Nat
  <2>1. tw * sx \in Nat \ {0} /\ th * sy \in Nat \ {0}
    OBVIOUS
  <2> QED
    BY <2>1, CeilDivision
<1>2. d.size = <<sx, sy, 1>> /\ d.groups = <<a, b, 1>> /\ P = Below(M * N)
  BY DEF IsTiled
<1> HIDE DEF a, b, P
<1>3. IsFiniteSet(P)
  BY <1>2, Belows, M * N \in Nat
<1>4. ASSUME NEW e \in P
      PROVE  e \div N \in Below(M) /\ e % N \in Below(N)
  <2>1. e \in Nat /\ e < M * N
    BY <1>2, Belows, M * N \in Nat
  <2>2. e \div N \in Nat /\ e \div N < M /\ e % N \in 0..N - 1
    BY <2>1, WithinRow
  <2> QED
    BY <2>2, Belows DEF Below
<1>5. ASSUME NEW e \in P
      PROVE  X[e] \in Below(a * sx) /\ Y[e] \in Below(b * sy) /\ Z[e] \in Below(1)
  <2>1. (e % N) \div tw \in Below(a * sx)
    BY <1>4, TileCount DEF a
  <2>2. (e \div N) \div th \in Below(b * sy)
    BY <1>4, TileCount DEF b
  <2> QED
    BY <2>1, <2>2, Belows
<1>6. ASSUME NEW w \in Box(d.groups), NEW l \in Box(d.size), NEW e
      PROVE  e \in WrittenBy(d, w, l) <=>
                /\ e \in P
                /\ X[e] = w[1] * sx + l[1] /\ Y[e] = w[2] * sy + l[2]
                /\ Z[e] = w[3]
  <2>1. /\ w[1] \in Nat /\ w[2] \in Nat /\ w[3] = 0
        /\ l[1] \in Nat /\ l[2] \in Nat
    <3>1. w[3] \in Nat /\ w[3] < 1 => w[3] = 0
      OBVIOUS
    <3> QED
      BY <1>1, <1>2, <3>1, GridBoxes
  <2> DEFINE x == w[1] * sx + l[1]
             y == w[2] * sy + l[2]
             R == TileOf(y, th, M)
             C == TileOf(x, tw, N)
  <2>2. x \in Nat /\ y \in Nat
    BY <2>1
  <2>3. e \in WrittenBy(d, w, l) <=> e \in Table(R, C, N)
    BY DEF IsTiled
  <2> HIDE DEF x, y
  <2>4. R \in SUBSET Below(M) /\ C \in SUBSET Below(N)
    BY <2>2, InTile
  <2>5. e \in Table(R, C, N) <=> e \in Below(M * N) /\ e \div N \in R /\ e % N \in C
    <3> HIDE DEF R, C
    <3> QED
      BY <2>4, InTable
  <2>6. e \div N \in R <=> e \div N \in Below(M) /\ (e \div N) \div th = y
    BY <2>2, InTile
  <2>7. e % N \in C <=> e % N \in Below(N) /\ (e % N) \div tw = x
    BY <2>2, InTile
  <2> HIDE DEF R, C
  <2>8. e \in P => X[e] = (e % N) \div tw /\ Y[e] = (e \div N) \div th /\ Z[e] = 0
    OBVIOUS
  <2> HIDE DEF X, Y, Z
  <2>9. e \in WrittenBy(d, w, l) <=>
            e \in P /\ (e % N) \div tw = x /\ (e \div N) \div th = y
    BY <1>2, <1>4, <2>3, <2>5, <2>6, <2>7
  <2>10. e \in WrittenBy(d, w, l) <=> e \in P /\ X[e] = x /\ Y[e] = y /\ Z[e] = w[3]
    BY <2>1, <2>8, <2>9
  <2> QED
    BY <2>10 DEF x, y
<1> HIDE DEF X, Y, Z
<1>7. IsGrid(d, a, b, 1, sx, sy, X, Y, Z)
  BY <1>2, <1>3, <1>5, <1>6 DEF IsGrid, P
<1> QED
  BY <1>1, <1>7, GridThreads


LEMMA SingleTile ==
    ASSUME NEW y \in Nat, NEW limit \in Nat
    PROVE  TileOf(y, 1, limit) = If(y < limit, {y})
<1>1. \A v : v \in TileOf(y, 1, limit) <=> v \in Below(limit) /\ v \div 1 = y
  BY InTile
<1>2. \A v : v \in Below(limit) <=> v \in Nat /\ v < limit
  BY Belows
<1>3. \A v \in Nat : v \div 1 = v
  OBVIOUS
<1>4. \A v : v \in TileOf(y, 1, limit) <=> v = y /\ y < limit
  BY <1>1, <1>2, <1>3
<1> QED
  BY <1>4 DEF If

LEMMA GemmIsComplete ==
    ASSUME NEW M \in Nat, NEW K, NEW N \in Nat \ {0}
    PROVE  Complete(Dispatch("gemm_f32", M * N, <<8, 8, 1>>,
                             <<CeilDiv(N, 8), CeilDiv(M, 8), 1>>, <<M, K, N, 0>>))
<1> DEFINE u == <<M, K, N, 0>>
           d == Dispatch("gemm_f32", M * N, <<8, 8, 1>>,
                         <<CeilDiv(N, 8), CeilDiv(M, 8), 1>>, u)
<1>1. /\ d.kernel = "gemm_f32" /\ d.words = u /\ d.size = <<8, 8, 1>>
      /\ d.groups = <<CeilDiv(N, 1 * 8), CeilDiv(M, 1 * 8), 1>>
  BY DEF Dispatch
<1>2. Promised(d) = Below(M * N)
  BY DEF Promised, Dispatch, Halves
<1> HIDE DEF d
<1>3. CeilDiv(N, 8) \in Nat /\ CeilDiv(M, 8) \in Nat
  BY CeilDivision, 8 \in Nat \ {0}
<1>4. ASSUME NEW w \in Box(d.groups), NEW l \in Box(d.size), NEW e
      PROVE  e \in WrittenBy(d, w, l) <=>
                e \in Table(TileOf(w[2] * 8 + l[2], 1, M),
                            TileOf(w[1] * 8 + l[1], 1, N), N)
  <2> DEFINE g == At(<<8, 8, 1>>, w, l)
  <2>1. /\ w[1] \in Nat /\ w[2] \in Nat /\ l[1] \in Nat /\ l[2] \in Nat
        /\ g[1] = w[1] * 8 + l[1] /\ g[2] = w[2] * 8 + l[2]
    BY <1>1, <1>3, GridBoxes
  <2> DEFINE x == w[1] * 8 + l[1]
             y == w[2] * 8 + l[2]
  <2>2. x \in Nat /\ y \in Nat /\ g[1] = x /\ g[2] = y
    BY <2>1
  <2>3. WrittenBy(d, w, l) = gemm_f32(u, g)
    BY <1>1, SquareShaders
  <2> HIDE DEF g, x, y
  <2>4. WrittenBy(d, w, l) = If(x < N /\ y < M, {y * N + x})
    BY <2>2, <2>3 DEF gemm_f32
  <2>5. TileOf(y, 1, M) = If(y < M, {y}) /\ TileOf(x, 1, N) = If(x < N, {x})
    BY <2>2, SingleTile
  <2>6. e \in Table(TileOf(y, 1, M), TileOf(x, 1, N), N)
            <=> y < M /\ x < N /\ e = y * N + x
    BY <2>5 DEF Table, If
  <2> QED
    BY <2>4, <2>6 DEF If, x, y
<1> HIDE DEF u
<1>5. IsTiled(d, M, N, 1, 1, 8, 8)
  BY <1>1, <1>2, <1>4 DEF IsTiled
<1> QED
  BY <1>5, TilesAreComplete DEF d, u

(* Four by four values a thread. *)
Quad(w, l, limit) == {v \in {w * 32 + l * 4 + i : i \in 0 .. 3} : v < limit}

LEMMA QuadTile ==
    ASSUME NEW w \in Nat, NEW l \in Nat, NEW limit
    PROVE  Quad(w, l, limit) = TileOf(w * 8 + l, 4, limit)
<1>1. \A i \in 0 .. 3 : w * 32 + l * 4 + i = (w * 8 + l) * 4 + i
  OBVIOUS
<1>2. Below(4) = 0 .. 3
  BY DEF Below
<1> QED
  BY <1>1, <1>2 DEF TileOf, Quad

LEMMA PatchProjectionIsComplete ==
    ASSUME NEW M \in Nat, NEW K, NEW N \in Nat \ {0}
    PROVE  Complete(ProjectionStage("vision_patch_projection_f32", M, K, N))
<1> DEFINE u == <<M, K, N, 0>>
           d == ProjectionStage("vision_patch_projection_f32", M, K, N)
<1>1. /\ d.kernel = "vision_patch_projection_f32" /\ d.words = u
      /\ d.size = <<8, 8, 1>>
      /\ d.groups = <<CeilDiv(N, 4 * 8), CeilDiv(M, 4 * 8), 1>>
  BY DEF ProjectionStage, Dispatch, LinearTile
<1>2. Promised(d) = Below(M * N)
  BY DEF Promised, ProjectionStage, Dispatch, Halves
<1> HIDE DEF d
<1>3. CeilDiv(N, 32) \in Nat /\ CeilDiv(M, 32) \in Nat
  BY CeilDivision, 32 \in Nat \ {0}
<1>4. ASSUME NEW w \in Box(d.groups), NEW l \in Box(d.size), NEW e
      PROVE  e \in WrittenBy(d, w, l) <=>
                e \in Table(TileOf(w[2] * 8 + l[2], 4, M),
                            TileOf(w[1] * 8 + l[1], 4, N), N)
  <2>1. w[1] \in Nat /\ w[2] \in Nat /\ l[1] \in Nat /\ l[2] \in Nat
    BY <1>1, <1>3, GridBoxes
  <2> DEFINE R == Quad(w[2], l[2], M)
             C == Quad(w[1], l[1], N)
  <2>2. /\ R = TileOf(w[2] * 8 + l[2], 4, M)
        /\ C = TileOf(w[1] * 8 + l[1], 4, N)
    BY <2>1, QuadTile
  <2>3. WrittenBy(d, w, l) = vision_patch_projection_f32(u, w, l)
    BY <1>1, LocalShaders
  <2>4. vision_patch_projection_f32(u, w, l) = Table(R, C, N)
    BY DEF vision_patch_projection_f32, Table, Quad
  <2> HIDE DEF R, C
  <2> QED
    BY <2>2, <2>3, <2>4
<1> HIDE DEF u
<1>5. IsTiled(d, M, N, 4, 4, 8, 8)
  BY <1>1, <1>2, <1>4 DEF IsTiled
<1> QED
  BY <1>5, TilesAreComplete DEF d, u

LEMMA VecTile ==
    ASSUME NEW x \in Nat, NEW limit \in Nat, limit % 4 = 0
    PROVE  TileOf(x, 4, limit) =
               If(x < limit \div 4, {x * 4 + i : i \in 0 .. 3})
<1> DEFINE q == limit \div 4
<1>1. q \in Nat /\ limit = 4 * q /\ Below(4) = 0 .. 3
  BY DEF Below
<1> HIDE DEF q
<1>2. CASE x < q
  <2>1. \A i \in 0 .. 3 : x * 4 + i < limit
    BY <1>1, <1>2
  <2>2. TileOf(x, 4, limit) = {x * 4 + i : i \in 0 .. 3}
    BY <1>1, <2>1 DEF TileOf
  <2> QED
    BY <1>2, <2>2 DEF If, q
<1>3. CASE ~ x < q
  <2>1. \A i \in 0 .. 3 : ~ x * 4 + i < limit
    BY <1>1, <1>3
  <2>2. TileOf(x, 4, limit) = {}
    BY <1>1, <2>1 DEF TileOf
  <2> QED
    BY <1>3, <2>2 DEF If, q
<1> QED
  BY <1>2, <1>3

LEMMA WeightProjectionIsComplete ==
    ASSUME NEW M \in Nat, NEW K, NEW N \in Nat \ {0}, N % 4 = 0
    PROVE  Complete(ProjectionStage("linear_projection_f16_weights", M, K, N))
<1> DEFINE u == <<M, K, N, 0>>
           d == ProjectionStage("linear_projection_f16_weights", M, K, N)
<1>1. /\ d.kernel = "linear_projection_f16_weights" /\ d.words = u
      /\ d.size = <<8, 8, 1>>
      /\ d.groups = <<CeilDiv(N, 4 * 8), CeilDiv(M, 4 * 8), 1>>
  BY DEF ProjectionStage, Dispatch, LinearTile
<1>2. Promised(d) = Below(M * N)
  BY DEF Promised, ProjectionStage, Dispatch, Halves
<1> HIDE DEF d
<1>3. CeilDiv(N, 32) \in Nat /\ CeilDiv(M, 32) \in Nat
  BY CeilDivision, 32 \in Nat \ {0}
<1>4. ASSUME NEW w \in Box(d.groups), NEW l \in Box(d.size), NEW e
      PROVE  e \in WrittenBy(d, w, l) <=>
                e \in Table(TileOf(w[2] * 8 + l[2], 4, M),
                            TileOf(w[1] * 8 + l[1], 4, N), N)
  <2>1. w[1] \in Nat /\ w[2] \in Nat /\ l[1] \in Nat /\ l[2] \in Nat
    BY <1>1, <1>3, GridBoxes
  <2> DEFINE R == Quad(w[2], l[2], M)
             x == w[1] * 8 + l[1]
             C == TileOf(x, 4, N)
  <2>2. R = TileOf(w[2] * 8 + l[2], 4, M) /\ x \in Nat
    BY <2>1, QuadTile
  <2>3. C = If(x < N \div 4, {x * 4 + i : i \in 0 .. 3})
    BY <2>2, VecTile
  <2>4. WrittenBy(d, w, l) = linear_projection_f16_weights(u, w, l)
    BY <1>1, LocalShaders
  <2>5. \A r \in R : r \in Nat
    BY <2>1 DEF Quad
  <2>6. linear_projection_f16_weights(u, w, l) =
            If(x < N \div 4, {row * N + x * 4 + i : i \in 0 .. 3, row \in R})
    BY DEF linear_projection_f16_weights, Quad
  <2> HIDE DEF R, C, x
  <2>7. \A row \in R, i \in 0 .. 3 : row * N + x * 4 + i = row * N + (x * 4 + i)
    <3>1. \A row \in R : row * N \in Nat
      BY <2>5
    <3> QED
      BY <2>2, <3>1
  <2>8. e \in Table(R, C, N) <=>
            x < N \div 4 /\ \E row \in R, i \in 0 .. 3 : e = row * N + x * 4 + i
    BY <2>3, <2>7 DEF Table, If
  <2>9. e \in linear_projection_f16_weights(u, w, l) <=>
            x < N \div 4 /\ \E row \in R, i \in 0 .. 3 : e = row * N + x * 4 + i
    BY <2>6 DEF If
  <2> QED
    BY <2>2, <2>4, <2>8, <2>9 DEF C, x
<1> HIDE DEF u
<1>5. IsTiled(d, M, N, 4, 4, 8, 8)
  BY <1>1, <1>2, <1>4 DEF IsTiled
<1> QED
  BY <1>5, TilesAreComplete DEF d, u

LEMMA CeilOfQuarters ==
    ASSUME NEW n \in Nat, n % 4 = 0
    PROVE  CeilDiv(n, 32) = CeilDiv(n \div 4, 8)
<1> DEFINE q == n \div 4
           a == q \div 8
           r == q % 8
<1>1. q \in Nat /\ n = 4 * q
  OBVIOUS
<1>2. q = 8 * a + r /\ a \in Nat /\ r \in 0..7
  BY <1>1
<1> HIDE DEF q, a, r
<1>3. n = 32 * a + 4 * r /\ 4 * r \in 0 .. 31
  BY <1>1, <1>2
<1>4. n \div 32 = a /\ n % 32 = 4 * r
  BY <1>2, <1>3, Quotient
<1> QED
  BY <1>2, <1>4 DEF CeilDiv, q, a, r

LEMMA HalfProjectionIsComplete ==
    ASSUME NEW M \in Nat, NEW K, NEW N \in Nat \ {0}, N % 4 = 0
    PROVE  Complete(ProjectionStage("linear_projection_f16", M, K, N))
<1> DEFINE u == <<M, K, N, 0>>
           d == ProjectionStage("linear_projection_f16", M, K, N)
           V == N \div 4
<1>0. V \in Nat \ {0} /\ CeilDiv(M * N, 4) = M * V /\ CeilDiv(N, 32) = CeilDiv(V, 8)
  BY Quarters, CeilOfQuarters
<1>1. /\ d.kernel = "linear_projection_f16" /\ d.words = u
      /\ d.size = <<8, 8, 1>>
      /\ d.groups = <<CeilDiv(N, 32), CeilDiv(M, 4 * 8), 1>>
  BY DEF ProjectionStage, Dispatch, LinearTile
<1>2. Promised(d) = Below(M * V)
  <2>1. Promised(d) = Below(CeilDiv(M * N, 4))
    BY DEF Promised, ProjectionStage, Dispatch, Halves
  <2> QED
    BY <1>0, <2>1
<1> HIDE DEF d
<1>3. CeilDiv(N, 32) \in Nat /\ CeilDiv(M, 32) \in Nat
  BY CeilDivision, 32 \in Nat \ {0}
<1>4. ASSUME NEW w \in Box(d.groups), NEW l \in Box(d.size), NEW e
      PROVE  e \in WrittenBy(d, w, l) <=>
                e \in Table(TileOf(w[2] * 8 + l[2], 4, M),
                            TileOf(w[1] * 8 + l[1], 1, V), V)
  <2>1. w[1] \in Nat /\ w[2] \in Nat /\ l[1] \in Nat /\ l[2] \in Nat
    BY <1>1, <1>3, GridBoxes
  <2> DEFINE R == Quad(w[2], l[2], M)
             x == w[1] * 8 + l[1]
             C == TileOf(x, 1, V)
  <2>2. R = TileOf(w[2] * 8 + l[2], 4, M) /\ x \in Nat
    BY <2>1, QuadTile
  <2>3. C = If(x < V, {x})
    BY <1>0, <2>2, SingleTile
  <2>4. WrittenBy(d, w, l) = linear_projection_f16(u, w, l)
    BY <1>1, LocalShaders
  <2>5. linear_projection_f16(u, w, l) = If(x < V, {row * V + x : row \in R})
    BY DEF linear_projection_f16, Quad
  <2> HIDE DEF R, C, x, V
  <2>6. e \in Table(R, C, V) <=> x < V /\ \E row \in R : e = row * V + x
    BY <2>3 DEF Table, If
  <2>7. e \in linear_projection_f16(u, w, l) <=> x < V /\ \E row \in R : e = row * V + x
    BY <2>5 DEF If
  <2> QED
    BY <2>2, <2>4, <2>6, <2>7 DEF C, x
<1> HIDE DEF u, V
<1>5. IsTiled(d, M, V, 1, 4, 8, 8)
  BY <1>0, <1>1, <1>2, <1>4 DEF IsTiled
<1> QED
  BY <1>0, <1>5, TilesAreComplete DEF d, u


-----------------------------------------------------------------------------
(* A thread that attends for one token and one head owns a row of them.    *)

Attends(d, tokens, heads, width) ==
    /\ d.size = <<128, 1, 1>> /\ d.groups = <<CeilDiv(tokens, 128), heads, 1>>
    /\ Promised(d) = Below((tokens * heads) * width)
    /\ \A w \in Box(d.groups), l \in Box(d.size) :
           LET token == w[1] * 128 + l[1]
           IN  WrittenBy(d, w, l) =
                   If(token < tokens /\ w[2] < heads,
                      Row(token * heads + w[2], width))

LEMMA AttendsIsComplete ==
    ASSUME NEW d, NEW tokens \in Nat, NEW heads \in Nat \ {0},
           NEW width \in Nat \ {0}, Attends(d, tokens, heads, width)
    PROVE  Complete(d)
<1> DEFINE a == CeilDiv(tokens, 128)
           P == Promised(d)
           rows == tokens * heads
           X == [e \in P |-> (e \div width) \div heads]
           Y == [e \in P |-> (e \div width) % heads]
           Z == [e \in P |-> 0]
<1>1. a \in Nat /\ rows \in Nat /\ rows * width \in Nat /\ tokens <= a * 128
  <2>1. a \in Nat /\ tokens <= 128 * a
    BY CeilDivision, 128 \in Nat \ {0}
  <2>2. rows \in Nat
    OBVIOUS
  <2> HIDE DEF a, rows
  <2> QED
    BY <2>1, <2>2
<1>2. d.size = <<128, 1, 1>> /\ d.groups = <<a, heads, 1>> /\ P = Below(rows * width)
  BY DEF Attends
<1>3. \A w \in Box(d.groups), l \in Box(d.size) :
          WrittenBy(d, w, l) =
              If(w[1] * 128 + l[1] < tokens /\ w[2] < heads,
                 Row((w[1] * 128 + l[1]) * heads + w[2], width))
  BY DEF Attends
<1> HIDE DEF a, P
<1>4. ASSUME NEW e \in P
      PROVE  /\ e \div width \in Nat /\ e \div width < tokens * heads
             /\ (e \div width) \div heads \in Nat
             /\ (e \div width) \div heads < tokens
             /\ (e \div width) % heads \in 0..heads - 1
  <2>1. e \in Nat /\ e < rows * width
    BY <1>1, <1>2, Belows
  <2> DEFINE r == e \div width
  <2>2. r \in Nat /\ r < tokens * heads
    BY <1>1, <2>1, WithinRow
  <2> HIDE DEF r
  <2>3. r \div heads \in Nat /\ r \div heads < tokens /\ r % heads \in 0..heads - 1
    BY <2>2, WithinRow
  <2> QED
    BY <2>2, <2>3 DEF r
<1>5. ASSUME NEW e \in P
      PROVE  X[e] \in Below(a * 128) /\ Y[e] \in Below(heads * 1) /\ Z[e] \in Below(1)
  <2>1. X[e] \in Nat /\ X[e] < a * 128
    BY <1>1, <1>4
  <2>2. Y[e] \in Nat /\ Y[e] < heads * 1
    BY <1>4
  <2> HIDE DEF X, Y
  <2> QED
    BY <1>1, <2>1, <2>2, Belows, a * 128 \in Nat, heads * 1 \in Nat
<1>6. ASSUME NEW w \in Box(d.groups), NEW l \in Box(d.size), NEW e
      PROVE  e \in WrittenBy(d, w, l) <=>
                /\ e \in P
                /\ X[e] = w[1] * 128 + l[1] /\ Y[e] = w[2] * 1 + l[2]
                /\ Z[e] = w[3]
  <2>1. /\ w[1] \in Nat /\ w[2] \in Nat /\ w[2] < heads /\ w[3] = 0
        /\ l[1] \in Nat /\ l[2] = 0
    <3>1. /\ w[1] \in Nat /\ w[2] \in Nat /\ w[2] < heads
          /\ w[3] \in Nat /\ w[3] < 1
          /\ l[1] \in Nat /\ l[2] \in Nat /\ l[2] < 1
      BY <1>1, <1>2, GridBoxes, 128 \in Nat, 1 \in Nat, SMTT(20)
    <3> QED
      BY <3>1
  <2> DEFINE x == w[1] * 128 + l[1]
             y == w[2]
             r == x * heads + y
  <2>2. x \in Nat /\ y \in Nat /\ y \in 0..heads - 1 /\ w[2] * 1 + l[2] = y
    BY <2>1
  <2>3. WrittenBy(d, w, l) = If(x < tokens, Row(r, width))
    BY <1>3, <2>1 DEF If
  <2> HIDE DEF x, y
  <2>4. r \in Nat /\ r \div heads = x /\ r % heads = y
    <3>1. x + 1 \in Nat /\ x < x + 1
      BY <2>2
    <3>2. /\ x * heads + y \in Nat /\ (x * heads + y) \div heads = x
          /\ (x * heads + y) % heads = y
      BY <2>2, <3>1, RowWithin
    <3> QED
      BY <3>2
  <2> HIDE DEF r
  <2>5. x < tokens <=> r < rows
    BY <2>4, QuotientBelow
  <2>6. If(r < rows, Row(r, width)) = {f \in Below(rows * width) : f \div width = r}
    <3> HIDE DEF rows
    <3> QED
      BY <1>1, <2>4, RowElements
  <2>7. e \in WrittenBy(d, w, l) <=> e \in P /\ e \div width = r
    BY <1>2, <2>3, <2>5, <2>6
  <2>8. ASSUME e \in P
        PROVE  e \div width = r <=> X[e] = x /\ Y[e] = y
    <3> DEFINE q == e \div width
    <3>1. q \in Nat /\ q < tokens * heads /\ X[e] = q \div heads /\ Y[e] = q % heads
      BY <1>4, <2>8
    <3> HIDE DEF q, X, Y
    <3>2. q = (q \div heads) * heads + (q % heads)
      BY <3>1, WithinRow
    <3> QED
      BY <2>4, <3>1, <3>2 DEF q, r
  <2>9. e \in P => Z[e] = 0
    OBVIOUS
  <2> HIDE DEF X, Y, Z
  <2> QED
    BY <2>1, <2>2, <2>7, <2>8, <2>9 DEF x, y
<1>7. IsFiniteSet(P)
  BY <1>1, <1>2, Belows
<1> HIDE DEF X, Y, Z
<1>8. IsGrid(d, a, heads, 1, 128, 1, X, Y, Z)
  BY <1>2, <1>5, <1>6, <1>7 DEF IsGrid, P
<1> QED
  BY <1>1, <1>8, GridThreads, 128 \in Nat \ {0}

LEMMA AttentionIsComplete ==
    ASSUME NEW tokens \in Nat, NEW heads \in Nat \ {0}, NEW width \in Nat \ {0}
    PROVE  Complete(AttentionStage("vision_attention_f32", tokens, heads, width))
<1> DEFINE u == <<tokens, heads, width, 0>>
           d == AttentionStage("vision_attention_f32", tokens, heads, width)
<1>1. /\ d.kernel = "vision_attention_f32" /\ d.words = u
      /\ d.size = <<128, 1, 1>> /\ d.groups = <<CeilDiv(tokens, 128), heads, 1>>
  BY DEF AttentionStage, Dispatch
<1>2. Promised(d) = Below((tokens * heads) * width)
  BY DEF Promised, AttentionStage, Dispatch, Halves
<1> HIDE DEF d
<1>3. ASSUME NEW w \in Box(d.groups), NEW l \in Box(d.size)
      PROVE  WrittenBy(d, w, l) =
                 If(w[1] * 128 + l[1] < tokens /\ w[2] < heads,
                    Row((w[1] * 128 + l[1]) * heads + w[2], width))
  <2>1. WrittenBy(d, w, l) = vision_attention_f32(u, w, l)
    BY <1>1, LocalShaders
  <2> QED
    BY <2>1 DEF vision_attention_f32, Row
<1> HIDE DEF u
<1>4. Attends(d, tokens, heads, width)
  BY <1>1, <1>2, <1>3 DEF Attends
<1> QED
  BY <1>4, AttendsIsComplete DEF d

LEMMA HalfAttentionIsComplete ==
    ASSUME NEW tokens \in Nat, NEW heads \in Nat \ {0}, NEW width \in Nat \ {0},
           width % 4 = 0
    PROVE  Complete(AttentionStage("vision_attention_f16", tokens, heads, width))
<1> DEFINE u == <<tokens, heads, width, 0>>
           d == AttentionStage("vision_attention_f16", tokens, heads, width)
           vecs == width \div 4
<1>1. /\ d.kernel = "vision_attention_f16" /\ d.words = u
      /\ d.size = <<128, 1, 1>> /\ d.groups = <<CeilDiv(tokens, 128), heads, 1>>
  BY DEF AttentionStage, Dispatch
<1>2. Promised(d) = Below((tokens * heads) * vecs) /\ vecs \in Nat \ {0}
  <2>1. Promised(d) = Below(CeilDiv((tokens * heads) * width, 4))
    BY DEF Promised, AttentionStage, Dispatch, Halves
  <2>2. tokens * heads \in Nat
    OBVIOUS
  <2> QED
    BY <2>1, <2>2, Quarters
<1> HIDE DEF d
<1>3. ASSUME NEW w \in Box(d.groups), NEW l \in Box(d.size)
      PROVE  WrittenBy(d, w, l) =
                 If(w[1] * 128 + l[1] < tokens /\ w[2] < heads,
                    Row((w[1] * 128 + l[1]) * heads + w[2], vecs))
  <2>1. WrittenBy(d, w, l) = vision_attention_f16(u, w, l)
    BY <1>1, LocalShaders
  <2> QED
    BY <2>1 DEF vision_attention_f16
<1> HIDE DEF u, vecs
<1>4. Attends(d, tokens, heads, vecs)
  BY <1>1, <1>2, <1>3 DEF Attends
<1> QED
  BY <1>2, <1>4, AttendsIsComplete DEF d

-----------------------------------------------------------------------------
(* The first of thirty-two threads owns the row that they share. *)

LEMMA TiledIsComplete ==
    ASSUME NEW rows \in Nat, NEW inner
    PROVE  Complete(TiledStage(rows, inner))
<1> DEFINE u == <<rows, inner, 0, 0>>
           d == TiledStage(rows, inner)
           a == CeilDiv(rows, 8)
           P == Promised(d)
           X == [e \in P |-> e * 32]
           Y == [e \in P |-> 0]
<1>1. /\ d.kernel = "gemv_tiled_f32" /\ d.words = u
      /\ d.size = <<256, 1, 1>> /\ d.groups = <<a, 1, 1>>
  BY DEF TiledStage, Dispatch
<1>2. P = Below(rows)
  BY DEF Promised, TiledStage, Dispatch, Halves
<1>3. a \in Nat /\ rows <= 8 * a
  BY CeilDivision, 8 \in Nat \ {0}
<1> HIDE DEF a, P, d
<1>4. IsFiniteSet(P) /\ (\A e : e \in P <=> e \in Nat /\ e < rows)
  BY <1>2, Belows
<1>5. ASSUME NEW e \in P
      PROVE  X[e] \in Below(a * 256) /\ Y[e] \in Below(1 * 1) /\ Y[e] \in Below(1)
  <2>1. X[e] \in Nat /\ X[e] < a * 256
    BY <1>3, <1>4
  <2>2. Y[e] = 0
    OBVIOUS
  <2> HIDE DEF X, Y
  <2> QED
    BY <1>3, <2>1, <2>2, Belows, a * 256 \in Nat
<1>6. ASSUME NEW w \in Box(d.groups), NEW l \in Box(d.size), NEW e
      PROVE  e \in WrittenBy(d, w, l) <=>
                /\ e \in P
                /\ X[e] = w[1] * 256 + l[1] /\ Y[e] = w[2] * 1 + l[2]
                /\ Y[e] = w[3]
  <2>1. /\ w[1] \in Nat /\ w[2] = 0 /\ w[3] = 0
        /\ l[1] \in Nat /\ l[1] < 256 /\ l[2] = 0
    <3>1. /\ w[1] \in Nat /\ w[2] \in Nat /\ w[2] < 1
          /\ w[3] \in Nat /\ w[3] < 1
          /\ l[1] \in Nat /\ l[1] < 256 /\ l[2] \in Nat /\ l[2] < 1
      BY <1>1, <1>3, GridBoxes, 256 \in Nat, 1 \in Nat
    <3> QED
      BY <3>1
  <2> DEFINE x == w[1]
             y == l[1]
             row == x * 8 + (y \div 32)
  <2>2. x \in Nat /\ y \in Nat /\ y < 256
    BY <2>1
  <2>3. WrittenBy(d, w, l) = gemv_tiled_f32(u, w, l)
    BY <1>1, LocalShaders
  <2>4. WrittenBy(d, w, l) = If(y % 32 = 0 /\ row < rows, {row})
    BY <2>3 DEF gemv_tiled_f32, TiledRow
  <2> HIDE DEF x, y
  <2>5. y % 32 = 0 /\ e = row <=> e \in Nat /\ e * 32 = x * 256 + y
    BY <2>2
  <2>6. row \in Nat
    BY <2>2
  <2>7. e \in WrittenBy(d, w, l) <=> y % 32 = 0 /\ row < rows /\ e = row
    BY <2>4 DEF If
  <2> HIDE DEF row
  <2>8. e \in P => X[e] = e * 32 /\ Y[e] = 0
    OBVIOUS
  <2> HIDE DEF X, Y
  <2>9. e \in WrittenBy(d, w, l) <=> e \in P /\ X[e] = x * 256 + y
    BY <1>4, <2>5, <2>6, <2>7, <2>8
  <2> QED
    BY <2>1, <2>8, <2>9 DEF x, y
<1> HIDE DEF X, Y
<1>7. IsGrid(d, a, 1, 1, 256, 1, X, Y, Y)
  BY <1>1, <1>4, <1>5, <1>6 DEF IsGrid, P
<1> QED
  BY <1>3, <1>7, GridThreads, 256 \in Nat \ {0} DEF d


-----------------------------------------------------------------------------
(* Partial results of a chunk: a workgroup owns the words of its place.    *)

LEMMA InStrided ==
    ASSUME NEW rows \in Nat, NEW stride \in Nat \ {0}, NEW width \in Nat,
           width <= stride, NEW e
    PROVE  e \in Strided(rows, stride, width) <=>
               e \in Nat /\ e \div stride < rows /\ e % stride < width
<1>1. ASSUME e \in Strided(rows, stride, width)
      PROVE  e \in Nat /\ e \div stride < rows /\ e % stride < width
  <2>1. PICK row \in Below(rows), i \in Below(width) : e = row * stride + i
    BY <1>1 DEF Strided
  <2>2. row \in Nat /\ row < rows /\ i \in 0..stride - 1 /\ i < width
    BY DEF Below
  <2>3. e \in Nat /\ e \div stride = row /\ e % stride = i
    BY <2>1, <2>2, RowWithin
  <2> QED
    BY <2>2, <2>3
<1>2. ASSUME e \in Nat, e \div stride < rows, e % stride < width
      PROVE  e \in Strided(rows, stride, width)
  <2> DEFINE q == e \div stride
             r == e % stride
  <2>1. e = stride * q + r /\ q \in Nat /\ r \in 0..stride - 1
    BY <1>2, Division
  <2>2. q < rows /\ r < width
    BY <1>2
  <2> HIDE DEF q, r
  <2>3. e = q * stride + r
    BY <2>1
  <2>4. q \in Below(rows) /\ r \in Below(width)
    BY <2>1, <2>2, Belows
  <2> QED
    BY <2>3, <2>4 DEF Strided
<1> QED
  BY <1>1, <1>2

LEMMA StridedIsFinite ==
    ASSUME NEW rows \in Nat, NEW stride \in Nat \ {0}, NEW width \in Nat,
           width <= stride
    PROVE  IsFiniteSet(Strided(rows, stride, width))
<1>1. ASSUME NEW e \in Strided(rows, stride, width)
      PROVE  e \in Below(rows * stride)
  <2>1. e \in Nat /\ e \div stride < rows
    BY InStrided
  <2>2. e < rows * stride
    BY <2>1, QuotientBelow
  <2> QED
    BY <2>1, <2>2, Belows, rows * stride \in Nat
<1>2. IsFiniteSet(Below(rows * stride))
  BY Belows, rows * stride \in Nat
<1> QED
  BY <1>1, <1>2, FS_Subset

(* The thread of a workgroup that writes word i of its result. *)
PartialOwner(i) == IF i < 128 THEN i \div 2 ELSE 0

PartialOf(x, y) ==
    {x * 192 + y * 2, x * 192 + y * 2 + 1}
        \union If(y = 0, {x * 192 + 128, x * 192 + 128 + 1})

LEMMA PartialThreads ==
    ASSUME NEW x \in Nat, NEW y \in Nat, y < 64, NEW e
    PROVE  e \in PartialOf(x, y)
               <=> /\ e \in Nat /\ e \div 192 = x /\ e % 192 < 130
                   /\ PartialOwner(e % 192) = y
<1>1. ASSUME e \in Nat
      PROVE  /\ e = 192 * (e \div 192) + (e % 192) /\ e \div 192 \in Nat
             /\ e % 192 \in 0..191
  BY <1>1
<1>2. \A i \in 0..191 : PartialOwner(i) = y /\ i < 130 <=>
          i \in {y * 2, y * 2 + 1} \/ (y = 0 /\ i \in {128, 129})
  BY DEF PartialOwner
<1>3. e \in PartialOf(x, y)
          <=> \E i \in 0..191 : e = x * 192 + i /\
                (i \in {y * 2, y * 2 + 1} \/ (y = 0 /\ i \in {128, 129}))
  <2>1. \A i \in {y * 2, y * 2 + 1, 128, 129} : i \in 0..191
    OBVIOUS
  <2>2. CASE y = 0
    BY <2>1, <2>2 DEF If, PartialOf
  <2>3. CASE y # 0
    BY <2>1, <2>3 DEF If, PartialOf
  <2> QED
    BY <2>2, <2>3
<1>4. \A i \in 0..191 : (x * 192 + i) \in Nat /\ (x * 192 + i) \div 192 = x
                        /\ (x * 192 + i) % 192 = i
  OBVIOUS
<1>5. ASSUME NEW i \in 0..191, e = x * 192 + i,
             i \in {y * 2, y * 2 + 1} \/ (y = 0 /\ i \in {128, 129})
      PROVE  /\ e \in Nat /\ e \div 192 = x /\ e % 192 < 130
             /\ PartialOwner(e % 192) = y
  BY <1>2, <1>4, <1>5
<1>6. ASSUME e \in Nat, e \div 192 = x, e % 192 < 130,
             PartialOwner(e % 192) = y
      PROVE  \E i \in 0..191 : e = x * 192 + i /\
                (i \in {y * 2, y * 2 + 1} \/ (y = 0 /\ i \in {128, 129}))
  <2> DEFINE r == e % 192
  <2>1. r \in 0..191 /\ e = x * 192 + r /\ r < 130 /\ PartialOwner(r) = y
    BY <1>1, <1>6
  <2> HIDE DEF r
  <2>2. r \in {y * 2, y * 2 + 1} \/ (y = 0 /\ r \in {128, 129})
    BY <1>2, <2>1
  <2> QED
    BY <2>1, <2>2
<1> QED
  BY <1>3, <1>5, <1>6

LEMMA SplitPartialIsComplete ==
    ASSUME GeometryIsCounted, NEW tokens \in Nat \ {0}
    PROVE  Complete(Dispatch("decoder_gqa_split_partial_f32",
                             SplitGroups(tokens) * PartialStride, <<Tile, 1, 1>>,
                             <<SplitGroups(tokens), 1, 1>>,
                             <<tokens, CeilDiv(tokens, SplitChunk), 0, 0>>))
<1> DEFINE c == CeilDiv(tokens, SplitChunk)
           s == SplitGroups(tokens)
           u == <<tokens, c, 0, 0>>
           d == Dispatch("decoder_gqa_split_partial_f32", s * PartialStride,
                         <<Tile, 1, 1>>, <<s, 1, 1>>, u)
           P == Promised(d)
           X == [e \in P |-> (e \div 192) * 64 + PartialOwner(e % 192)]
           Y == [e \in P |-> 0]
<1>1. c \in Nat \ {0} /\ s = QueryHeads * c /\ s \in Nat
  <2>1. c \in Nat /\ c > 0
    BY CeilDivision, SplitChunk \in Nat \ {0} DEF SplitChunk
  <2> HIDE DEF c
  <2>2. SplitGroups(tokens) = QueryHeads * c
    BY DEF SplitGroups, c
  <2> QED
    BY <2>1, <2>2, Counts
<1>2. /\ d.kernel = "decoder_gqa_split_partial_f32" /\ d.words = u
      /\ d.size = <<64, 1, 1>> /\ d.groups = <<s, 1, 1>>
  BY DEF Dispatch, Tile
<1>3. P = Strided(s, 192, 130)
  <2>1. d.output = s * 192 /\ PartialStride = 192 /\ HeadWidth + 2 = 130
    BY DEF Dispatch, PartialStride, HeadWidth
  <2> HIDE DEF d
  <2>0. P = Strided(d.output \div PartialStride, PartialStride, HeadWidth + 2)
    BY <1>2 DEF Promised, Halves
  <2> HIDE DEF s, P
  <2>2. (s * 192) \div 192 = s
    BY <1>1
  <2> QED
    BY <2>0, <2>1, <2>2
<1> HIDE DEF c, s, P, d
<1>4. IsFiniteSet(P) /\ \A e : e \in P <=> e \in Nat /\ e \div 192 < s /\ e % 192 < 130
  <2>1. IsFiniteSet(P)
    BY <1>1, <1>3, StridedIsFinite, 192 \in Nat \ {0}, 130 \in Nat, 130 <= 192
  <2>2. \A e : e \in P <=> e \in Nat /\ e \div 192 < s /\ e % 192 < 130
    BY <1>1, <1>3, InStrided, 192 \in Nat \ {0}, 130 \in Nat, 130 <= 192
  <2> QED
    BY <2>1, <2>2
<1>5. ASSUME NEW e \in P
      PROVE  /\ X[e] = (e \div 192) * 64 + PartialOwner(e % 192)
             /\ e \div 192 \in Nat /\ e \div 192 < s
             /\ PartialOwner(e % 192) \in 0..63 /\ Y[e] = 0
  <2>1. e \in Nat /\ e \div 192 < s /\ e % 192 < 130
    BY <1>4
  <2> QED
    BY <2>1 DEF PartialOwner
<1> HIDE DEF X, Y
<1>6. ASSUME NEW e \in P
      PROVE  X[e] \in Below(s * 64) /\ Y[e] \in Below(1 * 1) /\ Y[e] \in Below(1)
  <2>1. X[e] \in Nat /\ X[e] < s * 64
    BY <1>1, <1>5
  <2> QED
    BY <1>1, <1>5, <2>1, Belows, s * 64 \in Nat
<1>7. ASSUME NEW w \in Box(d.groups), NEW l \in Box(d.size), NEW e
      PROVE  e \in WrittenBy(d, w, l) <=>
                /\ e \in P
                /\ X[e] = w[1] * 64 + l[1] /\ Y[e] = w[2] * 1 + l[2]
                /\ Y[e] = w[3]
  <2>1. /\ w[1] \in Nat /\ w[1] < s /\ w[2] = 0 /\ w[3] = 0
        /\ l[1] \in Nat /\ l[1] < 64 /\ l[2] = 0
    <3>1. /\ w[1] \in Nat /\ w[1] < s /\ w[2] \in Nat /\ w[2] < 1
          /\ w[3] \in Nat /\ w[3] < 1
          /\ l[1] \in Nat /\ l[1] < 64 /\ l[2] \in Nat /\ l[2] < 1
      BY <1>1, <1>2, GridBoxes, 64 \in Nat, 1 \in Nat, SMTT(20)
    <3> QED
      BY <3>1
  <2> DEFINE x == w[1]
             y == l[1]
  <2>2. x \in Nat /\ x < s /\ y \in Nat /\ y < 64
    BY <2>1
  <2>3. WrittenBy(d, w, l) = decoder_gqa_split_partial_f32(u, w, l)
    BY <1>2, LocalShaders
  <2>4. (x \div c) * c + (x % c) = x
    <3>1. x = c * (x \div c) + (x % c) /\ x \div c \in Nat
      BY <1>1, <2>2, Division
    <3> DEFINE q == x \div c
               r == x % c
    <3> HIDE DEF q, r
    <3>2. x = c * q + r /\ q \in Nat
      BY <3>1 DEF q, r
    <3>3. x = q * c + r
      BY <1>1, <3>2
    <3> QED
      BY <3>3 DEF q, r
  <2>5. WrittenBy(d, w, l) = PartialOf(x, y)
    BY <2>3, <2>4, ZenonT(60) DEF decoder_gqa_split_partial_f32, PartialStride, HeadWidth,
                      PartialOf
  <2> HIDE DEF x, y
  <2>6. e \in WrittenBy(d, w, l) <=>
                   /\ e \in Nat /\ e \div 192 = x /\ e % 192 < 130
                   /\ PartialOwner(e % 192) = y
    BY <2>2, <2>5, PartialThreads
  <2>7. e \in WrittenBy(d, w, l) <=> e \in P /\ e \div 192 = x
                   /\ PartialOwner(e % 192) = y
    BY <1>4, <2>2, <2>6
  <2>8. ASSUME e \in P
        PROVE  e \div 192 = x /\ PartialOwner(e % 192) = y <=> X[e] = x * 64 + y
    <3> DEFINE q == e \div 192
               r == PartialOwner(e % 192)
    <3>1. X[e] = q * 64 + r /\ q \in Nat /\ r \in 0..63
      BY <1>5, <2>8
    <3> HIDE DEF q, r
    <3> QED
      BY <2>2, <3>1 DEF q, r
  <2> QED
    BY <1>5, <2>1, <2>7, <2>8 DEF x, y
<1> HIDE DEF u
<1>8. IsGrid(d, s, 1, 1, 64, 1, X, Y, Y)
  BY <1>2, <1>4, <1>6, <1>7 DEF IsGrid, P
<1> QED
  BY <1>1, <1>8, GridThreads, 64 \in Nat \ {0} DEF d, s, u, c


-----------------------------------------------------------------------------
(* Three planes: a layer of workgroups for each, or one that writes all.   *)

IsLayered(d, M, N, stride, tw, th, sx, sy, c) ==
    /\ d.size = <<sx, sy, 1>>
    /\ d.groups = <<CeilDiv(N, tw * sx), CeilDiv(M, th * sy), c>>
    /\ Promised(d) = Strided(3, stride, M * N)
    /\ \A w \in Box(d.groups), l \in Box(d.size) :
           \A e : e \in WrittenBy(d, w, l) <=>
                     /\ e \in Strided(3, stride, M * N)
                     /\ e % stride \in Table(TileOf(w[2] * sy + l[2], th, M),
                                             TileOf(w[1] * sx + l[1], tw, N), N)
                     /\ c = 1 \/ e \div stride = w[3]

LEMMA LayersAreComplete ==
    ASSUME NEW d, NEW M \in Nat, NEW N \in Nat \ {0}, NEW stride \in Nat \ {0},
           M * N <= stride, NEW tw \in Nat \ {0}, NEW th \in Nat \ {0},
           NEW sx \in Nat \ {0}, NEW sy \in Nat \ {0}, NEW c \in {1, 3},
           IsLayered(d, M, N, stride, tw, th, sx, sy, c)
    PROVE  Complete(d)
<1> DEFINE a == CeilDiv(N, tw * sx)
           b == CeilDiv(M, th * sy)
           P == Promised(d)
           X == [e \in P |-> ((e % stride) % N) \div tw]
           Y == [e \in P |-> ((e % stride) \div N) \div th]
           Z == [e \in P |-> IF c = 1 THEN 0 ELSE e \div stride]
<1>1. a \in Nat /\ b \in Nat /\ M * N \in Nat
  <2>1. tw * sx \in Nat \ {0} /\ th * sy \in Nat \ {0} /\ M * N \in Nat
    OBVIOUS
  <2> QED
    BY <2>1, CeilDivision
<1>2. d.size = <<sx, sy, 1>> /\ d.groups = <<a, b, c>>
      /\ P = Strided(3, stride, M * N)
  BY DEF IsLayered
<1> HIDE DEF a, b, P
<1>3. IsFiniteSet(P) /\ \A e : e \in P <=>
          e \in Nat /\ e \div stride < 3 /\ e % stride < M * N
  <2>1. IsFiniteSet(P)
    BY <1>1, <1>2, StridedIsFinite, 3 \in Nat
  <2>2. \A e : e \in P <=> e \in Nat /\ e \div stride < 3 /\ e % stride < M * N
    BY <1>1, <1>2, InStrided, 3 \in Nat
  <2> QED
    BY <2>1, <2>2
<1>4. ASSUME NEW e \in P
      PROVE  /\ e \div stride \in Below(3) /\ e % stride \in Below(M * N)
             /\ (e % stride) \div N \in Below(M) /\ (e % stride) % N \in Below(N)
  <2> DEFINE r == e % stride
             p == e \div stride
  <2>1. e \in Nat /\ p < 3 /\ r < M * N
    BY <1>3
  <2>2. p \in Nat /\ r \in 0..stride - 1
    BY <2>1, Division
  <2> HIDE DEF p, r
  <2>3. r \div N \in Nat /\ r \div N < M /\ r % N \in 0..N - 1
    <3>1. r \in Nat /\ r < M * N
      BY <2>1, <2>2
    <3> QED
      BY <3>1, WithinRow
  <2>4. r \in Below(M * N) /\ r \div N \in Below(M) /\ r % N \in Below(N)
        /\ p \in Below(3)
    BY <1>1, <2>1, <2>2, <2>3, Belows, 3 \in Nat
  <2> QED
    BY <2>4 DEF p, r
<1>5. ASSUME NEW e \in P
      PROVE  X[e] \in Below(a * sx) /\ Y[e] \in Below(b * sy) /\ Z[e] \in Below(c)
  <2> DEFINE r == e % stride
  <2>1. (r % N) \div tw \in Below(a * sx)
    BY <1>4, TileCount DEF a
  <2>2. (r \div N) \div th \in Below(b * sy)
    BY <1>4, TileCount DEF b
  <2>3. Z[e] \in Below(c)
    <3>1. 0 \in Below(1)
      BY Belows
    <3> QED
      BY <1>4, <3>1
  <2> QED
    BY <2>1, <2>2, <2>3
<1>6. ASSUME NEW w \in Box(d.groups), NEW l \in Box(d.size), NEW e
      PROVE  e \in WrittenBy(d, w, l) <=>
                /\ e \in P
                /\ X[e] = w[1] * sx + l[1] /\ Y[e] = w[2] * sy + l[2]
                /\ Z[e] = w[3]
  <2>1. /\ w[1] \in Nat /\ w[2] \in Nat /\ w[3] \in Nat /\ w[3] < c
        /\ l[1] \in Nat /\ l[2] \in Nat
    BY <1>1, <1>2, GridBoxes, c \in Nat
  <2> DEFINE x == w[1] * sx + l[1]
             y == w[2] * sy + l[2]
             R == TileOf(y, th, M)
             C == TileOf(x, tw, N)
             r == e % stride
  <2>2. x \in Nat /\ y \in Nat
    BY <2>1
  <2>3. e \in WrittenBy(d, w, l) <=>
            e \in P /\ r \in Table(R, C, N) /\ (c = 1 \/ e \div stride = w[3])
    BY <1>2 DEF IsLayered
  <2> HIDE DEF x, y
  <2>4. R \in SUBSET Below(M) /\ C \in SUBSET Below(N)
    BY <2>2, InTile
  <2>5. r \in Table(R, C, N) <=> r \in Below(M * N) /\ r \div N \in R /\ r % N \in C
    <3> HIDE DEF R, C, r
    <3> QED
      BY <2>4, InTable
  <2>6. r \div N \in R <=> r \div N \in Below(M) /\ (r \div N) \div th = y
    <3> HIDE DEF r
    <3> QED
      BY <2>2, InTile
  <2>7. r % N \in C <=> r % N \in Below(N) /\ (r % N) \div tw = x
    <3> HIDE DEF r
    <3> QED
      BY <2>2, InTile
  <2> HIDE DEF R, C
  <2>8. e \in P => /\ X[e] = (r % N) \div tw /\ Y[e] = (r \div N) \div th
                   /\ Z[e] = IF c = 1 THEN 0 ELSE e \div stride
    OBVIOUS
  <2>9. e \in P => /\ r \in Below(M * N) /\ r \div N \in Below(M)
                   /\ r % N \in Below(N)
    BY <1>4
  <2>10. e \in P => (Z[e] = w[3] <=> c = 1 \/ e \div stride = w[3])
    <3>1. c = 1 => w[3] = 0
      BY <2>1
    <3>2. c # 1 => c = 3
      OBVIOUS
    <3> QED
      BY <2>8, <3>1, <3>2
  <2> HIDE DEF X, Y, Z, r
  <2>11. e \in WrittenBy(d, w, l) <=>
             e \in P /\ X[e] = x /\ Y[e] = y /\ Z[e] = w[3]
    BY <2>3, <2>5, <2>6, <2>7, <2>8, <2>9, <2>10
  <2> QED
    BY <2>11 DEF x, y
<1> HIDE DEF X, Y, Z
<1>7. IsGrid(d, a, b, c, sx, sy, X, Y, Z)
  BY <1>2, <1>3, <1>5, <1>6 DEF IsGrid, P
<1> QED
  BY <1>1, <1>7, GridThreads

LEMMA Planes ==
    ASSUME GeometryIsCounted, NEW n \in Nat \ {0}
    PROVE  /\ AlignUp(n, PlaneAlignment) \in Nat \ {0}
           /\ n <= AlignUp(n, PlaneAlignment)
<1> DEFINE c == CeilDiv(n, PlaneAlignment)
<1>1. PlaneAlignment \in Nat \ {0}
  BY Counts
<1>2. c \in Nat /\ c > 0 /\ n <= PlaneAlignment * c
  BY <1>1, CeilDivision
<1> HIDE DEF c
<1>3. c * PlaneAlignment \in Nat \ {0} /\ n <= c * PlaneAlignment
  BY <1>1, <1>2
<1> QED
  BY <1>3 DEF AlignUp, c

(* The place of an element within its plane. *)
LEMMA PlaceInPlane ==
    ASSUME NEW stride \in Nat \ {0}, NEW width \in Nat, width <= stride,
           NEW z \in Nat, z < 3, NEW v \in Nat, v < width, NEW e
    PROVE  e = z * stride + v <=>
               /\ e \in Strided(3, stride, width)
               /\ e \div stride = z /\ e % stride = v
<1>1. v \in 0..stride - 1
  OBVIOUS
<1>2. /\ z * stride + v \in Nat /\ (z * stride + v) \div stride = z
      /\ (z * stride + v) % stride = v
  BY <1>1, RowWithin, 3 \in Nat
<1>3. e \in Strided(3, stride, width) <=>
          e \in Nat /\ e \div stride < 3 /\ e % stride < width
  BY InStrided, 3 \in Nat
<1>4. ASSUME e \in Nat
      PROVE  e = (e \div stride) * stride + (e % stride)
  <2> DEFINE q == e \div stride
             r == e % stride
  <2>1. e = stride * q + r /\ q \in Nat /\ r \in 0..stride - 1
    BY <1>4, Division
  <2> HIDE DEF q, r
  <2>2. e = q * stride + r
    BY <2>1
  <2> QED
    BY <2>2 DEF q, r
<1> QED
  BY <1>2, <1>3, <1>4

LEMMA FusedIsComplete ==
    ASSUME GeometryIsCounted, NEW M \in Nat \ {0}, NEW K, NEW N \in Nat \ {0},
           NEW stride, stride = AlignUp(M * N, PlaneAlignment)
    PROVE  Complete(Dispatch("vision_qkv_fused_f32", 3 * stride, <<8, 8, 1>>,
                             <<CeilDiv(N, 8), CeilDiv(M, 8), 3>>,
                             <<M, K, N, stride>>))
<1> DEFINE u == <<M, K, N, stride>>
           d == Dispatch("vision_qkv_fused_f32", 3 * stride, <<8, 8, 1>>,
                         <<CeilDiv(N, 8), CeilDiv(M, 8), 3>>, u)
<1>0. M * N \in Nat \ {0} /\ stride \in Nat \ {0} /\ M * N <= stride
  <2>1. M * N \in Nat \ {0}
    OBVIOUS
  <2> QED
    BY <2>1, Planes
<1>1. /\ d.kernel = "vision_qkv_fused_f32" /\ d.words = u /\ d.size = <<8, 8, 1>>
      /\ d.groups = <<CeilDiv(N, 1 * 8), CeilDiv(M, 1 * 8), 3>>
      /\ d.output = 3 * stride
  BY DEF Dispatch
<1> HIDE DEF d
<1>2. Promised(d) = Strided(3, stride, M * N)
  <2>1. Promised(d) = Strided(3, d.output \div 3, M * N)
    BY <1>1 DEF Promised, Halves
  <2>2. (3 * stride) \div 3 = stride
    BY <1>0
  <2> QED
    BY <1>1, <2>1, <2>2
<1>3. CeilDiv(N, 8) \in Nat /\ CeilDiv(M, 8) \in Nat
  BY CeilDivision, 8 \in Nat \ {0}
<1>4. ASSUME NEW w \in Box(d.groups), NEW l \in Box(d.size), NEW e
      PROVE  e \in WrittenBy(d, w, l) <=>
                /\ e \in Strided(3, stride, M * N)
                /\ e % stride \in Table(TileOf(w[2] * 8 + l[2], 1, M),
                                        TileOf(w[1] * 8 + l[1], 1, N), N)
                /\ 3 = 1 \/ e \div stride = w[3]
  <2> DEFINE g == At(<<8, 8, 1>>, w, l)
  <2>1. /\ w[1] \in Nat /\ w[2] \in Nat /\ l[1] \in Nat /\ l[2] \in Nat
        /\ w[3] \in Nat /\ w[3] < 3
        /\ g[1] = w[1] * 8 + l[1] /\ g[2] = w[2] * 8 + l[2] /\ g[3] = w[3]
    BY <1>1, <1>3, GridBoxes, 8 \in Nat, 3 \in Nat
  <2> DEFINE x == w[1] * 8 + l[1]
             y == w[2] * 8 + l[2]
             z == w[3]
  <2>2. x \in Nat /\ y \in Nat /\ z \in Nat /\ z < 3
        /\ g[1] = x /\ g[2] = y /\ g[3] = z
    BY <2>1
  <2>3. WrittenBy(d, w, l) = vision_qkv_fused_f32(u, g)
    BY <1>1, SquareShaders
  <2> HIDE DEF g, x, y, z
  <2>4. WrittenBy(d, w, l) = If(x < N /\ y < M, {z * stride + (y * N + x)})
    <3>1. z * stride \in Nat /\ y * N \in Nat
      BY <1>0, <2>2
    <3>2. z * stride + y * N + x = z * stride + (y * N + x)
      BY <2>2, <3>1
    <3> QED
      BY <2>2, <2>3, <3>2 DEF vision_qkv_fused_f32, If
  <2>5. TileOf(y, 1, M) = If(y < M, {y}) /\ TileOf(x, 1, N) = If(x < N, {x})
    BY <2>2, SingleTile
  <2>6. e % stride \in Table(TileOf(y, 1, M), TileOf(x, 1, N), N)
            <=> y < M /\ x < N /\ e % stride = y * N + x
    BY <2>5 DEF Table, If
  <2>7. ASSUME x < N, y < M
        PROVE  e = z * stride + (y * N + x) <=>
                   /\ e \in Strided(3, stride, M * N)
                   /\ e \div stride = z /\ e % stride = y * N + x
    <3>1. y * N + x \in Nat /\ y * N + x < M * N
      BY <2>2, <2>7, RowWithin
    <3> DEFINE v == y * N + x
    <3> HIDE DEF v
    <3>2. v \in Nat /\ v < M * N /\ v < stride
      BY <1>0, <3>1 DEF v
    <3> DEFINE width == M * N
    <3>3. width \in Nat /\ width <= stride /\ v < width
      BY <1>0, <3>2
    <3> HIDE DEF width
    <3>4. e = z * stride + v <=>
              /\ e \in Strided(3, stride, width)
              /\ e \div stride = z /\ e % stride = v
      BY <1>0, <2>2, <3>2, <3>3, PlaceInPlane
    <3> QED
      BY <3>4 DEF v, width
  <2>8. e \in WrittenBy(d, w, l) <=> y < M /\ x < N /\ e = z * stride + (y * N + x)
    BY <2>4 DEF If
  <2> QED
    BY <2>6, <2>7, <2>8 DEF x, y, z
<1> HIDE DEF u
<1>5. IsLayered(d, M, N, stride, 1, 1, 8, 8, 3)
  BY <1>1, <1>2, <1>4 DEF IsLayered
<1> QED
  BY <1>0, <1>5, LayersAreComplete, 1 \in Nat \ {0}, 8 \in Nat \ {0},
     3 \in {1, 3} DEF d, u


LEMMA HalfFusedIsComplete ==
    ASSUME GeometryIsCounted, NEW M \in Nat \ {0}, NEW K, NEW N \in Nat \ {0},
           N % 4 = 0, NEW stride, stride = AlignUp(M * N, PlaneAlignment)
    PROVE  Complete(Dispatch("vision_qkv_fused_f16_weights", 3 * stride, <<8, 8, 1>>,
                             <<CeilDiv(N, 32), CeilDiv(M, 16), 1>>,
                             <<M, K, N, stride>>))
<1> DEFINE u == <<M, K, N, stride>>
           d == Dispatch("vision_qkv_fused_f16_weights", 3 * stride, <<8, 8, 1>>,
                         <<CeilDiv(N, 32), CeilDiv(M, 16), 1>>, u)
<1>0. M * N \in Nat \ {0} /\ stride \in Nat \ {0} /\ M * N <= stride
  <2>1. M * N \in Nat \ {0}
    OBVIOUS
  <2> QED
    BY <2>1, Planes
<1>1. /\ d.kernel = "vision_qkv_fused_f16_weights" /\ d.words = u
      /\ d.size = <<8, 8, 1>>
      /\ d.groups = <<CeilDiv(N, 4 * 8), CeilDiv(M, 2 * 8), 1>>
      /\ d.output = 3 * stride
  BY DEF Dispatch
<1> HIDE DEF d
<1>2. Promised(d) = Strided(3, stride, M * N)
  <2>1. Promised(d) = Strided(3, d.output \div 3, M * N)
    BY <1>1 DEF Promised, Halves
  <2>2. (3 * stride) \div 3 = stride
    BY <1>0
  <2> QED
    BY <1>1, <2>1, <2>2
<1>3. CeilDiv(N, 32) \in Nat /\ CeilDiv(M, 16) \in Nat
  BY CeilDivision, 32 \in Nat \ {0}, 16 \in Nat \ {0}
<1>4. ASSUME NEW w \in Box(d.groups), NEW l \in Box(d.size), NEW e
      PROVE  e \in WrittenBy(d, w, l) <=>
                /\ e \in Strided(3, stride, M * N)
                /\ e % stride \in Table(TileOf(w[2] * 8 + l[2], 2, M),
                                        TileOf(w[1] * 8 + l[1], 4, N), N)
                /\ 1 = 1 \/ e \div stride = w[3]
  <2>1. w[1] \in Nat /\ w[2] \in Nat /\ l[1] \in Nat /\ l[2] \in Nat
    BY <1>1, <1>3, GridBoxes, 8 \in Nat, 1 \in Nat
  <2> DEFINE x == w[1] * 8 + l[1]
             y == w[2] * 8 + l[2]
             R == {r \in {w[2] * 16 + l[2] * 2 + k : k \in 0 .. 1} : r < M}
             C == TileOf(x, 4, N)
  <2>2. x \in Nat /\ y \in Nat
    BY <2>1
  <2>3. R = TileOf(y, 2, M)
    <3>1. \A k \in 0 .. 1 : w[2] * 16 + l[2] * 2 + k = y * 2 + k
      BY <2>1
    <3>2. Below(2) = 0 .. 1
      BY DEF Below
    <3> HIDE DEF y
    <3> QED
      BY <3>1, <3>2 DEF TileOf
  <2>4. WrittenBy(d, w, l) = vision_qkv_fused_f16_weights(u, w, l)
    BY <1>1, LocalShaders
  <2>5. vision_qkv_fused_f16_weights(u, w, l) =
            If(x * 4 + 3 < N,
               {plane * stride + row * N + x * 4 + i :
                   plane \in 0 .. 2, i \in 0 .. 3, row \in R})
    BY DEF vision_qkv_fused_f16_weights
  <2>6. x * 4 + 3 < N <=> x < N \div 4
    <3> HIDE DEF x
    <3> QED
      BY <2>2
  <2>7. C = If(x < N \div 4, {x * 4 + i : i \in 0 .. 3})
    <3> HIDE DEF x
    <3> QED
      BY <2>2, VecTile
  <2>8. \A row \in R : row \in Nat /\ row < M
    <3> HIDE DEF R, y
    <3>1. \A row \in R : row \in Below(M)
      BY <2>2, <2>3, InTile, 2 \in Nat \ {0}
    <3> QED
      BY <3>1, Belows
  <2> HIDE DEF x, y, R, C
  <2>9. ASSUME NEW plane \in 0 .. 2, NEW row \in R, NEW i \in 0 .. 3, x < N \div 4
        PROVE  /\ plane * stride + row * N + x * 4 + i
                      = plane * stride + (row * N + (x * 4 + i))
               /\ row * N + (x * 4 + i) \in Nat
               /\ row * N + (x * 4 + i) < M * N
    <3>1. x * 4 + i \in 0..N - 1
      BY <2>2, <2>6, <2>9
    <3>2. row * N + (x * 4 + i) \in Nat /\ row * N + (x * 4 + i) < M * N
      BY <2>8, <3>1, RowWithin
    <3>3. plane * stride \in Nat /\ row * N \in Nat
      BY <1>0, <2>8
    <3> QED
      BY <2>2, <3>2, <3>3
  <2> DEFINE T == Table(R, C, N)
             S == Strided(3, stride, M * N)
  <2>10. \A t : t \in T <=> x < N \div 4 /\ \E row \in R, i \in 0 .. 3 :
                                t = row * N + (x * 4 + i)
    BY <2>7 DEF Table, If
  <2>11. e \in WrittenBy(d, w, l) <=> x < N \div 4 /\
             \E plane \in 0 .. 2, row \in R, i \in 0 .. 3 :
                 e = plane * stride + row * N + x * 4 + i
    BY <2>4, <2>5, <2>6 DEF If
  <2>12. e \in WrittenBy(d, w, l) <=> x < N \div 4 /\
             \E plane \in 0 .. 2, row \in R, i \in 0 .. 3 :
                 e = plane * stride + (row * N + (x * 4 + i))
    BY <2>9, <2>11
  <2>13. \A t \in T : t \in Nat /\ t < M * N
    BY <2>9, <2>10, 0 \in 0 .. 2
  <2>14. e \in WrittenBy(d, w, l) <=>
             \E plane \in 0 .. 2, t \in T : e = plane * stride + t
    <3> HIDE DEF T
    <3> QED
      BY <2>10, <2>12
  <2> HIDE DEF T
  <2>15. \A plane \in 0 .. 2, t \in T :
             e = plane * stride + t <=>
                 e \in S /\ e \div stride = plane /\ e % stride = t
    <3> SUFFICES ASSUME NEW plane \in 0 .. 2, NEW t \in T
                 PROVE  e = plane * stride + t <=>
                          e \in S /\ e \div stride = plane /\ e % stride = t
      OBVIOUS
    <3>1. plane \in Nat /\ plane < 3 /\ t \in Nat /\ t < M * N
          /\ M * N \in Nat
      BY <1>0, <2>13
    <3> DEFINE W == M * N
               p == plane
               v == t
    <3>2. /\ W \in Nat /\ W <= stride /\ v < W /\ stride \in Nat \ {0}
          /\ p \in Nat /\ p < 3 /\ v \in Nat
      BY <1>0, <3>1
    <3>3. S = Strided(3, stride, W)
      OBVIOUS
    <3> HIDE DEF W, S, p, v
    <3>4. e = p * stride + v <=>
              /\ e \in Strided(3, stride, W)
              /\ e \div stride = p /\ e % stride = v
      BY <3>2, PlaceInPlane
    <3> QED
      BY <3>3, <3>4 DEF p, v
  <2>16. e \in S => e \div stride \in 0 .. 2
    <3>1. e \in S => e \in Nat /\ e \div stride < 3
      BY <1>0, InStrided, 3 \in Nat
    <3>2. e \in Nat => e \div stride \in Nat
      BY <1>0, Division
    <3> QED
      BY <3>1, <3>2
  <2> HIDE DEF S
  <2>17. e \in WrittenBy(d, w, l) <=> e \in S /\ e % stride \in T
    BY <2>14, <2>15, <2>16
  <2> QED
    BY <2>3, <2>17 DEF S, T, C, x, y
<1> HIDE DEF u
<1>5. IsLayered(d, M, N, stride, 4, 2, 8, 8, 1)
  BY <1>1, <1>2, <1>4 DEF IsLayered
<1> QED
  BY <1>0, <1>5, LayersAreComplete, 2 \in Nat \ {0}, 4 \in Nat \ {0},
     8 \in Nat \ {0}, 1 \in {1, 3} DEF d, u


-----------------------------------------------------------------------------
(* Plans: sequences of complete dispatches. *)

Done(s) == \E S : s \in Seq(S) /\ \A d \in S : Complete(d)

LEMMA DoneSteps ==
    ASSUME NEW s, Done(s), s # <<>>
    PROVE  Complete(Head(s)) /\ Done(Tail(s))
<1>1. PICK S : s \in Seq(S) /\ \A d \in S : Complete(d)
  BY DEF Done
<1>2. Head(s) \in S /\ Tail(s) \in Seq(S)
  BY <1>1
<1> QED
  BY <1>1, <1>2 DEF Done

LEMMA DoneConcat ==
    ASSUME NEW s, NEW t, Done(s), Done(t)
    PROVE  Done(s \o t)
<1>1. PICK S : s \in Seq(S) /\ \A d \in S : Complete(d)
  BY DEF Done
<1>2. PICK T : t \in Seq(T) /\ \A d \in T : Complete(d)
  BY DEF Done
<1>3. s \in Seq(S \union T) /\ t \in Seq(S \union T)
  BY <1>1, <1>2
<1>4. s \o t \in Seq(S \union T)
  BY <1>3
<1> QED
  BY <1>1, <1>2, <1>4 DEF Done

LEMMA DoneEmpty == Done(<<>>)
<1> DEFINE S == {}
<1>1. <<>> \in Seq(S) /\ \A d \in S : Complete(d)
  OBVIOUS
<1> HIDE DEF S
<1> QED
  BY <1>1 DEF Done

LEMMA DoneOne ==
    ASSUME NEW d1,
           Complete(d1)
    PROVE  Done(<<d1>>)
<1> DEFINE S == {d1}
<1>1. <<d1>> \in Seq(S)
  OBVIOUS
<1>2. \A d \in S : Complete(d)
  OBVIOUS
<1> HIDE DEF S
<1> QED
  BY <1>1, <1>2 DEF Done

LEMMA DoneTwo ==
    ASSUME NEW d1, NEW d2,
           Complete(d1), Complete(d2)
    PROVE  Done(<<d1, d2>>)
<1> DEFINE S == {d1, d2}
<1>1. <<d1, d2>> \in Seq(S)
  OBVIOUS
<1>2. \A d \in S : Complete(d)
  OBVIOUS
<1> HIDE DEF S
<1> QED
  BY <1>1, <1>2 DEF Done

LEMMA DoneFive ==
    ASSUME NEW d1, NEW d2, NEW d3, NEW d4, NEW d5,
           Complete(d1), Complete(d2), Complete(d3), Complete(d4),
           Complete(d5)
    PROVE  Done(<<d1, d2, d3, d4, d5>>)
<1> DEFINE S == {d1, d2, d3, d4, d5}
<1>1. <<d1, d2, d3, d4, d5>> \in Seq(S)
  OBVIOUS
<1>2. \A d \in S : Complete(d)
  OBVIOUS
<1> HIDE DEF S
<1> QED
  BY <1>1, <1>2 DEF Done

LEMMA DoneSix ==
    ASSUME NEW d1, NEW d2, NEW d3, NEW d4, NEW d5, NEW d6,
           Complete(d1), Complete(d2), Complete(d3), Complete(d4),
           Complete(d5), Complete(d6)
    PROVE  Done(<<d1, d2, d3, d4, d5, d6>>)
<1> DEFINE S == {d1, d2, d3, d4, d5, d6}
<1>1. <<d1, d2, d3, d4, d5, d6>> \in Seq(S)
  OBVIOUS
<1>2. \A d \in S : Complete(d)
  OBVIOUS
<1> HIDE DEF S
<1> QED
  BY <1>1, <1>2 DEF Done

LEMMA DoneSeven ==
    ASSUME NEW d1, NEW d2, NEW d3, NEW d4, NEW d5, NEW d6, NEW d7,
           Complete(d1), Complete(d2), Complete(d3), Complete(d4),
           Complete(d5), Complete(d6), Complete(d7)
    PROVE  Done(<<d1, d2, d3, d4, d5, d6, d7>>)
<1> DEFINE S == {d1, d2, d3, d4, d5, d6, d7}
<1>1. <<d1, d2, d3, d4, d5, d6, d7>> \in Seq(S)
  OBVIOUS
<1>2. \A d \in S : Complete(d)
  OBVIOUS
<1> HIDE DEF S
<1> QED
  BY <1>1, <1>2 DEF Done

LEMMA DoneTwelve ==
    ASSUME NEW d1, NEW d2, NEW d3, NEW d4, NEW d5, NEW d6, NEW d7,
           NEW d8, NEW d9, NEW d10, NEW d11, NEW d12,
           Complete(d1), Complete(d2), Complete(d3), Complete(d4),
           Complete(d5), Complete(d6), Complete(d7), Complete(d8),
           Complete(d9), Complete(d10), Complete(d11), Complete(d12)
    PROVE  Done(<<d1, d2, d3, d4, d5, d6, d7, d8,
                  d9, d10, d11, d12>>)
<1> DEFINE S == {d1, d2, d3, d4, d5, d6, d7, d8, d9, d10, d11, d12}
<1>1. <<d1, d2, d3, d4, d5, d6, d7, d8,
        d9, d10, d11, d12>> \in Seq(S)
  OBVIOUS
<1>2. \A d \in S : Complete(d)
  OBVIOUS
<1> HIDE DEF S
<1> QED
  BY <1>1, <1>2 DEF Done

LEMMA DoneFifteen ==
    ASSUME NEW d1, NEW d2, NEW d3, NEW d4, NEW d5, NEW d6, NEW d7,
           NEW d8, NEW d9, NEW d10, NEW d11, NEW d12, NEW d13, NEW d14,
           NEW d15,
           Complete(d1), Complete(d2), Complete(d3), Complete(d4),
           Complete(d5), Complete(d6), Complete(d7), Complete(d8),
           Complete(d9), Complete(d10), Complete(d11), Complete(d12),
           Complete(d13), Complete(d14), Complete(d15)
    PROVE  Done(<<d1, d2, d3, d4, d5, d6, d7, d8,
                  d9, d10, d11, d12, d13, d14, d15>>)
<1> DEFINE S == {d1, d2, d3, d4, d5, d6, d7, d8, d9, d10, d11, d12, d13, d14, d15}
<1>1. <<d1, d2, d3, d4, d5, d6, d7, d8,
        d9, d10, d11, d12, d13, d14, d15>> \in Seq(S)
  OBVIOUS
<1>2. \A d \in S : Complete(d)
  OBVIOUS
<1> HIDE DEF S
<1> QED
  BY <1>1, <1>2 DEF Done


LEMMA NormIsComplete ==
    ASSUME GeometryIsCounted, NEW rows \in Nat
    PROVE  Complete(Norm(rows))
  BY RmsNormIsComplete, Counts DEF Norm

LEMMA ResidualIsComplete ==
    ASSUME GeometryIsCounted, NEW rows \in Nat
    PROVE  Complete(Residual(rows))
<1>1. rows * HiddenSize \in Nat
  BY Counts
<1> QED
  BY <1>1, AddIsComplete DEF Residual

LEMMA SwigluStageIsComplete ==
    ASSUME GeometryIsCounted, NEW rows \in Nat
    PROVE  Complete(Swiglu(rows))
<1>1. rows * IntermediateSize \in Nat
  BY Counts
<1> QED
  BY <1>1, SwigluIsComplete DEF Swiglu

(* The kernels on their own.  A line of elements is within the limits too. *)
LEMMA LineFits ==
    ASSUME GeometryIsCounted, NEW kernel, NEW output, NEW words,
           NEW items \in Nat \ {0}, items <= GroupLimit * GroupLimit * 64
    PROVE  WithinLimits(LineStage(kernel, output, items, words))
<1>1. PICK a \in Nat \ {0}, b \in Nat \ {0} :
          BoundedGroups(items) = <<a, b, 1>> /\ a <= GroupLimit /\ b <= GroupLimit
  BY BoundedLines
<1>2. GroupLimit \in Nat \ {0}
  BY Counts
<1> DEFINE d == LineStage(kernel, output, items, words)
<1>3. d.size = <<64, 1, 1>> /\ d.groups = <<a, b, 1>>
  BY <1>1 DEF LineStage, Dispatch, Tile
<1> HIDE DEF d
<1>4. WithinLimits(d)
  BY <1>1, <1>2, <1>3 DEF WithinLimits
<1> QED
  BY <1>4 DEF d

Fits(s) == \A i \in DOMAIN s : WithinLimits(s[i])

LEMMA LinePlanIsSound ==
    ASSUME GeometryIsCounted, NEW kernel \in {"silu_f32", "gelu_tanh_f32", "gelu_erf_f32"},
           NEW n \in Nat \ {0}, n <= GroupLimit * GroupLimit * 64
    PROVE  Complete(ElementStage(kernel, n, 1)) /\ Fits(<<ElementStage(kernel, n, 1)>>)
<1>1. CeilDiv(n, 1) = n
  BY SingleDivision
<1>2. WithinLimits(ElementStage(kernel, n, 1))
  BY <1>1, LineFits DEF ElementStage
<1>3. Complete(ElementStage(kernel, n, 1))
  BY SiluIsComplete, GeluTanhIsComplete, GeluErfIsComplete
<1> QED
  BY <1>2, <1>3 DEF Fits

LEMMA MergePlanFits ==
    ASSUME GeometryIsCounted, NEW tokens \in Nat \ {0}, NEW hidden \in Nat \ {0},
           tokens * hidden * 4 <= GroupLimit * GroupLimit * 64
    PROVE  Fits(<<MergeStage("projector_merge_2x2_f32", tokens, hidden, 1)>>)
<1> DEFINE n == tokens * hidden * 4
<1>1. n \in Nat \ {0}
  <2>1. tokens * hidden \in Nat \ {0}
    OBVIOUS
  <2> QED
    BY <2>1
<1>2. n <= GroupLimit * GroupLimit * 64
  OBVIOUS
<1>3. MergeStage("projector_merge_2x2_f32", tokens, hidden, 1) =
          LineStage("projector_merge_2x2_f32", n, CeilDiv(n, 1),
                    <<tokens, hidden, n, BoundedStride(CeilDiv(n, 1))>>)
  BY DEF MergeStage
<1> HIDE DEF n
<1>4. CeilDiv(n, 1) = n
  BY <1>1, SingleDivision
<1>5. WithinLimits(MergeStage("projector_merge_2x2_f32", tokens, hidden, 1))
  BY <1>1, <1>2, <1>3, <1>4, LineFits
<1> QED
  BY <1>5 DEF Fits

LineKernels ==
    {"silu_f32", "gelu_tanh_f32", "gelu_erf_f32", "projector_merge_2x2_f32"}

LEMMA KernelPlanIsSound ==
    ASSUME GeometryIsCounted, NEW j, IsKernelCall(j),
           KernelAdmits(j.kernel, j.dims)
    PROVE  /\ Done(KernelPlan(j.kernel, j.dims))
           /\ j.kernel \in LineKernels => Fits(KernelPlan(j.kernel, j.dims))
<1> DEFINE k == j.kernel
           d == j.dims
<1>1. CASE k \in OneSize
  <2>1. d[1] \in Nat \ {0} /\ d[1] <= GroupLimit * GroupLimit * 64
    <3>1. k \notin TwoSizes /\ k \notin ThreeSizes
      BY <1>1 DEF OneSize, TwoSizes, ThreeSizes
    <3>2. d \in Sizes(1) /\ d[1] <= GroupLimit * GroupLimit * 64
      BY <3>1 DEF IsKernelCall
    <3>3. DOMAIN d = 1 .. 1 /\ d[1] \in Nat
      BY <3>2 DEF Sizes
    <3>4. d[1] > 0
      BY <3>3 DEF KernelAdmits, Positive
    <3> QED
      BY <3>2, <3>3, <3>4
  <2> DEFINE n == d[1]
  <2> HIDE DEF n
  <2>2. CASE k = "add_f32"
    <3>1. KernelPlan("add_f32", d) = <<RowStage("add_f32", n, n, <<n, 0, 0, 0>>)>>
      BY DEF KernelPlan, n
    <3>2. Complete(RowStage("add_f32", n, n, <<n, 0, 0, 0>>))
      BY <2>1, AddIsComplete DEF n
    <3> QED
      BY <2>2, <3>1, <3>2, DoneOne DEF LineKernels
  <2>3. CASE k \in {"silu_f32", "gelu_tanh_f32", "gelu_erf_f32"}
    <3>1. KernelPlan(k, d) = <<ElementStage(k, n, 1)>>
      BY <2>3 DEF KernelPlan, n
    <3>2. Complete(ElementStage(k, n, 1)) /\ Fits(<<ElementStage(k, n, 1)>>)
      BY <2>1, <2>3, LinePlanIsSound DEF n
    <3> QED
      BY <3>1, <3>2, DoneOne
  <2> QED
    BY <1>1, <2>2, <2>3 DEF OneSize
<1>2. CASE k \in TwoSizes
  <2>1. d[1] \in Nat \ {0} /\ d[2] \in Nat \ {0}
        /\ (k = "projector_merge_2x2_f32" =>
                d[1] * d[2] * 4 <= GroupLimit * GroupLimit * 64)
    <3>1. k \notin OneSize /\ k \notin ThreeSizes
      BY <1>2 DEF OneSize, TwoSizes, ThreeSizes
    <3>2. d \in Sizes(2) /\ (k = "projector_merge_2x2_f32" =>
                d[1] * d[2] * 4 <= GroupLimit * GroupLimit * 64)
      BY <3>1 DEF IsKernelCall
    <3>3. DOMAIN d = 1 .. 2 /\ d[1] \in Nat /\ d[2] \in Nat
      BY <3>2 DEF Sizes
    <3>4. d[1] > 0 /\ d[2] > 0
      BY <3>3 DEF KernelAdmits, Positive
    <3> QED
      BY <3>2, <3>3, <3>4
  <2> DEFINE n == d[1]
             m == d[2]
  <2>2. n \in Nat \ {0} /\ m \in Nat \ {0}
    BY <2>1
  <2> HIDE DEF n, m
  <2>3. CASE k = "gemv_f32"
    <3>1. KernelPlan("gemv_f32", d) = <<RowStage("gemv_f32", n, n, <<n, m, 0, 0>>)>>
      BY DEF KernelPlan, n, m
    <3>2. Complete(RowStage("gemv_f32", n, n, <<n, m, 0, 0>>))
      BY <2>2, GemvIsComplete
    <3> QED
      BY <2>3, <3>1, <3>2, DoneOne DEF LineKernels
  <2>4. CASE k = "layer_norm_f32"
    <3>1. KernelPlan("layer_norm_f32", d) =
              <<RowStage("layer_norm_f32", n * m, n, <<n, m, 0, 0>>)>>
      BY DEF KernelPlan, n, m
    <3>2. Complete(RowStage("layer_norm_f32", n * m, n, <<n, m, 0, 0>>))
      BY <2>2, LayerNormIsComplete
    <3> QED
      BY <2>4, <3>1, <3>2, DoneOne DEF LineKernels
  <2>5. CASE k = "rms_norm_f32"
    <3>1. KernelPlan("rms_norm_f32", d) =
              <<RowStage("rms_norm_f32", n * m, n, <<n, m, 0, 0>>)>>
      BY DEF KernelPlan, n, m
    <3>2. Complete(RowStage("rms_norm_f32", n * m, n, <<n, m, 0, 0>>))
      BY <2>2, RmsNormIsComplete
    <3> QED
      BY <2>5, <3>1, <3>2, DoneOne DEF LineKernels
  <2>6. CASE k = "projector_merge_2x2_f32"
    <3>1. KernelPlan("projector_merge_2x2_f32", d) =
              <<MergeStage("projector_merge_2x2_f32", n, m, 1)>>
      BY DEF KernelPlan, n, m
    <3>2. Complete(MergeStage("projector_merge_2x2_f32", n, m, 1))
      BY <2>2, MergeIsComplete
    <3>3. Fits(<<MergeStage("projector_merge_2x2_f32", n, m, 1)>>)
      <4>1. n * m * 4 <= GroupLimit * GroupLimit * 64
        BY <2>1, <2>6 DEF n, m
      <4> QED
        BY <2>2, <4>1, MergePlanFits
    <3> QED
      BY <2>6, <3>1, <3>2, <3>3, DoneOne
  <2> QED
    BY <1>2, <2>3, <2>4, <2>5, <2>6 DEF TwoSizes
<1>3. CASE k \in ThreeSizes
  <2>1. d[1] \in Nat \ {0} /\ d[2] \in Nat \ {0} /\ d[3] \in Nat \ {0}
    <3>1. k \notin OneSize /\ k \notin TwoSizes
      BY <1>3 DEF OneSize, TwoSizes, ThreeSizes
    <3>2. d \in Sizes(3)
      BY <3>1 DEF IsKernelCall
    <3>3. DOMAIN d = 1 .. 3 /\ d[1] \in Nat /\ d[2] \in Nat /\ d[3] \in Nat
      BY <3>2 DEF Sizes
    <3>4. d[1] > 0 /\ d[2] > 0 /\ d[3] > 0
      BY <3>3 DEF KernelAdmits, Positive
    <3> QED
      BY <3>3, <3>4
  <2> DEFINE n == d[1]
             m == d[2]
             r == d[3]
  <2>2. n \in Nat \ {0} /\ m \in Nat \ {0} /\ r \in Nat \ {0}
    BY <2>1
  <2>3. k = "rope_neox_f32" => r <= m /\ r % 2 = 0
    BY DEF KernelAdmits
  <2> HIDE DEF n, m, r
  <2>4. CASE k = "gemm_f32"
    <3> DEFINE p == Dispatch("gemm_f32", n * r, <<8, 8, 1>>,
                             <<CeilDiv(r, 8), CeilDiv(n, 8), 1>>, <<n, m, r, 0>>)
    <3>1. KernelPlan("gemm_f32", d) = <<p>>
      BY DEF KernelPlan, n, m, r
    <3>2. Complete(p)
      BY <2>2, GemmIsComplete
    <3> HIDE DEF p
    <3> QED
      BY <2>4, <3>1, <3>2, DoneOne DEF LineKernels
  <2>5. CASE k = "rope_neox_f32"
    <3> DEFINE p == RowStage("rope_neox_f32", n * m, n * (r \div 2), <<n, m, r, 0>>)
    <3>1. KernelPlan("rope_neox_f32", d) = <<p>>
      BY DEF KernelPlan, n, m, r
    <3>2. Complete(p)
      BY <2>2, <2>3, <2>5, RopeNeoxIsComplete
    <3> HIDE DEF p
    <3> QED
      BY <2>5, <3>1, <3>2, DoneOne DEF LineKernels
  <2>6. CASE k = "vision_attention_f32"
    <3>1. KernelPlan("vision_attention_f32", d) =
              <<AttentionStage("vision_attention_f32", n, m, r)>>
      BY DEF KernelPlan, n, m, r
    <3>2. Complete(AttentionStage("vision_attention_f32", n, m, r))
      BY <2>2, AttentionIsComplete
    <3> QED
      BY <2>6, <3>1, <3>2, DoneOne DEF LineKernels
  <2>7. CASE k = "vision_patch_projection_f32"
    <3>1. KernelPlan("vision_patch_projection_f32", d) =
              <<ProjectionStage("vision_patch_projection_f32", n, m, r)>>
      BY DEF KernelPlan, n, m, r
    <3>2. Complete(ProjectionStage("vision_patch_projection_f32", n, m, r))
      BY <2>2, PatchProjectionIsComplete
    <3> QED
      BY <2>7, <3>1, <3>2, DoneOne DEF LineKernels
  <2> QED
    BY <1>3, <2>4, <2>5, <2>6, <2>7 DEF ThreeSizes
<1> QED
  BY <1>1, <1>2, <1>3 DEF IsKernelCall


(* The other plans, each for the sizes that its planner admits. *)
LEMMA SizesAre ==
    ASSUME NEW n \in Nat, NEW d \in Sizes(n), Positive(d)
    PROVE  \A i \in 1 .. n : d[i] \in Nat \ {0}
  BY DEF Sizes, Positive

LEMMA ProjectionPlanIsDone ==
    ASSUME NEW storage \in {"f32", "f16"}, NEW d \in Sizes(3),
           ProjectionAdmits(storage, d)
    PROVE  Done(ProjectionPlan(storage, d))
<1> DEFINE n == d[1]
           m == d[2]
           r == d[3]
<1>1. /\ n \in Nat \ {0} /\ m \in Nat \ {0} /\ r \in Nat \ {0}
      /\ (storage = "f16" => r % 4 = 0)
  BY SizesAre, 3 \in Nat DEF ProjectionAdmits
<1> HIDE DEF n, m, r
<1>2. CASE storage = "f32"
  <2>1. ProjectionPlan(storage, d) =
            <<ProjectionStage("vision_patch_projection_f32", n, m, r)>>
    BY <1>2 DEF ProjectionPlan, n, m, r
  <2> QED
    BY <1>1, <2>1, PatchProjectionIsComplete, DoneOne
<1>3. CASE storage = "f16"
  <2>1. ProjectionPlan(storage, d) =
            <<ProjectionStage("linear_projection_f16_weights", n, m, r)>>
    BY <1>3 DEF ProjectionPlan, n, m, r
  <2> QED
    BY <1>1, <1>3, <2>1, WeightProjectionIsComplete, DoneOne
<1> QED
  BY <1>2, <1>3

LEMMA SplitPlanIsDone ==
    ASSUME GeometryIsCounted, NEW tokens \in Nat \ {0}
    PROVE  Done(SplitPlan(tokens))
<1> DEFINE words == <<tokens, CeilDiv(tokens, SplitChunk), 0, 0>>
           a == Dispatch("decoder_gqa_split_partial_f32",
                         SplitGroups(tokens) * PartialStride, <<Tile, 1, 1>>,
                         <<SplitGroups(tokens), 1, 1>>, words)
           b == RowStage("decoder_gqa_split_merge_f32", QueryWidth, QueryWidth,
                         words)
<1>1. SplitPlan(tokens) = <<a, b>>
  BY DEF SplitPlan
<1>2. Complete(a)
  BY SplitPartialIsComplete
<1>3. Complete(b)
  BY SplitMergeIsComplete
<1> HIDE DEF a, b
<1> QED
  BY <1>1, <1>2, <1>3, DoneTwo

LEMMA CacheTransitionIsDone ==
    ASSUME GeometryIsCounted, NEW tokens \in Nat, NEW capacity \in Nat,
           tokens < capacity
    PROVE  Done(CacheTransition(tokens, capacity))
<1> DEFINE a == RowStage("decoder_kv_append_f32", 2 * capacity * KeyValueWidth,
                         KeyValueWidth,
                         <<tokens, KeyValueHeads, HeadWidth, capacity>>)
           b == RowStage("decoder_gqa_f32", QueryWidth, QueryHeads,
                         <<tokens + 1, QueryHeads, KeyValueHeads, HeadWidth>>)
<1>1. CacheTransition(tokens, capacity) = <<a, b>> \o SplitPlan(tokens + 1)
  BY DEF CacheTransition
<1>2. Complete(a)
  BY AppendIsComplete
<1>3. Complete(b)
  BY GqaIsComplete
<1> HIDE DEF a, b
<1>4. Done(<<a, b>>)
  BY <1>2, <1>3, DoneTwo
<1>5. Done(SplitPlan(tokens + 1))
  BY SplitPlanIsDone, tokens + 1 \in Nat \ {0}
<1> QED
  BY <1>1, <1>4, <1>5, DoneConcat

LEMMA LayerPlanIsDone ==
    ASSUME GeometryIsCounted, NEW tokens, NEW capacity
    PROVE  Done(LayerPlan(tokens, capacity))
<1>1. Complete(Norm(1)) /\ Complete(Residual(1)) /\ Complete(Swiglu(1))
  BY NormIsComplete, ResidualIsComplete, SwigluStageIsComplete, 1 \in Nat
<1>2. \A rows \in Nat : \A inner : Complete(TiledStage(rows, inner))
  BY TiledIsComplete
<1> DEFINE rope == RowStage("decoder_mrope_f32", RotatedWidth, RotatedWidth,
                            <<tokens, capacity, 0, 0>>)
           query == TiledStage(QueryWidth, HiddenSize)
           keyValue == TiledStage(KeyValueWidth, HiddenSize)
           out == TiledStage(HiddenSize, QueryWidth)
           up == TiledStage(IntermediateSize, HiddenSize)
           down == TiledStage(HiddenSize, IntermediateSize)
<1>3. Complete(rope)
  BY MropeIsComplete
<1>4. /\ Complete(query) /\ Complete(keyValue) /\ Complete(out)
      /\ Complete(up) /\ Complete(down)
  BY <1>2, Counts
<1>5. AttentionBlockPlan(tokens, capacity) =
          <<Norm(1), query, keyValue, keyValue, rope, out, Residual(1)>>
  BY DEF AttentionBlockPlan
<1>6. LayerPlan(tokens, capacity) =
          AttentionBlockPlan(tokens, capacity)
              \o <<Norm(1), up, up, Swiglu(1), down, Residual(1)>>
  BY DEF LayerPlan
<1> HIDE DEF rope, query, keyValue, out, up, down
<1>7. Done(AttentionBlockPlan(tokens, capacity))
  BY <1>1, <1>3, <1>4, <1>5, DoneSeven
<1>8. Done(<<Norm(1), up, up, Swiglu(1), down, Residual(1)>>)
  BY <1>1, <1>4, DoneSix
<1> QED
  BY <1>6, <1>7, <1>8, DoneConcat

LEMMA PrefillPlanIsDone ==
    ASSUME GeometryIsCounted, NEW tokens \in Nat, NEW capacity \in Nat,
           tokens <= capacity
    PROVE  Done(PrefillPlan(tokens, capacity))
<1> DEFINE linear(inner, columns) ==
               ProjectionStage("vision_patch_projection_f32", tokens, inner, columns)
           query == linear(HiddenSize, QueryWidth)
           keyValue == linear(HiddenSize, KeyValueWidth)
           out == linear(QueryWidth, HiddenSize)
           wide == linear(HiddenSize, IntermediateSize)
           down == linear(IntermediateSize, HiddenSize)
           rope == RowStage("decoder_prefill_mrope_f32", tokens * RotatedWidth,
                            tokens * RotatedWidth, <<tokens, capacity, 0, 0>>)
           append == RowStage("decoder_kv_append_range_f32",
                              2 * capacity * KeyValueWidth,
                              tokens * KeyValueWidth, <<tokens, capacity, 0, 0>>)
           gqa == RowStage("decoder_prefill_gqa_f32", tokens * QueryWidth,
                           tokens * QueryHeads,
                           <<tokens, QueryHeads, KeyValueHeads, HeadWidth>>)
<1>1. /\ Complete(Norm(tokens)) /\ Complete(Residual(tokens))
      /\ Complete(Swiglu(tokens))
  BY NormIsComplete, ResidualIsComplete, SwigluStageIsComplete
<1>2. /\ Complete(query) /\ Complete(keyValue) /\ Complete(out)
      /\ Complete(wide) /\ Complete(down)
  BY Counts, PatchProjectionIsComplete
<1>3. Complete(rope)
  BY PrefillMropeIsComplete
<1>4. Complete(append)
  BY AppendRangeIsComplete
<1>5. Complete(gqa)
  BY PrefillGqaIsComplete
<1>6. PrefillPlan(tokens, capacity) =
          <<Norm(tokens), query, keyValue, keyValue, rope, append, gqa, out,
            Residual(tokens), Norm(tokens), wide, wide, Swiglu(tokens), down,
            Residual(tokens)>>
  BY DEF PrefillPlan
<1> HIDE DEF query, keyValue, out, wide, down, rope, append, gqa
<1> QED
  BY <1>1, <1>2, <1>3, <1>4, <1>5, <1>6, DoneFifteen

LEMMA LmHeadPlanIsDone ==
    ASSUME NEW hidden \in Nat \ {0}, NEW vocabulary \in Nat
    PROVE  Done(LmHeadPlan(hidden, vocabulary))
<1> DEFINE norm == RowStage("rms_norm_f32", hidden, 1, <<1, hidden, 0, 0>>)
           gemv == RowStage("gemv_f32", vocabulary, vocabulary,
                            <<vocabulary, hidden, 0, 0>>)
           tiled == TiledStage(vocabulary, hidden)
           logits == IF hidden \in TiledColumns THEN tiled ELSE gemv
<1>1. Complete(norm)
  <2>1. norm = RowStage("rms_norm_f32", 1 * hidden, 1, <<1, hidden, 0, 0>>)
    OBVIOUS
  <2> QED
    BY <2>1, RmsNormIsComplete, 1 \in Nat
<1>2. Complete(gemv) /\ Complete(tiled)
  BY GemvIsComplete, TiledIsComplete
<1>3. LmHeadPlan(hidden, vocabulary) = <<norm, logits>>
  BY DEF LmHeadPlan
<1> HIDE DEF norm, gemv, tiled
<1>4. Complete(logits)
  BY <1>2
<1> HIDE DEF logits
<1> QED
  BY <1>1, <1>3, <1>4, DoneTwo

LEMMA FusedPlanIsDone ==
    ASSUME GeometryIsCounted, NEW storage \in {"f32", "f16"}, NEW d \in Sizes(3),
           FusedAdmits(storage, d)
    PROVE  Done(FusedPlan(storage, d))
<1> DEFINE n == d[1]
           m == d[2]
           r == d[3]
           stride == AlignUp(n * r, PlaneAlignment)
<1>1. /\ n \in Nat \ {0} /\ m \in Nat \ {0} /\ r \in Nat \ {0}
      /\ (storage = "f16" => r % 4 = 0)
  BY SizesAre, 3 \in Nat DEF FusedAdmits
<1>2. CASE storage = "f32"
  <2> DEFINE p == Dispatch("vision_qkv_fused_f32", 3 * stride, <<8, 8, 1>>,
                           <<CeilDiv(r, 8), CeilDiv(n, 8), 3>>,
                           <<n, m, r, stride>>)
  <2>1. FusedPlan(storage, d) = <<p>>
    BY <1>2 DEF FusedPlan, FusedGroups
  <2>2. Complete(p)
    <3> HIDE DEF n, m, r
    <3> QED
      BY <1>1, FusedIsComplete
  <2> HIDE DEF p
  <2> QED
    BY <2>1, <2>2, DoneOne
<1>3. CASE storage = "f16"
  <2> DEFINE p == Dispatch("vision_qkv_fused_f16_weights", 3 * stride, <<8, 8, 1>>,
                           <<CeilDiv(r, 32), CeilDiv(n, 16), 1>>,
                           <<n, m, r, stride>>)
  <2>1. FusedPlan(storage, d) = <<p>>
    BY <1>3 DEF FusedPlan, FusedGroups
  <2>2. Complete(p)
    <3> HIDE DEF n, m, r
    <3> QED
      BY <1>1, <1>3, HalfFusedIsComplete
  <2> HIDE DEF p
  <2> QED
    BY <2>1, <2>2, DoneOne
<1> QED
  BY <1>2, <1>3

LEMMA RopePlanIsDone ==
    ASSUME NEW storage \in {"f32", "f16"}, NEW d \in Sizes(3), RopeAdmits(d)
    PROVE  Done(RopePlan(storage, d))
<1> DEFINE n == d[1]
           m == d[2]
           r == d[3]
           p(kernel) == RowStage(kernel, 2 * n * m * r, n * m * (r \div 2),
                                 <<n, m, r, 0>>)
<1>1. n \in Nat \ {0} /\ m \in Nat \ {0} /\ r \in Nat \ {0} /\ r % 4 = 0
  BY SizesAre, 3 \in Nat DEF RopeAdmits
<1>2. RopePlan(storage, d) =
          <<p(IF storage = "f16" THEN "vision_rope_2d_f16" ELSE "vision_rope_2d_f32")>>
  BY DEF RopePlan
<1> HIDE DEF n, m, r
<1>3. Complete(p("vision_rope_2d_f32")) /\ Complete(p("vision_rope_2d_f16"))
  BY <1>1, RopeIsComplete, HalfRopeIsComplete
<1> HIDE DEF p
<1> QED
  BY <1>2, <1>3, DoneOne


LEMMA ProjectorPlanIsDone ==
    ASSUME GeometryIsCounted, NEW storage \in {"f32", "f16"}, NEW d \in Sizes(3),
           ProjectorAdmits(storage, d)
    PROVE  Done(ProjectorPlan(storage, d))
<1> DEFINE tokens == d[1]
           hidden == d[2]
           out == d[3]
           wide == 4 * hidden
           rows == 4 * tokens
           elements == tokens * wide
<1>1. /\ tokens \in Nat \ {0} /\ hidden \in Nat \ {0} /\ out \in Nat \ {0}
      /\ (storage = "f16" => hidden % 4 = 0 /\ out % 4 = 0)
  BY SizesAre, 3 \in Nat DEF ProjectorAdmits
<1> DEFINE norm(k) == RowStage(k, rows * hidden, rows, <<rows, hidden, 0, 0>>)
           merge(k, divisor) == MergeStage(k, tokens, hidden, divisor)
           linear(k, columns) == ProjectionStage(k, tokens, wide, columns)
           gelu(k, divisor) == ElementStage(k, elements, divisor)
<1>2. storage = "f32" =>
          ProjectorPlan(storage, d) =
              <<norm("layer_norm_f32"), merge("projector_merge_2x2_f32", 1),
                linear("vision_patch_projection_f32", wide),
                gelu("gelu_erf_f32", 1),
                linear("vision_patch_projection_f32", out)>>
  BY DEF ProjectorPlan
<1>3. storage = "f16" =>
          ProjectorPlan(storage, d) =
              <<norm("layer_norm_f16"), merge("projector_merge_2x2_f16", 4),
                linear("linear_projection_f16", wide),
                gelu("gelu_erf_f16", 4),
                linear("linear_projection_f16", out)>>
  BY DEF ProjectorPlan
<1> HIDE DEF tokens, hidden, out
<1>4. wide \in Nat \ {0} /\ wide % 4 = 0 /\ rows \in Nat
  BY <1>1
<1>5. elements \in Nat \ {0}
  <2> HIDE DEF wide
  <2> QED
    BY <1>1, <1>4
<1> HIDE DEF wide, rows, elements
<1>6. CASE storage = "f32"
  <2>1. Complete(norm("layer_norm_f32"))
    BY <1>1, <1>4, LayerNormIsComplete
  <2>2. Complete(merge("projector_merge_2x2_f32", 1))
    BY <1>1, MergeIsComplete
  <2>3. /\ Complete(linear("vision_patch_projection_f32", wide))
        /\ Complete(linear("vision_patch_projection_f32", out))
    BY <1>1, <1>4, PatchProjectionIsComplete
  <2>4. Complete(gelu("gelu_erf_f32", 1))
    BY <1>5, GeluErfIsComplete
  <2> HIDE DEF norm, merge, linear, gelu
  <2> QED
    BY <1>2, <1>6, <2>1, <2>2, <2>3, <2>4, DoneFive
<1>7. CASE storage = "f16"
  <2>1. Complete(norm("layer_norm_f16"))
    BY <1>1, <1>4, <1>7, HalfLayerNormIsComplete
  <2>2. Complete(merge("projector_merge_2x2_f16", 4))
    BY <1>1, <1>7, HalfMergeIsComplete
  <2>3. /\ Complete(linear("linear_projection_f16", wide))
        /\ Complete(linear("linear_projection_f16", out))
    BY <1>1, <1>4, <1>7, HalfProjectionIsComplete
  <2>4. Complete(gelu("gelu_erf_f16", 4))
    BY <1>5, HalfGeluErfIsComplete
  <2> HIDE DEF norm, merge, linear, gelu
  <2> QED
    BY <1>3, <1>7, <2>1, <2>2, <2>3, <2>4, DoneFive
<1> QED
  BY <1>6, <1>7

Precisions == {"f32", "f16Weights", "f16"}

LEMMA VisionLayerPlanIsDone ==
    ASSUME GeometryIsCounted, NEW precision \in Precisions, NEW d \in Sizes(4),
           VisionLayerAdmits(precision, d),
           precision = "f16" => d[3] % 4 = 0
    PROVE  /\ Done(VisionLayerPlan(precision, d))
           /\ DOMAIN VisionLayerPlan(precision, d) = 1 .. 12
<1> DEFINE tokens == d[1]
           heads == d[2]
           width == d[3]
           inner == d[4]
           hidden == heads * width
           elements == tokens * hidden
           activations == tokens * inner
<1>1. /\ tokens \in Nat \ {0} /\ heads \in Nat \ {0} /\ width \in Nat \ {0}
      /\ inner \in Nat \ {0}
      /\ (precision # "f32" => hidden % 4 = 0 /\ inner % 4 = 0)
      /\ (precision = "f16" => width % 4 = 0)
  BY SizesAre, 4 \in Nat DEF VisionLayerAdmits
<1> DEFINE norm(k) == RowStage(k, elements, tokens, <<tokens, hidden, 0, 0>>)
           linear(k, columns, rows) == ProjectionStage(k, tokens, columns, rows)
           attention(k) == AttentionStage(k, tokens, heads, width)
           add(k, divisor) == ElementStage(k, elements, divisor)
           gelu(k, divisor) == ElementStage(k, activations, divisor)
           plan(n, p, a, s, g, divisor) ==
               <<norm(n), linear(p, hidden, hidden), linear(p, hidden, hidden),
                 linear(p, hidden, hidden), attention(a),
                 linear(p, hidden, hidden), add(s, divisor), norm(n),
                 linear(p, hidden, inner), gelu(g, divisor),
                 linear(p, inner, hidden), add(s, divisor)>>
<1>2. precision = "f32" =>
          VisionLayerPlan(precision, d) =
              plan("layer_norm_f32", "vision_patch_projection_f32",
                   "vision_attention_f32", "add_f32", "gelu_tanh_f32", 1)
  BY DEF VisionLayerPlan
<1>3. precision = "f16Weights" =>
          VisionLayerPlan(precision, d) =
              plan("layer_norm_f32", "linear_projection_f16_weights",
                   "vision_attention_f32", "add_f32", "gelu_tanh_f32", 1)
  BY DEF VisionLayerPlan
<1>4. precision = "f16" =>
          VisionLayerPlan(precision, d) =
              plan("layer_norm_f16", "linear_projection_f16",
                   "vision_attention_f16", "add_f16", "gelu_tanh_f16", 4)
  BY DEF VisionLayerPlan
<1> HIDE DEF tokens, heads, width, inner
<1>5. hidden \in Nat \ {0}
  BY <1>1
<1> HIDE DEF hidden
<1>6. elements \in Nat \ {0} /\ activations \in Nat \ {0}
  BY <1>1, <1>5
<1>7. /\ Complete(norm("layer_norm_f32"))
      /\ precision = "f16" => Complete(norm("layer_norm_f16"))
  BY <1>1, <1>5, LayerNormIsComplete, HalfLayerNormIsComplete
<1> HIDE DEF elements, activations
<1>8. /\ Complete(linear("vision_patch_projection_f32", hidden, hidden))
      /\ Complete(linear("vision_patch_projection_f32", hidden, inner))
      /\ Complete(linear("vision_patch_projection_f32", inner, hidden))
  BY <1>1, <1>5, PatchProjectionIsComplete
<1>9. precision # "f32" =>
      /\ Complete(linear("linear_projection_f16_weights", hidden, hidden))
      /\ Complete(linear("linear_projection_f16_weights", hidden, inner))
      /\ Complete(linear("linear_projection_f16_weights", inner, hidden))
  BY <1>1, <1>5, WeightProjectionIsComplete
<1>10. precision # "f32" =>
      /\ Complete(linear("linear_projection_f16", hidden, hidden))
      /\ Complete(linear("linear_projection_f16", hidden, inner))
      /\ Complete(linear("linear_projection_f16", inner, hidden))
  BY <1>1, <1>5, HalfProjectionIsComplete
<1>11. /\ Complete(attention("vision_attention_f32"))
       /\ precision = "f16" => Complete(attention("vision_attention_f16"))
  BY <1>1, AttentionIsComplete, HalfAttentionIsComplete
<1>12. Complete(add("add_f32", 1)) /\ Complete(add("add_f16", 4))
  BY <1>6, AddLineIsComplete, HalfAddIsComplete
<1>13. Complete(gelu("gelu_tanh_f32", 1)) /\ Complete(gelu("gelu_tanh_f16", 4))
  BY <1>6, GeluTanhIsComplete, HalfGeluTanhIsComplete
<1> HIDE DEF norm, linear, attention, add, gelu
<1>14. ASSUME NEW n, NEW p, NEW a, NEW s, NEW g, NEW divisor,
              Complete(norm(n)), Complete(linear(p, hidden, hidden)),
              Complete(linear(p, hidden, inner)),
              Complete(linear(p, inner, hidden)), Complete(attention(a)),
              Complete(add(s, divisor)), Complete(gelu(g, divisor))
       PROVE  /\ Done(plan(n, p, a, s, g, divisor))
              /\ DOMAIN plan(n, p, a, s, g, divisor) = 1 .. 12
  <2>1. Done(plan(n, p, a, s, g, divisor))
    BY <1>14, DoneTwelve
  <2>2. DOMAIN plan(n, p, a, s, g, divisor) = 1 .. 12
    OBVIOUS
  <2> QED
    BY <2>1, <2>2
<1> HIDE DEF plan
<1>15. CASE precision = "f32"
  BY <1>2, <1>7, <1>8, <1>11, <1>12, <1>13, <1>14, <1>15
<1>16. CASE precision = "f16Weights"
  BY <1>3, <1>7, <1>9, <1>11, <1>12, <1>13, <1>14, <1>16
<1>17. CASE precision = "f16"
  BY <1>4, <1>7, <1>10, <1>11, <1>12, <1>13, <1>14, <1>17
<1> QED
  BY <1>15, <1>16, <1>17 DEF Precisions

LEMMA VisionStackPlanIsDone ==
    ASSUME GeometryIsCounted, NEW layers \in Nat, NEW d \in Sizes(4),
           VisionLayerAdmits("f32", d)
    PROVE  Done(VisionStackPlan(layers, d))
<1> DEFINE plan == VisionLayerPlan("f32", d)
           n == 12 * layers
           all == [i \in 1 .. n |-> plan[((i - 1) % 12) + 1]]
<1>1. Done(plan) /\ DOMAIN plan = 1 .. 12
  BY VisionLayerPlanIsDone DEF Precisions
<1>2. VisionStackPlan(layers, d) = all \o <<plan[1]>>
  BY DEF VisionStackPlan
<1>3. n \in Nat
  OBVIOUS
<1> HIDE DEF plan, n
<1>4. \A i \in 1 .. 12 : Complete(plan[i])
  <2>1. PICK S : plan \in Seq(S) /\ \A p \in S : Complete(p)
    BY <1>1 DEF Done
  <2>2. \A i \in DOMAIN plan : plan[i] \in S
    BY <2>1
  <2> QED
    BY <1>1, <2>1, <2>2
<1>5. Done(all)
  <2> DEFINE S == {plan[i] : i \in 1 .. 12}
  <2>1. all \in Seq(S)
    <3>1. \A i \in 1 .. n : ((i - 1) % 12) + 1 \in 1 .. 12
      BY <1>3
    <3> QED
      BY <1>3, <3>1
  <2>2. \A p \in S : Complete(p)
    BY <1>4
  <2> HIDE DEF S, all
  <2> QED
    BY <2>1, <2>2 DEF Done
<1> HIDE DEF all
<1>6. Done(<<plan[1]>>)
  BY <1>4, DoneOne, 1 \in 1 .. 12
<1> QED
  BY <1>2, <1>5, <1>6, DoneConcat


-----------------------------------------------------------------------------
(* What every step keeps: what is left to dispatch is complete, and what a *)
(* call of a kernel waits for the limits with is its plan.                 *)

KernelIsPlanned ==
    stage = "planned" /\ geometryJob.call = "kernel" =>
        /\ KernelAdmits(geometryJob.kernel, geometryJob.dims)
        /\ dispatchesLeft = KernelPlan(geometryJob.kernel, geometryJob.dims)

GeometryInv ==
    /\ geometryJob \in GeometryJobs
    /\ Done(dispatchesLeft)
    /\ KernelIsPlanned
    /\ DispatchesAreComplete
    /\ LongLinesFit

LEMMA InitSound == Init => GeometryInv
  BY DoneEmpty DEF Init, GeometryInv, KernelIsPlanned, DispatchesAreComplete,
                   LongLinesFit

LEMMA OtherPlanSound ==
    ASSUME GeometryInv, NEW admits, NEW dispatches, Plans(admits, dispatches),
           geometryJob.call # "kernel", admits => Done(dispatches)
    PROVE  GeometryInv'
<1>1. Done(dispatchesLeft')
  BY DoneEmpty DEF Plans
<1>2. geometryJob' = geometryJob /\ outcome' = outcome
  BY DEF Plans
<1> QED
  BY <1>1, <1>2 DEF GeometryInv, KernelIsPlanned, DispatchesAreComplete,
                    LongLinesFit

LEMMA KernelSound ==
    ASSUME GeometryIsCounted, JobsAreCalls, GeometryInv, PlansKernel
    PROVE  GeometryInv'
<1> DEFINE j == geometryJob
           admits == KernelAdmits(j.kernel, j.dims)
           plan == KernelPlan(j.kernel, j.dims)
<1>1. Plans(admits, plan) /\ j.call = "kernel" /\ j \in GeometryJobs
  BY DEF PlansKernel, GeometryInv
<1>2. IsKernelCall(j)
  BY <1>1 DEF JobsAreCalls, IsCall
<1>3. admits => Done(plan)
  BY <1>2, KernelPlanIsSound
<1>4. geometryJob' = j /\ outcome' = outcome
      /\ (stage' = IF admits THEN "planned" ELSE "refused")
      /\ dispatchesLeft' = IF admits THEN plan ELSE <<>>
  BY <1>1 DEF Plans
<1> HIDE DEF admits, plan
<1>5. Done(dispatchesLeft')
  BY <1>3, <1>4, DoneEmpty
<1>6. KernelIsPlanned'
  BY <1>4 DEF KernelIsPlanned, admits, plan
<1>7. LongLinesFit'
  BY <1>4 DEF LongLinesFit, admits
<1> QED
  BY <1>1, <1>4, <1>5, <1>6, <1>7 DEF GeometryInv, DispatchesAreComplete

LEMMA PlansSound ==
    ASSUME GeometryIsCounted, JobsAreCalls, GeometryInv,
           \/ PlansProjection \/ PlansTiledProduct \/ PlansCache
           \/ PlansLayer \/ PlansPrefill \/ PlansLmHead
           \/ PlansFused \/ PlansRope \/ PlansProjector \/ PlansVisionLayer
           \/ PlansVisionStack
    PROVE  GeometryInv'
<1> DEFINE j == geometryJob
           d == j.dims
<1>1. IsCall(j)
  BY DEF GeometryInv, JobsAreCalls
<1>2. CASE PlansProjection
  <2>1. j.storage \in {"f32", "f16"} /\ d \in Sizes(3)
    BY <1>1, <1>2 DEF PlansProjection, IsCall
  <2>2. ProjectionAdmits(j.storage, d) => Done(ProjectionPlan(j.storage, d))
    BY <2>1, ProjectionPlanIsDone
  <2> QED
    BY <1>2, <2>2, OtherPlanSound DEF PlansProjection
<1>3. CASE PlansTiledProduct
  <2>1. d \in Sizes(2)
    BY <1>1, <1>3 DEF PlansTiledProduct, IsCall
  <2>2. Done(<<TiledStage(d[1], d[2])>>)
    BY <2>1, TiledIsComplete, DoneOne DEF Sizes
  <2> QED
    BY <1>3, <2>2, OtherPlanSound DEF PlansTiledProduct
<1>4. CASE PlansCache
  <2>1. d \in Sizes(2)
    BY <1>1, <1>4 DEF PlansCache, IsCall
  <2>2. CacheAdmits(d[1], d[2]) => Done(CacheTransition(d[1], d[2]))
    BY <2>1, CacheTransitionIsDone DEF Sizes, CacheAdmits
  <2> QED
    BY <1>4, <2>2, OtherPlanSound DEF PlansCache
<1>5. CASE PlansLayer
  <2>1. Done(LayerPlan(d[1], d[2]))
    BY LayerPlanIsDone
  <2> QED
    BY <1>5, <2>1, OtherPlanSound DEF PlansLayer
<1>6. CASE PlansPrefill
  <2>1. d \in Sizes(2)
    BY <1>1, <1>6 DEF PlansPrefill, IsCall
  <2>2. PrefillAdmits(d[1], d[2]) => Done(PrefillPlan(d[1], d[2]))
    BY <2>1, PrefillPlanIsDone DEF Sizes, PrefillAdmits
  <2> QED
    BY <1>6, <2>2, OtherPlanSound DEF PlansPrefill
<1>7. CASE PlansLmHead
  <2>1. d \in Sizes(2)
    BY <1>1, <1>7 DEF PlansLmHead, IsCall
  <2>2. LmHeadAdmits(d[1], d[2]) => Done(LmHeadPlan(d[1], d[2]))
    BY <2>1, LmHeadPlanIsDone DEF Sizes, LmHeadAdmits
  <2> QED
    BY <1>7, <2>2, OtherPlanSound DEF PlansLmHead
<1>8. CASE PlansFused
  <2>1. j.storage \in {"f32", "f16"} /\ d \in Sizes(3)
    BY <1>1, <1>8 DEF PlansFused, IsCall
  <2>2. FusedAdmits(j.storage, d) => Done(FusedPlan(j.storage, d))
    BY <2>1, FusedPlanIsDone
  <2> QED
    BY <1>8, <2>2, OtherPlanSound DEF PlansFused
<1>9. CASE PlansRope
  <2>1. j.storage \in {"f32", "f16"} /\ d \in Sizes(3)
    BY <1>1, <1>9 DEF PlansRope, IsCall
  <2>2. RopeAdmits(d) => Done(RopePlan(j.storage, d))
    BY <2>1, RopePlanIsDone
  <2> QED
    BY <1>9, <2>2, OtherPlanSound DEF PlansRope
<1>10. CASE PlansProjector
  <2>1. j.storage \in {"f32", "f16"} /\ d \in Sizes(3)
    BY <1>1, <1>10 DEF PlansProjector, IsCall
  <2>2. ProjectorAdmits(j.storage, d) => Done(ProjectorPlan(j.storage, d))
    BY <2>1, ProjectorPlanIsDone
  <2> QED
    BY <1>10, <2>2, OtherPlanSound DEF PlansProjector
<1>11. CASE PlansVisionLayer
  <2>1. /\ j.storage \in Precisions /\ d \in Sizes(4)
        /\ j.storage = "f16" => d[3] % 4 = 0
    BY <1>1, <1>11 DEF PlansVisionLayer, IsCall, Precisions
  <2>2. VisionLayerAdmits(j.storage, d) => Done(VisionLayerPlan(j.storage, d))
    BY <2>1, VisionLayerPlanIsDone
  <2> QED
    BY <1>11, <2>2, OtherPlanSound DEF PlansVisionLayer
<1>12. CASE PlansVisionStack
  <2>1. j.layers \in Nat /\ d \in Sizes(4)
    BY <1>1, <1>12 DEF PlansVisionStack, IsCall
  <2>2. VisionLayerAdmits("f32", d) => Done(VisionStackPlan(j.layers, d))
    BY <2>1, VisionStackPlanIsDone
  <2> QED
    BY <1>12, <2>2, OtherPlanSound DEF PlansVisionStack
<1> QED
  BY <1>2, <1>3, <1>4, <1>5, <1>6, <1>7, <1>8, <1>9, <1>10, <1>11, <1>12

LEMMA ValidatesSound ==
    ASSUME GeometryIsCounted, JobsAreCalls, GeometryInv, Validates
    PROVE  GeometryInv'
<1>1. /\ stage = "planned" /\ geometryJob' = geometryJob /\ outcome' = outcome
      /\ (stage' = IF Fits(dispatchesLeft) THEN "running" ELSE "refused")
      /\ dispatchesLeft' = IF Fits(dispatchesLeft) THEN dispatchesLeft ELSE <<>>
  BY DEF Validates, Fits
<1>2. Done(dispatchesLeft')
  BY <1>1, DoneEmpty DEF GeometryInv
<1>3. KernelIsPlanned'
  BY <1>1 DEF KernelIsPlanned
<1>4. LongLinesFit'
  <2> SUFFICES ASSUME geometryJob.call = "kernel", ~ Fits(dispatchesLeft)
               PROVE  geometryJob.kernel \notin LineKernels
    BY <1>1 DEF LongLinesFit, LineKernels
  <2> DEFINE j == geometryJob
  <2>1. KernelAdmits(j.kernel, j.dims)
        /\ dispatchesLeft = KernelPlan(j.kernel, j.dims)
    BY <1>1 DEF GeometryInv, KernelIsPlanned
  <2>2. IsKernelCall(j)
    BY DEF GeometryInv, JobsAreCalls, IsCall
  <2> HIDE DEF j
  <2>3. j.kernel \in LineKernels => Fits(KernelPlan(j.kernel, j.dims))
    BY <2>1, <2>2, KernelPlanIsSound
  <2> QED
    BY <2>1, <2>3 DEF j
<1> QED
  BY <1>1, <1>2, <1>3, <1>4 DEF GeometryInv, DispatchesAreComplete

LEMMA RunsSound ==
    ASSUME GeometryInv, Runs
    PROVE  GeometryInv'
<1> DEFINE d == Head(dispatchesLeft)
<1>1. Complete(d) /\ Done(Tail(dispatchesLeft))
  BY DoneSteps DEF Runs, GeometryInv
<1>2. /\ stage = "running" /\ stage' = stage /\ geometryJob' = geometryJob
      /\ dispatchesLeft' = Tail(dispatchesLeft)
  BY DEF Runs
<1>3. outcome' = "complete"
  <2> DEFINE elements == {write[3] : write \in Writes(d)}
  <2>1. elements = Promised(d) /\ Cardinality(Writes(d)) = Cardinality(Promised(d))
    BY <1>1 DEF Complete
  <2>2. outcome' = IF ~ Promised(d) \subseteq elements THEN "missing"
                   ELSE IF elements # Promised(d) THEN "stray"
                   ELSE IF Cardinality(Writes(d)) # Cardinality(elements)
                   THEN "twice" ELSE "complete"
    BY DEF Runs
  <2> HIDE DEF elements, d
  <2> QED
    BY <2>1, <2>2
<1> QED
  BY <1>1, <1>2, <1>3 DEF GeometryInv, KernelIsPlanned, DispatchesAreComplete,
                          LongLinesFit

(* Every dispatch that any admitted plan yields writes all that the plan   *)
(* promises, nothing else, and no element twice; and no line of elements   *)
(* is refused for its length.  For any sizes of the model, any alignment   *)
(* of planes, any limit of an axis and any calls.                          *)
THEOREM DispatchSafety ==
    ASSUME GeometryIsCounted, JobsAreCalls
    PROVE  Spec => []DispatchesAreSound
<1>1. Init => GeometryInv
  BY InitSound
<1>2. GeometryInv /\ [Next]_geometryVars => GeometryInv'
  <2> SUFFICES ASSUME GeometryInv, [Next]_geometryVars PROVE GeometryInv'
    OBVIOUS
  <2>1. CASE Next
    <3>1. CASE PlansKernel
      BY <3>1, KernelSound
    <3>2. CASE \/ PlansProjection \/ PlansTiledProduct \/ PlansCache
               \/ PlansLayer \/ PlansPrefill \/ PlansLmHead
               \/ PlansFused \/ PlansRope \/ PlansProjector \/ PlansVisionLayer
               \/ PlansVisionStack
      BY <3>2, PlansSound
    <3>3. CASE Validates
      BY <3>3, ValidatesSound
    <3>4. CASE Runs
      BY <3>4, RunsSound
    <3> QED
      BY <2>1, <3>1, <3>2, <3>3, <3>4 DEF Next
  <2>2. CASE UNCHANGED geometryVars
    BY <2>2 DEF geometryVars, GeometryInv, KernelIsPlanned,
                DispatchesAreComplete, LongLinesFit
  <2> QED
    BY <2>1, <2>2
<1>3. GeometryInv => DispatchesAreSound
  BY DEF GeometryInv, DispatchesAreSound
<1> QED
  BY <1>1, <1>2, <1>3, PTL DEF Spec
=============================================================================
