----------------------- MODULE MCDecoderStackSession -----------------------
(* Bounds for DecoderStackSession: the smallest descriptors with a prompt  *)
(* that leaves room for one token, a prompt that fills its cache, a        *)
(* prefilled cache that a caller supplies, and a prompt too long to admit. *)
EXTENDS DecoderStackSession, TLC

Plan(prefix, capacity, prefill, vocab) ==
    [prefix |-> prefix, capacity |-> capacity, prefill |-> prefill,
     vocab |-> vocab]

AwaitedDescriptors == {Plan(0, 1, 1, TRUE), Plan(0, 2, 1, TRUE),
                       Plan(0, 2, 2, TRUE), Plan(1, 3, 0, TRUE),
                       Plan(0, 2, 3, FALSE)}
OneDescriptor == {Plan(0, 2, 1, TRUE)}
StepDescriptor == {Plan(1, 2, 0, FALSE)}
Symmetry == Permutations(Op) \cup Permutations(Session)
=============================================================================
