----------------------- MODULE MCVisionStackSession -----------------------
(* Instances of VisionStackSession for TLC. *)
EXTENDS VisionStackSession, TLC

(* Runtimes are interchangeable, and so are checkpoints. *)
Symmetric == Permutations(Runtime) \union Permutations(Key)
=============================================================================
