------------------------ MODULE MCRecognitionEngine ------------------------
(* Recognitions are interchangeable; runtimes are not: dispose frees them  *)
(* in order.                                                               *)
EXTENDS RecognitionEngine, TLC

Symmetry == Permutations(Job)
=============================================================================
