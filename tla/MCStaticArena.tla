--------------------------- MODULE MCStaticArena ---------------------------
(* Bounds for StaticArena: sizes below, at and above the alignments, an    *)
(* arena of two words so that some inputs overflow and others fit only by  *)
(* sharing bytes, and three stages, so that two lifetimes can be disjoint  *)
(* and a third meet both.                                                  *)
EXTENDS StaticArena

Sizes == {1, 3}
Alignments == {1, 4}
=============================================================================
