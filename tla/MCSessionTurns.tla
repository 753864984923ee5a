----------------------------- MODULE MCSessionTurns -----------------------------
(* SessionTurns for TLC: tool calls are only compared with each other, so  *)
(* they may be permuted.                                                   *)
EXTENDS SessionTurns, TLC

Symmetry == Permutations(Tools)
=============================================================================
