--------------------------- MODULE MCBlockExecutor ---------------------------
(* Three blocks; ordinals as production numbers them, and a benchmark       *)
(* subset whose ordinals are not the order of preparation.                  *)
EXTENDS BlockExecutor

MCOrdinals == {<<0, 1, 2>>, <<7, 2, 5>>}
=============================================================================
