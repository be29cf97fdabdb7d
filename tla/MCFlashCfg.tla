---------------------------- MODULE MCFlashCfg ----------------------------
(* An instance of FlashCfg for TLC.                                        *)
EXTENDS FlashCfg

Sizes == [v \in Values |-> IF v = "short" THEN 2 ELSE 3]
=============================================================================
