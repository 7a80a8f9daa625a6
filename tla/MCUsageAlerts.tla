---------------------------- MODULE MCUsageAlerts ----------------------------
(* Two windows of one kind whose reset times the provider sends: when they    *)
(* begin a period together, an older version's mark is of both.              *)
EXTENDS UsageAlerts, TLC

CONSTANTS w1, w2

GivenResets == w1 :> "given" @@ w2 :> "given"

(* Nothing tells the two windows apart.                                      *)
WindowSymmetry == Permutations(Windows)
=============================================================================
