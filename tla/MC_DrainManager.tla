--------------------------- MODULE MC_DrainManager ---------------------------
(***************************************************************************)
(* Two nodes, so that one call's loop moves its variable past a node whose *)
(* goroutine has not read it yet, and a second call finds a node still     *)
(* being drained.  Evictions take 0 or 1 second: AnyEvict lets each node  *)
(* take either, MixedEvict fixes n1 at 0 and n2 at 1 so that both the     *)
(* timely and the slow drain happen in one run of a bigger model.         *)
(***************************************************************************)
EXTENDS DrainManager

CONSTANTS n1, n2

AnyEvict == [{n1, n2} -> {0, 1}]
MixedEvict == {[n \in {n1, n2} |-> IF n = n1 THEN 0 ELSE 1]}
=============================================================================
