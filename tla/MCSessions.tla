----------------------------- MODULE MCSessions -----------------------------
(* Sessions.tla on small instances. *)
EXTENDS Sessions, TLC

Sym == Permutations(Slot) \cup Permutations(Password \ {First})
=============================================================================
