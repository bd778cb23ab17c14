---- MODULE MCInventory ----
(* Three GPUs and three claims: two GPUs may be passed through while the third *)
(* is given back before, between or after them.                                *)
EXTENDS Inventory, TLC

CONSTANTS c1, c2, c3
ClaimSymmetry == Permutations({c1, c2, c3})
====
