---- MODULE MCApiProcess ----
(***************************************************************************)
(* Readers, writers and the generator are model values.                    *)
(***************************************************************************)
EXTENDS ApiProcess

CONSTANTS r1, w1, w2
====
