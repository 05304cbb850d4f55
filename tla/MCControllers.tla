---------------------------- MODULE MCControllers ----------------------------
(***************************************************************************)
(* Two cards that keep known_keys in the properties of the server.  All    *)
(* devices are of one class, the one of the card of the template, if any.  *)
(***************************************************************************)
EXTENDS Controllers, TLC

CONSTANTS a, b, x

MCTypeOf == [n \in Node |-> x]
MCSymmetry == Permutations({a, b})
=============================================================================
