----------------------------- MODULE MCLuaEvent ------------------------------
(* Three objects sharing two addresses, so that a destroyed object's place *)
(* is taken by a new one while scripts still hold its closures.            *)
EXTENDS LuaEvent

CONSTANTS o1, o2, o3

MCObjects == {o1, o2, o3}

\* Objects are interchangeable: none is created first by the model.
MCSymmetry == Permutations(MCObjects)

=============================================================================
