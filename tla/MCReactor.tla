------------------------------ MODULE MCReactor -------------------------------
(* Reactor for TLC: slots are interchangeable, and so are workers. *)
EXTENDS Reactor, TLC

ReactorSymmetry == Permutations(Slots) \union Permutations(Workers)
===============================================================================
