------------------------------- MODULE MCCart -------------------------------
(* An instance of Cart for TLC.                                            *)
EXTENDS Cart, TLC

\* Requests are interchangeable, and so are units.
Symmetry == Permutations(Requests) \cup Permutations(Units)
=============================================================================
