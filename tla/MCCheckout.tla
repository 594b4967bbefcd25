----------------------------- MODULE MCCheckout -----------------------------
(* Instances of Checkout for TLC.                                          *)
EXTENDS Checkout, TLC

\* Two guest sessions of one person, who gives the same e-mail address in both.
OneBuyer == [o \in Owners |-> "b"]

\* With one buyer, owners are interchangeable, and so are requests, keys and prices.
Symmetry == Permutations(Requests) \cup Permutations(Owners) \cup Permutations(Keys) \cup Permutations(Prices)
=============================================================================
