------------------------------ MODULE MCRefunds ------------------------------
(* Instances of Refunds for TLC.                                           *)
EXTENDS Refunds, TLC

\* Dashboard refunds of one unit each.
UnitExternals == [x \in Externals |-> 1]
\* A dashboard refund of the whole payment.
FullExternals == [x \in Externals |-> Amount]

Symmetry == Permutations(Requests) \cup Permutations(Externals) \cup Permutations(Disputes)
=============================================================================
