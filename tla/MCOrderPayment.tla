--------------------------- MODULE MCOrderPayment ---------------------------
(* Instances of OrderPayment for TLC.                                      *)
EXTENDS OrderPayment, TLC

\* Payers, cancellers and the intents that TLC need not tell apart are interchangeable
\* (in the runs that check no liveness).
Symmetry == Permutations(Payers) \cup Permutations(Cancellers) \cup Permutations(Intents \ Mismatched)

\* Bound: a failed handler, a lost commit and an intent of the wrong amount are followed with one
\* payer and no cancellation beside them; the run `recovery` follows them further.
TroubleAlone ==
    failures + lost > 0 \/ (\E i \in Mismatched : intent[i] # "absent")
      => /\ \A c \in Cancellers : canceller[c] = IdleCanceller
         /\ Cardinality({p \in Payers : payer[p] # IdlePayer}) <= 1
         /\ Cardinality({i \in Intents : intent[i] # "absent"}) <= 1
=============================================================================
