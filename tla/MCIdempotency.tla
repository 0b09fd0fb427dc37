--------------------------- MODULE MCIdempotency ---------------------------
\* Idempotency for TLC: calls and payloads are interchangeable.
EXTENDS Idempotency, TLC
Symmetry == Permutations(Clients) \cup Permutations(Payloads)
=============================================================================
