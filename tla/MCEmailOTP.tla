----------------------------- MODULE MCEmailOTP -----------------------------
\* EmailOTP on small instances; clients are interchangeable.
EXTENDS EmailOTP, TLC

Symmetry == Permutations(Clients)
=============================================================================
