-------------------------- MODULE MCRefreshTokens --------------------------
(* Instances of RefreshTokens for TLC.                                     *)
EXTENDS RefreshTokens, TLC

\* Goroutines and fingerprints are interchangeable.
Symmetry == Permutations(Clients) \cup Permutations(Fingerprints)
=============================================================================
