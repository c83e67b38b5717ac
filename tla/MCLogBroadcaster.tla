------------------------- MODULE MCLogBroadcaster --------------------------
(***************************************************************************)
(* Instances of LogBroadcaster for TLC.  Subscribers are interchangeable.  *)
(***************************************************************************)
EXTENDS LogBroadcaster, TLC

Symmetry == Permutations(Subs)
=============================================================================
