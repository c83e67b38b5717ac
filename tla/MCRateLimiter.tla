--------------------------- MODULE MCRateLimiter ---------------------------
(* RateLimiter for TLC: a client behind the proxy and a direct one that    *)
(* share an address, without claims, on a path limited by user.            *)
EXTENDS RateLimiter, TLC

CONSTANTS c1, c2

MCKind(forwarded, remote) ==
  [path |-> "/me", form |-> "", user |-> "", forwarded |-> forwarded,
   realIP |-> "", remote |-> remote]

MCKinds == {MCKind("ip1", "ip2"), MCKind("", "ip1")}
MCLimits == "/me" :> [max |-> 2, window |-> 4, key |-> "userID"]
MCDefault == [max |-> 1, window |-> 3, key |-> "ip"]

ClientSymmetry == Permutations({c1, c2})
=============================================================================
