---------------------------- MODULE MCOAuthLogin ----------------------------
(* OAuthLogin for TLC: one account at each provider, with the same ID, and *)
(* one address, all of the same person or Google's of another one; a change*)
(* may leave another spelling of the address or another address.           *)
EXTENDS OAuthLogin

CONSTANTS r1, r2

MCAccounts == {[provider |-> "github", id |-> "1"],
               [provider |-> "google", id |-> "1"],
               [provider |-> "email",  id |-> "ann"]}
MCEmails == {"ann", "Ann", "bob"}
MCAddresses == {[a \in MCAccounts |-> IF a.provider = "google" THEN e ELSE "ann"] :
                  e \in {"ann", "bob"}}
MCLower == [e \in MCEmails |-> IF e = "Ann" THEN "ann" ELSE e]
=============================================================================
