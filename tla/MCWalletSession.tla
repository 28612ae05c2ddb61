---------------------------- MODULE MCWalletSession ----------------------------
(* A student and an admin at one browser. *)
EXTENDS WalletSession, TLC

CONSTANTS sara, ann, s1, s2, a1, tab1, tab2

MCOwner == s1 :> sara @@ s2 :> sara @@ a1 :> ann
MCPortal == sara :> "wallet" @@ ann :> "admin"
Symmetric == Permutations({tab1, tab2}) \union Permutations({s1, s2})

\* The redirections of the router come to an end, and end at a page that is open
\* to the user, or at one that asks for none.
ASSUME RedirectionsEnd ==
  \A k \in MaybeToken, p \in [at : Places, from : {"wallet", "admin", none}] :
     LET q == Settled(k, p) IN
       /\ Render(k, q) = q
       /\ q.at \in {"wallet", "admin"} => k # none /\ q.at = Portal[Owner[k]]
=============================================================================
