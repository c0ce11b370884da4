---------------------------- MODULE OAuthContract ----------------------------
(* What an authorization of a client promises: it is offered as a code,     *)
(* redeemed at most once, carried on by one refresh token at a time, and,   *)
(* once it has ended, never comes back.                                     *)
EXTENDS Naturals

CONSTANT Grants

VARIABLES
  stage,     \* "none", "offered", "live" (one refresh token carries it on) or "ended"
  redeemed   \* times the code was turned into tokens

cvars == <<stage, redeemed>>

Init ==
  /\ stage = [g \in Grants |-> "none"]
  /\ redeemed = [g \in Grants |-> 0]

Offer(g) ==
  /\ stage[g] = "none"
  /\ stage' = [stage EXCEPT ![g] = "offered"]
  /\ UNCHANGED redeemed

(* The code is claimed; with offline access the authorization lives on.     *)
Claim(g) ==
  /\ stage[g] = "offered"
  /\ \E s \in {"live", "ended"} : stage' = [stage EXCEPT ![g] = s]
  /\ UNCHANGED redeemed

Redeem(g) ==
  /\ stage[g] \in {"live", "ended"}
  /\ redeemed[g] = 0
  /\ redeemed' = [redeemed EXCEPT ![g] = 1]
  /\ UNCHANGED stage

(* A restart, a detected reuse or a revocation may end several at once.     *)
End(S) ==
  /\ S # {}
  /\ \A g \in S : stage[g] \in {"offered", "live"}
  /\ stage' = [g \in Grants |-> IF g \in S THEN "ended" ELSE stage[g]]
  /\ UNCHANGED redeemed

Next ==
  \/ \E g \in Grants : Offer(g) \/ Claim(g) \/ Redeem(g)
  \/ \E S \in SUBSET Grants : End(S)

Spec == Init /\ [][Next]_cvars
=============================================================================
