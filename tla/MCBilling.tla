----------------------------- MODULE MCBilling ------------------------------
(* Instances of Billing for TLC. *)
EXTENDS Billing

CONSTANTS p1, p2

OneProc == {p1}
TwoProcs == {p1, p2}

\* A life of a subscription: bought, its payment fails, is made good within
\* the second, and within another one it is paused and deleted. Two instants
\* make a second.
LifeKind == [e \in Events |-> <<"checkout", "failed", "paid", "subscription", "deleted">>[e]]
LifeAt == [e \in Events |-> <<0, 2, 3, 4, 5>>[e]]
LifeOutcome == [e \in Events |-> <<"ACTIVE", "PAST_DUE", "ACTIVE", "PAUSED", "CANCELLED">>[e]]
LifeTier == [e \in Events |-> <<"PRO", "FREE", "FREE", "PRO", "FREE">>[e]]

\* customer.subscription.updated only: active, paused and cancelled within
\* one second, active again.
UpdateKind == [e \in Events |-> "subscription"]
UpdateAt == [e \in Events |-> <<0, 2, 3, 4>>[e]]
UpdateOutcome == [e \in Events |-> <<"ACTIVE", "PAUSED", "CANCELLED", "ACTIVE">>[e]]
UpdateTier == [e \in Events |-> "PRO"]

=============================================================================
