------------------------ MODULE MCSubscriptionMirror ------------------------
(* Instances of SubscriptionMirror for TLC. *)
EXTENDS SubscriptionMirror, TLC

\* Everything that can interleave on the account's two subscriptions.
RaceRequests == {"webhook", "withdraw", "ended"}

\* Everything that happens to one subscription over time.
LifeRequests == {"webhook", "due", "grant", "trial", "missing", "change"}

\* No webhook about a subscription arrives: only the daily walk and what
\* people ask for move the row.
LostRequests == {"sweep", "withdraw", "refund", "ended", "revoke"}

\* Webhook deliveries alone.
WebhookRequests == {"webhook"}

Symmetry == Permutations(Subs) \cup Permutations(Handlers) \cup Permutations(Plans)
=============================================================================
