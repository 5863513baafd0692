------------------------- MODULE MCWebhookDelivery -------------------------
EXTENDS WebhookDelivery, TLC

\* Workers take the same steps; so do the admins, whose names are only secrets.
Symmetry == Permutations(Workers) \cup Permutations(Admins) \cup Permutations(Events)
=============================================================================
