-------------------------- MODULE MCGithubWebhook --------------------------
(* Instances of GithubWebhook: a push, which asks for two operations, one  *)
(* event that asks for one, and a ping, which asks for none.               *)
EXTENDS GithubWebhook

CONSTANTS push, single, ping

MCOperations ==
  [d \in Deliveries |-> CASE d = push -> 2 [] d = single -> 1 [] d = ping -> 0]

=============================================================================
