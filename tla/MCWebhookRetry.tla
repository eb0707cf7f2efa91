----------------------------- MODULE MCWebhookRetry -----------------------------
(* Small instance of WebhookRetry: two requests and two overlapping jobs.    *)
EXTENDS WebhookRetry

CONSTANTS c1, c2, j1, j2
=============================================================================
