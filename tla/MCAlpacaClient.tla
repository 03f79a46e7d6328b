-------------------------- MODULE MCAlpacaClient --------------------------
(* As many tokens as pages, so that both limits of the pagination are met.  *)
EXTENDS AlpacaClient

CONSTANTS t1, t2, t3, t4

MCTokens == {t1, t2, t3, t4}
MCRetryAfter == {-1, 0, 2, 9}
=============================================================================
