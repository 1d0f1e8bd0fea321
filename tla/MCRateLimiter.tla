--------------------------- MODULE MCRateLimiter ---------------------------
(* A small instance of RateLimiter, see rate_limiter.cfg.                  *)
EXTENDS RateLimiter
=============================================================================
