------------------------- MODULE MCRedisRateLimiter -------------------------
(* Small instances of RedisRateLimiter for TLC. *)
EXTENDS RedisRateLimiter, TLC
=============================================================================
