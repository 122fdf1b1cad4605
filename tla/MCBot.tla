-------------------------------- MODULE MCBot --------------------------------
(* Instances of Bot, and of RateLimiter below it, for TLC.                  *)
EXTENDS Bot, TLC
=============================================================================
