-------------------------- MODULE MCOrderLifecycle --------------------------
(* Instances of OrderLifecycle for TLC: a menu of two dishes, one of them   *)
(* sold out, and baskets without it, with it, and with one dish twice (with *)
(* other modifiers).                                                        *)
EXTENDS OrderLifecycle, TLC

CONSTANTS soup, tea

SoupAndTea == { <<soup>>, <<soup, tea>> }
SoupTwice  == { <<soup>>, <<soup, soup>> }
=============================================================================
