---------------------------- MODULE MCRecommender ----------------------------
(* Instances of Recommender for TLC.                                        *)
EXTENDS Recommender, TLC
=============================================================================
