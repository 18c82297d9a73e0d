---------------------------- MODULE MCPublication ----------------------------
(***************************************************************************)
(* Instances of Publication: an item of a job and an authored one, or one  *)
(* item of a job with a kept target.                                       *)
(***************************************************************************)
EXTENDS Publication

CONSTANTS a1, a2, k1, w1, w2, m1, m2
===============================================================================
