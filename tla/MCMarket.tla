------------------------------- MODULE MCMarket -------------------------------
(***************************************************************************)
(* Instances of Market for TLC.                                            *)
(***************************************************************************)
EXTENDS Market, TLC

CONSTANTS p1, p2, p3, w1, u1, l1, stack, e1

OneWorld == [p \in Players |-> w1]
OneUniverse == [w \in Worlds |-> u1]

(* The first player has the stack and pays the listing fee; the second can *)
(* outbid the third, who can buy at the lowest price only.                 *)
Purses == [p \in Players |-> IF p = p2 THEN 2 ELSE 1]
FirstHasAll == [p \in Players |-> IF p = p1 THEN Stacks ELSE {}]
===============================================================================
