---------------------------- MODULE MCJointCommit ----------------------------
(***************************************************************************)
(* Instances of JointCommit for TLC.                                       *)
(***************************************************************************)
EXTENDS JointCommit, TLC

CONSTANTS p1, p2, s1, s2, w1, o1, o2, o3, coin, stack

OneWorld == [s \in Servers |-> w1]

(* One player has the coins, the other the stacks.                         *)
OneEach == (p1 :> Coins) @@ (p2 :> Stacks)

(* One of the players is taken over, the other is not.                     *)
FirstTwice == (p1 :> 2) @@ (p2 :> 1)
SecondTwice == (p1 :> 1) @@ (p2 :> 2)

(* The player with two sessions captures two states in each.              *)
FirstTwo == (p1 :> 2) @@ (p2 :> 1)
OneState == [p \in Players |-> 1]

OpSymmetry == Permutations(Ops)
=============================================================================
