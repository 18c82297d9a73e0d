--------------------------- MODULE MCPlayerSession ---------------------------
(***************************************************************************)
(* Instances of PlayerSession for TLC.                                     *)
(***************************************************************************)
EXTENDS PlayerSession, TLC

CONSTANTS c1, c2, s1, s2, w1, w2, u1, u2, p1, o1

(* One world with two servers, each reached by one connection.             *)
OneWorld == [s \in Servers |-> w1]
OneUniverse == [w \in Worlds |-> u1]
TwoConns == (c1 :> s1) @@ (c2 :> s2)

(* Two worlds with a server each.                                          *)
WorldEach == (s1 :> w1) @@ (s2 :> w2)

(* Operator requests name the profile of the first universe.               *)
NoRequest == [o \in {} |-> o]
OnOneProfile == (o1 :> u1)
===============================================================================
