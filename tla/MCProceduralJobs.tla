-------------------------- MODULE MCProceduralJobs ---------------------------
(***************************************************************************)
(* Instances of ProceduralJobs: one target with one candidate or two, of   *)
(* which the second is generated after the first.                          *)
(***************************************************************************)
EXTENDS ProceduralJobs, TLC

CONSTANTS i1, i2, t1, w1, w2, m1, m2, source

OneItem == [i \in {i1} |-> t1]
NoneBefore == [i \in {i1} |-> NoItem]
BothItems == [i \in {i1, i2} |-> t1]
SecondAfterFirst == [i \in {i1, i2} |-> IF i = i1 THEN NoItem ELSE i1]
SourceOf1 == [t \in {t1} |-> source]
Alike == Permutations({m1, m2})
===============================================================================
