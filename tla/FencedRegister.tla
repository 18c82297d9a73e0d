---------------------------- MODULE FencedRegister ----------------------------
(***************************************************************************)
(* What the engine promises of the durable state of a profile: a register  *)
(* that only its current epoch writes.  Taking the register raises the     *)
(* epoch and leaves the value; a write carries the stamp of the current    *)
(* epoch and a higher sequence than the last write of that epoch; an       *)
(* operator change takes the register and writes it in one step.           *)
(***************************************************************************)
EXTENDS Naturals

CONSTANTS Registers,       \* one register per profile
          MaxSeq           \* the highest sequence of a write

VARIABLES epoch,           \* the epoch of each register
          value            \* the stamp of the last write of each register

registerVars == <<epoch, value>>

Stamp == [epoch: Nat, seq: Nat]

Init == /\ epoch = [r \in Registers |-> 0]
        /\ value = [r \in Registers |-> [epoch |-> 0, seq |-> 0]]

Take(r) == /\ epoch' = [epoch EXCEPT ![r] = @ + 1]
           /\ UNCHANGED value

Write(r, n) ==
    /\ value[r].epoch = epoch[r] => n > value[r].seq
    /\ value' = [value EXCEPT ![r] = [epoch |-> epoch[r], seq |-> n]]
    /\ UNCHANGED epoch

Change(r) ==
    /\ epoch' = [epoch EXCEPT ![r] = @ + 1]
    /\ value' = [value EXCEPT ![r] = [epoch |-> epoch[r] + 1, seq |-> 0]]

Next == \E r \in Registers : Take(r) \/ Change(r) \/ \E n \in 1..MaxSeq : Write(r, n)

Spec == Init /\ [][Next]_registerVars
===============================================================================
