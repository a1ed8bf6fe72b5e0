-------------------------- MODULE MCAccountServices --------------------------
(* Small instances of AccountServices. *)
EXTENDS AccountServices, TLC

CONSTANTS s1, u1, r1, r3

\* The account that exists when a behaviour starts.
MCSeeds == {[id |-> s1, user |-> u1, roles |-> r1]}

\* r3 is r1 with a permission.
MCInColumns == [r \in Roles |-> IF r = r3 THEN r1 ELSE r]

CallSymmetry == Permutations(Calls)
=============================================================================
