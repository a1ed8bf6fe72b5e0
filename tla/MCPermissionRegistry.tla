------------------------ MODULE MCPermissionRegistry ------------------------
(* Instance of PermissionRegistry: three calls, two names of one id and one  *)
(* of another, and a mapping whose parts do not fit.                         *)
EXTENDS PermissionRegistry, TLC

CONSTANTS a, b, x

MCNames == {a, b, x}
MCIds   == {1, 2}
MCHash  == (a :> 1) @@ (b :> 2) @@ (x :> 1)

On(n) == [name |-> n, id |-> MCHash[n]]
Bad   == [name |-> b, id |-> 1]

MCLists ==
    {<<On(a)>>, <<On(x)>>, <<On(b), On(a), On(x)>>, <<On(a), Bad>>}

MCTargets ==
    {[kind |-> "ids", ids |-> {1, 2}], [kind |-> "name", name |-> a]}

MCSeedNames == {a}
AllBackends == {"memory", "seaorm", "surreal"}
CallSymmetry == Permutations(Calls)
=============================================================================
