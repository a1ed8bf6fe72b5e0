----------------------------- MODULE MCGatedApps -----------------------------
(* Instance of GatedApps: a session lasts two ticks of three, and an account is *)
(* made a plain member of the group admin.  Requests meet in the counters     *)
(* only, which the prometheus example keeps.                                  *)
EXTENDS GatedApps, TLC

CONSTANTS t1, t2

MCTabsOf  == [a \in Apps |-> IF a = "prometheus" THEN {t1, t2} ELSE {t1}]
MCChanged == {Of("User", {"admin"}, {})}

\* The two tabs are alike.
TabSymmetry == Permutations({t1, t2})
=============================================================================
