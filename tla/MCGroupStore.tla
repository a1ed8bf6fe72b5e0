---------------------------- MODULE MCGroupStore ----------------------------
(* Instance of GroupStore: three calls about a group g, with two payloads    *)
(* and one that does not serialize, and a second group h that is only        *)
(* stored.                                                                   *)
EXTENDS GroupStore, TLC

CONSTANTS g, h, p, q, bad

Ask(op, i, d) == [op |-> op, id |-> i, data |-> d]

MCRequests ==
    {Ask("store", g, p), Ask("store", g, q), Ask("store", g, bad), Ask("store", h, p),
     Ask("update", g, q), Ask("update", g, bad),
     Ask("delete", g, p), Ask("query", g, p), Ask("query_all", g, p)}

MCSeeds == {[id |-> g, data |-> p]}
AllBackends == {"memory", "seaorm", "mysql", "surreal"}
CallSymmetry == Permutations(Calls)
=============================================================================
