-------------------------- MODULE MCServiceClients --------------------------
(* Instance of ServiceClients: two clients with one user id. *)
EXTENDS ServiceClients, TLC

CONSTANTS c1, c2, u1

MCClients == {c1, c2}
MCUserOf  == (c1 :> u1) @@ (c2 :> u1)
AllBackends == {"memory", "seaorm", "surreal"}
=============================================================================
