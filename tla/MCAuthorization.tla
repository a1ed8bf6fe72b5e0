--------------------------- MODULE MCAuthorization ---------------------------
(* A small instance of Authorization. *)
EXTENDS Authorization, TLC

MCRank == [r \in Roles |-> IF r = "User" THEN 0 ELSE 1]

\* Two spellings of one name, and another name.
MCNormalize == [s \in Strings |-> IF s = "Read" THEN "read" ELSE s]

\* A hash without collisions, and one that maps both names to one id.
MCHashes == {[n \in Names |-> IF n = "read" THEN "id1" ELSE "id2"], [n \in Names |-> "id1"]}
=============================================================================
