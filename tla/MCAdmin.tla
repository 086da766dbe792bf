------------------------------- MODULE MCAdmin -------------------------------
(* An instance of Admin for TLC *)
EXTENDS Admin, TLC

MCProc == Request \cup {Main}

MCBootstrap == [u \in {"alice"} |-> "admin"]

MCData == [User \cup App -> Role \cup Setting \cup {None}]

MCEmpty == [x \in User \cup App |-> None]

Symmetry == Permutations(Request)
=============================================================================
