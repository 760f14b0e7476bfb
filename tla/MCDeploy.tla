------------------------------ MODULE MCDeploy ------------------------------
(* A contract, an archive, a contract: both kinds of address can be taken *)
(* by somebody else, and one receipt can outlive another.                  *)
EXTENDS Deploy

CONSTANTS r1, r2

Plan == <<"create", "archive", "create">>
=============================================================================
