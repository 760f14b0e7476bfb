------------------------------- MODULE MCTalk -------------------------------
(* Small instances of the messaging page: a /dm page of a wallet with one  *)
(* token, and with two.                                                    *)
EXTENDS Talk, TLC

CONSTANTS t1, t2, r1, r2

MCPairWith == t1 :> r1 @@ t2 :> r2
MCPairWith1 == t1 :> r1
=============================================================================
