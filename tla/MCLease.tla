------------------------------ MODULE MCLease ------------------------------
(* Small instances of the rental counter on one token. *)
EXTENDS Lease, TLC

CONSTANTS t1, alice, bob, acct1, grip1, lease

MCAccountOf == t1 :> acct1
MCGripOf == t1 :> grip1
=============================================================================
