----------------------------- MODULE MCConsign -----------------------------
(* Small instances of the consignment window on one token. *)
EXTENDS Consign, TLC

CONSTANTS t1, alice, bob, acct1, grip1, window

MCAccountOf == t1 :> acct1
MCGripOf == t1 :> grip1
MCRoyalties == {[rcv |-> None, bps |-> 2], [rcv |-> bob, bps |-> 1]}
=============================================================================
