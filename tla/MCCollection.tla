---------------------------- MODULE MCCollection ----------------------------
(* A small instance of the whole collection. *)
EXTENDS Collection, TLC

CONSTANTS alice, bob, acct1, acct2, grip1, grip2

MCAccountOf == <<acct1, acct2>>
MCGripOf == <<grip1, grip2>>
MCUsageGrants == {<<1, bob>>}
=============================================================================
