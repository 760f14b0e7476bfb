---------------------------- MODULE MCSuccession ----------------------------
(* Small instances of the dead man's switch. *)
EXTENDS Succession, TLC

CONSTANTS t1, t2, alice, bob, acct1, acct2, grip1, grip2, succ

MCAccountOf == (t1 :> acct1) @@ (t2 :> acct2)
MCGripOf == (t1 :> grip1) @@ (t2 :> grip2)
MCAccountOf1 == t1 :> acct1
MCGripOf1 == t1 :> grip1
MCGrants == {<<alice, succ>>}
=============================================================================
