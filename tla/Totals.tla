---- MODULE Totals ----
(***************************************************************************)
(* What a mapping's entries add up to: no contract keeps that sum, it is   *)
(* what the contract's balance has to cover (Lease.obligations adds up the *)
(* entries it is handed).  It is counted, one element for each unit of     *)
(* each entry, rather than folded, so that it can be reasoned about with   *)
(* the theorems on finite sets.                                            *)
(***************************************************************************)
EXTENDS Naturals, FiniteSets

\* Every wei of every entry, as the entry's key and the wei's number.
Units(f) == UNION {{x} \X (1..f[x]) : x \in DOMAIN f}

Total(f) == Cardinality(Units(f))
====
