------------------------------ MODULE MCReview ------------------------------
(* Two clicks and two accounts: enough for reviews to overlap, for the NFT *)
(* to be sold or used elsewhere once, and for the wallet to be changed and *)
(* linked again while both are under way.                                  *)
EXTENDS Review, TLC

CONSTANTS a1, a2, owner, buyer

Symmetry == Permutations(Tasks) \cup Permutations(Accounts)
=============================================================================
